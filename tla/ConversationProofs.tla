-------------------------- MODULE ConversationProofs --------------------------
(***************************************************************************)
(* What holds of the layers of a conversation for any number of devices    *)
(* and any horizons: a message marked delivered was read by a device of    *)
(* the person it is for, whoever forgets does so late enough, every        *)
(* envelope of a session opens once, and for any number of texts, losses   *)
(* and resends a session book is one and a deleted text stays deleted.     *)
(***************************************************************************)
EXTENDS MCConversation, RatchetProofs

-----------------------------------------------------------------------------
(* One message among the devices (Fanout).                                 *)

OwnCopies == {Parcel("syncSent", Writer, d) : d \in Own \ {Writer}}
Stages == {"none", "outbox", "waiting", "decided"}

Ranges ==
  /\ listed \in SUBSET Theirs \ {{}} /\ sending \subseteq listed
  /\ partners \subseteq Own \ {Writer}
  /\ firing \subseteq {Copy(d) : d \in listed}
  /\ at \in [Parcels -> Stages]
  /\ unsent \subseteq Copies /\ taken \subseteq Copies
  /\ row \in [Reader -> {"none", "unknown", "sent", "delivered"}] /\ tombs \subseteq Reader
  /\ errands \subseteq Task /\ verdict \in {"none", "cancelled", "requested"}
  /\ cuts \in 0 .. MaxCuts

\* What is planned is under its lock, and has not been committed.
Locked ==
  /\ \A q \in planning :
       /\ q = [parcel |-> q.parcel, put |-> q.put] /\ q.put \in BOOLEAN
       /\ q.parcel \in Parcels /\ at[q.parcel] = "waiting"
  /\ \A q, r \in planning :
       q.parcel.to = r.parcel.to /\ q.parcel.from = r.parcel.from => q = r

\* Every copy is made once: the copies for the own devices after those for the person.
MadeOnce ==
  /\ \A d \in sending : at[Copy(d)] = "none"
  /\ \A p \in firing \union unsent \union taken : at[p] # "none"
  /\ taken \cap unsent = {}
  /\ \A t \in errands : t.kind = "syncSent" =>
       t.by = Writer /\ \A p \in OwnCopies : at[p] = "none"
  /\ (\E t \in errands : t.kind = "syncSent") \/ (\E p \in OwnCopies : at[p] # "none") =>
       sending = {} /\ firing = {} /\ \E d \in Theirs : at[Copy(d)] # "none"

FanoutInv == Ranges /\ Locked /\ MadeOnce

LEMMA ParcelsAre ==
  /\ \A k, d, e : Parcel(k, d, e).kind = k /\ Parcel(k, d, e).from = d /\ Parcel(k, d, e).to = e
  /\ \A d \in Theirs : Copy(d) \in Copies /\ Copy(d).kind = "text" /\ Copy(d).to = d
  /\ \A p \in Copies : p.kind = "text" => p.to \in Theirs /\ p = Copy(p.to)
  /\ \A p \in Copies : p.kind = "syncSent" => p \in OwnCopies
  /\ OwnCopies \subseteq Copies /\ Copies \subseteq Parcels
  /\ \A p \in OwnCopies : p.kind = "syncSent"
  /\ \A p \in Copies : p.kind \in {"text", "syncSent"}
BY DEF Parcel, Copy, Copies, Parcels, OwnCopies

LEMMA ReadersAre ==
  ASSUME NEW p \in Parcels
  PROVE  p.to \in Reader /\ p.from \in Reader /\ (p.kind \in {"text", "delete"} => p.to \in Theirs)
BY FanoutAssumption DEF Parcels, Parcel, Reader

\* What moves is where it was said, and the rest stays.
LEMMA MoveIs ==
  ASSUME at \in [Parcels -> Stages], NEW S, NEW stage \in Stages
  PROVE  /\ Move(S, stage) \in [Parcels -> Stages]
         /\ \A p \in Parcels \cap S : Move(S, stage)[p] = stage
         /\ \A p \in Parcels \ S : Move(S, stage)[p] = at[p]
BY DEF Move

LEMMA FanoutInvImplies == FanoutInv => FanoutTypeOK
<1> SUFFICES ASSUME FanoutInv PROVE FanoutTypeOK
  OBVIOUS
<1>1. planning \subseteq [parcel : {p \in Parcels : at[p] = "waiting"}, put : BOOLEAN]
  BY DEF FanoutInv, Locked
<1> QED
  BY <1>1 DEF FanoutInv, Ranges, Locked, MadeOnce, Stages, FanoutTypeOK

LEMMA FanoutInitially == FanoutInit => FanoutInv
<1> SUFFICES ASSUME FanoutInit PROVE FanoutInv
  OBVIOUS
<1>1. Ranges
  BY FanoutAssumption DEF FanoutInit, Ranges, Stages
<1>2. Locked
  BY DEF FanoutInit, Locked
<1>3. MadeOnce
  BY ParcelsAre DEF FanoutInit, MadeOnce
<1> QED
  BY <1>1, <1>2, <1>3 DEF FanoutInv

LEMMA RangesKept ==
  ASSUME FanoutInv, FanoutNext
  PROVE  Ranges'
<1> USE FanoutAssumption, ParcelsAre DEF known
<1>0. Ranges /\ Locked
  BY DEF FanoutInv
<1>1. CASE WriteText
  BY <1>0, <1>1 DEF WriteText, Ranges
<1>2. CASE SendCopy
  <2>1. PICK d \in sending :
          /\ sending' = sending \ {d}
          /\ \/ /\ at' = Move({Copy(d)}, "outbox") /\ unsent' = unsent \union {Copy(d)}
                /\ firing' = firing \union {Copy(d)}
                /\ row' = IF firing = {} THEN [row EXCEPT ![Writer] = "unknown"] ELSE row
             \/ UNCHANGED <<at, unsent, firing, row>>
    BY <1>2 DEF SendCopy
  <2>2. at' \in [Parcels -> Stages]
    BY <1>0, <2>1, MoveIs DEF Ranges, Stages
  <2> QED
    BY <1>0, <1>2, <2>1, <2>2 DEF SendCopy, Ranges
<1>3. CASE Fire
  <2>1. at' \in [Parcels -> Stages]
    BY <1>0, <1>3, MoveIs DEF Fire, Ranges, Stages
  <2> QED
    BY <1>0, <1>3, <2>1 DEF Fire, Ranges, Task, Reader
<1>4. CASE AskToDelete
  <2>1. at' \in [Parcels -> Stages]
    BY <1>0, <1>4, MoveIs DEF AskToDelete, Ranges, Stages
  <2> QED
    BY <1>0, <1>4, <2>1 DEF AskToDelete, Ranges, Task, Reader
<1>5. ASSUME NEW p \in Copies, RelayTakes(p) PROVE Ranges'
  <2>1. at' \in [Parcels -> Stages]
    BY <1>0, <1>5, MoveIs DEF RelayTakes, Ranges, Stages
  <2> QED
    BY <1>0, <1>5, <2>1 DEF RelayTakes, Ranges
<1>6. ASSUME NEW p \in Copies, SentHeard(p) PROVE Ranges'
  <2>1. row' \in [Reader -> {"none", "unknown", "sent", "delivered"}]
    BY <1>0, <1>6 DEF SentHeard, Ranges, Raised
  <2> QED
    BY <1>0, <1>6, <2>1 DEF SentHeard, Ranges
<1>7. ASSUME NEW p \in Copies, DeliveredHeard(p) PROVE Ranges'
  <2>1. row' \in [Reader -> {"none", "unknown", "sent", "delivered"}]
    BY <1>0, <1>7 DEF DeliveredHeard, Ranges, Raised
  <2> QED
    BY <1>0, <1>7, <2>1 DEF DeliveredHeard, Ranges
<1>8. ASSUME NEW p \in Parcels, Plan(p) PROVE Ranges'
  BY <1>0, <1>8 DEF Plan, Ranges
<1>9. ASSUME NEW p \in Parcels, Erase(p) PROVE Ranges'
  <2>1. at' \in [Parcels -> Stages]
    BY <1>0, <1>9, MoveIs DEF Erase, Ranges, Stages
  <2>2. errands' \subseteq Task
    BY <1>0, <1>9, ReadersAre DEF Erase, Ranges, DeletePassedOn, Task
  <2>3. row' \in [Reader -> {"none", "unknown", "sent", "delivered"}] /\ tombs' \subseteq Reader
    BY <1>0, <1>9, ReadersAre DEF Erase, Ranges
  <2> QED
    BY <1>0, <1>9, <2>1, <2>2, <2>3 DEF Erase, Ranges
<1>10. ASSUME NEW q \in planning, StoreRow(q) PROVE Ranges'
  <2>0. q.parcel \in Parcels
    BY <1>0 DEF Locked
  <2>1. at' \in [Parcels -> Stages]
    BY <1>0, <1>10, MoveIs DEF StoreRow, Ranges, Stages
  <2>2. errands' \subseteq Task
    BY <1>0, <1>10, <2>0, ReadersAre DEF StoreRow, Ranges, PassedOn, Task
  <2>3. row' \in [Reader -> {"none", "unknown", "sent", "delivered"}]
    BY <1>0, <1>10 DEF StoreRow, Ranges
  <2> QED
    BY <1>0, <1>10, <2>1, <2>2, <2>3 DEF StoreRow, Ranges
<1>11. ASSUME NEW t \in errands, RunErrand(t) PROVE Ranges'
  <2>1. at' \in [Parcels -> Stages]
    BY <1>0, <1>11, MoveIs DEF RunErrand, Ranges, Stages
  <2>2. t.kind = "syncSent" => t.by = Writer
    BY DEF FanoutInv, MadeOnce
  <2>3. unsent' \subseteq Copies
    BY <1>0, <1>11, <2>2 DEF RunErrand, Ranges, Siblings, OwnCopies
  <2> QED
    BY <1>0, <1>11, <2>1, <2>3 DEF RunErrand, Ranges
<1>12. ASSUME NEW d \in Reader, ProgramEnds(d) PROVE Ranges'
  BY <1>0, <1>12 DEF ProgramEnds, Ranges
<1> QED
  BY <1>1, <1>2, <1>3, <1>4, <1>5, <1>6, <1>7, <1>8, <1>9, <1>10, <1>11, <1>12 DEF FanoutNext

\* What is planned stays planned where only other parcels move.
LEMMA LockedSame ==
  ASSUME Locked, planning' \subseteq planning,
         \A q \in planning' : at'[q.parcel] = "waiting"
  PROVE  Locked'
BY DEF Locked

LEMMA LockedKept ==
  ASSUME FanoutInv, FanoutNext
  PROVE  Locked'
<1> USE FanoutAssumption, ParcelsAre DEF known
<1>0. /\ Locked /\ at \in [Parcels -> Stages] /\ sending \subseteq Theirs
      /\ \A q \in planning : q.parcel \in Parcels /\ at[q.parcel] = "waiting"
  BY DEF FanoutInv, Ranges, Locked
\* Only what is not waiting is moved away from where it is.
<1>1. ASSUME planning' = planning, NEW S, NEW stage \in Stages, at' = Move(S, stage),
             stage = "waiting" \/ \A p \in Parcels \cap S : at[p] # "waiting"
      PROVE  Locked'
  <2>1. \A q \in planning : at'[q.parcel] = "waiting"
    BY <1>0, <1>1, MoveIs
  <2> QED
    BY <1>0, <1>1, <2>1, LockedSame
<1>2. CASE SendCopy
  <2>1. PICK d \in sending : UNCHANGED at \/ at' = Move({Copy(d)}, "outbox")
    BY <1>2 DEF SendCopy
  <2>2. at[Copy(d)] = "none"
    BY <2>1 DEF FanoutInv, MadeOnce
  <2>3. CASE UNCHANGED at
    BY <1>0, <1>2, <2>3, LockedSame DEF SendCopy
  <2>4. CASE at' = Move({Copy(d)}, "outbox")
    BY <1>1, <1>2, <2>2, <2>4 DEF SendCopy, Stages
  <2> QED
    BY <2>1, <2>3, <2>4
<1>3. CASE Fire
  BY <1>1, <1>3 DEF Fire, Stages
<1>4. CASE AskToDelete
  <2>1. CASE at' = at
    BY <1>0, <1>4, <2>1, LockedSame DEF AskToDelete
  <2>2. CASE at' = Move({Parcel("delete", Writer, d) : d \in listed}, "waiting")
    BY <1>1, <1>4, <2>2 DEF AskToDelete, Stages
  <2> QED
    BY <1>4, <2>1, <2>2 DEF AskToDelete
<1>5. ASSUME NEW p \in Copies, RelayTakes(p) PROVE Locked'
  BY <1>1, <1>5 DEF RelayTakes, Stages
<1>6. ASSUME NEW p \in Parcels, Plan(p) PROVE Locked'
  <2> DEFINE new == [parcel |-> p, put |-> p.to \notin tombs]
  <2>1. planning' = planning \union {new} /\ at' = at /\ at[p] = "waiting"
    BY <1>6 DEF Plan
  <2>2. \A q \in planning : q.parcel.to # p.to \/ q.parcel.from # p.from
    BY <1>6 DEF Plan, LockFree
  <2>3. new.parcel = p /\ new.put \in BOOLEAN /\ new = [parcel |-> new.parcel, put |-> new.put]
    OBVIOUS
  <2> HIDE DEF new
  <2>4. \A q \in planning' : /\ q = [parcel |-> q.parcel, put |-> q.put] /\ q.put \in BOOLEAN
                             /\ q.parcel \in Parcels /\ at'[q.parcel] = "waiting"
    BY <1>0, <2>1, <2>3 DEF Locked
  <2>5. ASSUME NEW q \in planning', NEW r \in planning',
               q.parcel.to = r.parcel.to /\ q.parcel.from = r.parcel.from
        PROVE  q = r
    BY <1>0, <2>1, <2>2, <2>3, <2>5 DEF Locked
  <2> QED
    BY <2>4, <2>5 DEF Locked
<1>7. ASSUME NEW p \in Parcels, Erase(p) PROVE Locked'
  <2>1. \A q \in planning : q.parcel # p
    BY <1>7 DEF Erase, LockFree
  <2>2. planning' = planning /\ at' = Move({p}, "decided") /\ "decided" \in Stages
    BY <1>7 DEF Erase, Stages
  <2>3. \A q \in planning : at'[q.parcel] = "waiting"
    BY <1>0, <2>1, <2>2, MoveIs
  <2> QED
    BY <1>0, <2>2, <2>3, LockedSame
<1>8. ASSUME NEW q \in planning, StoreRow(q) PROVE Locked'
  <2>1. \A r \in planning : r.parcel = q.parcel => r = q
    BY <1>0 DEF Locked
  <2>2. planning' = planning \ {q} /\ at' = Move({q.parcel}, "decided") /\ "decided" \in Stages
    BY <1>8 DEF StoreRow, Stages
  <2>3. \A r \in planning' : at'[r.parcel] = "waiting"
    BY <1>0, <2>1, <2>2, MoveIs
  <2> QED
    BY <1>0, <2>2, <2>3, LockedSame
<1>9. ASSUME NEW t \in errands, RunErrand(t) PROVE Locked'
  <2> DEFINE parcels == {Parcel(t.kind, t.by, d) : d \in Siblings(t.by)}
  <2>1. planning' = planning
    BY <1>9 DEF RunErrand
  <2>2. CASE t.kind = "syncSent"
    <3>1. parcels \subseteq OwnCopies
      BY <2>2 DEF FanoutInv, MadeOnce, Ranges, Siblings, OwnCopies
    <3>2. \A p \in parcels : at[p] = "none"
      BY <2>2, <3>1 DEF FanoutInv, MadeOnce
    <3>3. at' = Move(parcels, "outbox")
      BY <1>9, <2>2 DEF RunErrand
    <3> QED
      BY <1>1, <2>1, <3>2, <3>3 DEF Stages
  <2>3. CASE t.kind # "syncSent"
    BY <1>1, <1>9, <2>1, <2>3 DEF RunErrand, Stages
  <2> QED
    BY <2>2, <2>3
<1>10. CASE planning' \subseteq planning /\ at' = at
  BY <1>0, <1>10, LockedSame
<1> QED
  BY <1>2, <1>3, <1>4, <1>5, <1>6, <1>7, <1>8, <1>9, <1>10
     DEF FanoutNext, WriteText, SentHeard, DeliveredHeard, ProgramEnds

\* The copies stay where nothing is made, and the histories only grow by what was made.
LEMMA MadeOnceSame ==
  ASSUME Ranges, MadeOnce, sending' \subseteq sending, firing' \subseteq firing,
         \A p \in Parcels : at'[p] = "none" <=> at[p] = "none",
         taken' \cap unsent' = {}, taken' \union unsent' \subseteq taken \union unsent,
         \A t \in errands' : t.kind = "syncSent" => t \in errands
  PROVE  MadeOnce'
<1> USE ParcelsAre
<1>1. /\ sending \subseteq Theirs /\ firing \subseteq Parcels
      /\ unsent \subseteq Parcels /\ taken \subseteq Parcels
  BY DEF Ranges
<1> QED
  BY <1>1 DEF MadeOnce

LEMMA MadeOnceKept ==
  ASSUME FanoutInv, FanoutNext
  PROVE  MadeOnce'
<1> USE FanoutAssumption, ParcelsAre DEF known
<1>0. /\ Ranges /\ MadeOnce /\ at \in [Parcels -> Stages] /\ sending \subseteq Theirs
      /\ firing \union unsent \union taken \subseteq Copies
  BY DEF FanoutInv, Ranges
<1>1. CASE WriteText
  <2>1. sending' = listed /\ \A d \in Theirs : at[Copy(d)] = "none"
    BY <1>1 DEF WriteText
  <2>2. /\ ~\E t \in errands : t.kind = "syncSent"
        /\ ~\E p \in OwnCopies : at[p] # "none"
    BY <1>0, <2>1 DEF MadeOnce
  <2>3. listed \subseteq Theirs /\ UNCHANGED <<at, firing, unsent, taken, errands>>
    BY <1>0, <1>1 DEF Ranges, WriteText
  <2> QED
    BY <1>0, <2>1, <2>2, <2>3 DEF MadeOnce
<1>2. CASE SendCopy
  <2>1. PICK d \in sending :
          /\ sending' = sending \ {d}
          /\ \/ /\ at' = Move({Copy(d)}, "outbox") /\ unsent' = unsent \union {Copy(d)}
                /\ firing' = firing \union {Copy(d)}
             \/ UNCHANGED <<at, unsent, firing>>
    BY <1>2 DEF SendCopy
  <2>2. taken' = taken /\ errands' = errands
    BY <1>2 DEF SendCopy
  <2>3. CASE UNCHANGED <<at, unsent, firing>>
    BY <1>0, <2>1, <2>2, <2>3, MadeOnceSame DEF MadeOnce
  <2>4. CASE /\ at' = Move({Copy(d)}, "outbox") /\ unsent' = unsent \union {Copy(d)}
             /\ firing' = firing \union {Copy(d)}
    <3>1. at[Copy(d)] = "none" /\ d \in Theirs
      BY <1>0 DEF MadeOnce
    <3>2. /\ at'[Copy(d)] = "outbox"
          /\ \A p \in Parcels : p # Copy(d) => at'[p] = at[p]
      BY <1>0, <2>4, <3>1, MoveIs DEF Stages
    <3>3. \A e \in sending' : Copy(e) # Copy(d) /\ e \in Theirs
      BY <1>0, <2>1, <3>1
    <3>4. /\ ~\E t \in errands : t.kind = "syncSent"
          /\ ~\E p \in OwnCopies : at[p] # "none"
      BY <1>0 DEF MadeOnce
    <3>5. ~\E p \in OwnCopies : at'[p] # "none"
      BY <3>1, <3>2, <3>4
    <3>6. \A p \in firing' \union unsent' \union taken' : at'[p] # "none"
      <4> SUFFICES ASSUME NEW p \in firing' \union unsent' \union taken', p # Copy(d)
                   PROVE  at'[p] # "none"
        BY <3>2
      <4>1. p \in firing \union unsent \union taken
        BY <2>2, <2>4
      <4>2. at[p] # "none" /\ p \in Parcels
        BY <1>0, <4>1 DEF MadeOnce
      <4> QED
        BY <3>2, <4>2
    <3>7. taken' \cap unsent' = {}
      BY <1>0, <2>2, <2>4, <3>1 DEF MadeOnce
    <3>8. \A e \in sending' : at'[Copy(e)] = "none"
      BY <1>0, <2>1, <3>2, <3>3 DEF MadeOnce
    <3> QED
      BY <2>2, <3>4, <3>5, <3>6, <3>7, <3>8 DEF MadeOnce
  <2> QED
    BY <2>1, <2>3, <2>4
<1>3. CASE Fire
  <2>1. PICK S \in SUBSET {p \in firing \ unsent : at[p] = "outbox"} : at' = Move(S, "waiting")
    BY <1>3 DEF Fire
  <2>2. \A p \in Parcels : at'[p] = "none" <=> at[p] = "none"
    BY <1>0, <2>1, MoveIs DEF Stages
  <2>3. /\ sending = {} /\ sending' = {} /\ firing' = {} /\ UNCHANGED <<unsent, taken>>
        /\ errands' = errands \union {[by |-> Writer, kind |-> "syncSent"]}
    BY <1>3 DEF Fire
  <2>4. PICK f \in firing : TRUE
    BY <1>3 DEF Fire
  <2>5. f \in Copies /\ f.kind = "text" /\ f.to \in Theirs /\ f = Copy(f.to)
    BY <1>0, <2>4 DEF Ranges
  <2>6. at'[Copy(f.to)] # "none"
    BY <1>0, <2>2, <2>4, <2>5 DEF MadeOnce
  <2>7. \A p \in OwnCopies : at'[p] = "none"
    BY <1>0, <2>2, <2>4 DEF MadeOnce
  <2>8. \A t \in errands' : t.kind = "syncSent" => t.by = Writer
    BY <1>0, <2>3 DEF MadeOnce
  <2>9. \A p \in firing' \union unsent' \union taken' : at'[p] # "none"
    BY <1>0, <2>2, <2>3 DEF MadeOnce
  <2> QED
    BY <1>0, <2>3, <2>5, <2>6, <2>7, <2>8, <2>9 DEF MadeOnce
<1>4. CASE AskToDelete
  <2> DEFINE S == {Parcel("delete", Writer, d) : d \in listed}
  <2>1. at' = at \/ at' = Move(S, "waiting")
    BY <1>4 DEF AskToDelete
  <2>2. \A p \in S : p \notin Copies
    OBVIOUS
  <2>3. \A p \in Copies : at'[p] = at[p]
    BY <1>0, <2>1, <2>2, MoveIs DEF Stages
  <2>4. /\ sending' = sending /\ firing' = firing /\ unsent' = {} /\ taken' = taken
        /\ errands' = errands \union {[by |-> Writer, kind |-> "syncDelete"]}
    BY <1>4 DEF AskToDelete
  <2> QED
    BY <1>0, <2>3, <2>4 DEF MadeOnce
<1>5. ASSUME NEW p \in Copies, RelayTakes(p) PROVE MadeOnce'
  <2>1. \A r \in Parcels : at'[r] = "none" <=> at[r] = "none"
    BY <1>0, <1>5, MoveIs DEF RelayTakes, Stages
  <2> QED
    BY <1>0, <1>5, <2>1, MadeOnceSame DEF RelayTakes, MadeOnce
<1>6. ASSUME NEW p \in Copies, SentHeard(p) PROVE MadeOnce'
  BY <1>0, <1>6, MadeOnceSame DEF SentHeard, MadeOnce
<1>7. ASSUME NEW p \in Parcels, Erase(p) PROVE MadeOnce'
  <2>1. \A r \in Parcels : at'[r] = "none" <=> at[r] = "none"
    BY <1>0, <1>7, MoveIs DEF Erase, Stages
  <2>2. \A t \in errands' : t.kind = "syncSent" => t \in errands
    BY <1>7 DEF Erase, DeletePassedOn
  <2> QED
    BY <1>0, <1>7, <2>1, <2>2, MadeOnceSame DEF Erase, MadeOnce
<1>8. ASSUME NEW q \in planning, StoreRow(q) PROVE MadeOnce'
  <2>0. q.parcel \in Parcels /\ at[q.parcel] = "waiting"
    BY DEF FanoutInv, Locked
  <2>1. \A r \in Parcels : at'[r] = "none" <=> at[r] = "none"
    BY <1>0, <1>8, <2>0, MoveIs DEF StoreRow, Stages
  <2>2. \A t \in errands' : t.kind = "syncSent" => t \in errands
    BY <1>8 DEF StoreRow, PassedOn
  <2> QED
    BY <1>0, <1>8, <2>1, <2>2, MadeOnceSame DEF StoreRow, MadeOnce
<1>9. ASSUME NEW t \in errands, RunErrand(t) PROVE MadeOnce'
  <2> DEFINE parcels == {Parcel(t.kind, t.by, d) : d \in Siblings(t.by)}
  <2>1. /\ UNCHANGED <<sending, firing, taken>> /\ errands' = errands \ {t}
    BY <1>9 DEF RunErrand
  <2>2. CASE t.kind = "syncSent"
    <3>1. parcels \subseteq OwnCopies
      BY <1>0, <2>2 DEF MadeOnce, Ranges, Siblings, OwnCopies
    <3>2. at' = Move(parcels, "outbox") /\ unsent' = unsent \union parcels
      BY <1>9, <2>2 DEF RunErrand
    <3>3. \A p \in parcels : at[p] = "none" /\ at'[p] = "outbox"
      BY <1>0, <2>2, <3>1, <3>2, MoveIs DEF MadeOnce, Stages
    <3>4. \A p \in Parcels : at[p] # "none" => at'[p] # "none"
      BY <1>0, <3>2, <3>3, MoveIs DEF Stages
    <3>5. /\ sending = {} /\ firing = {}
          /\ \E d \in Theirs : at[Copy(d)] # "none"
      BY <1>0, <2>2 DEF MadeOnce
    <3>6. \E d \in Theirs : at'[Copy(d)] # "none"
      BY <3>4, <3>5
    <3>7. \A r \in errands' : r.kind # "syncSent"
      BY <1>0, <2>1, <2>2 DEF MadeOnce, Ranges, Task
    <3>8. taken' \cap unsent' = {}
      BY <1>0, <2>1, <3>2, <3>3 DEF MadeOnce
    <3>9. \A p \in unsent' \union taken' : at'[p] # "none"
      BY <1>0, <2>1, <3>2, <3>3, <3>4 DEF MadeOnce
    <3> QED
      BY <2>1, <3>5, <3>6, <3>7, <3>8, <3>9 DEF MadeOnce
  <2>3. CASE t.kind # "syncSent"
    <3>1. at' = Move(parcels, "waiting") /\ unsent' = unsent
      BY <1>9, <2>3 DEF RunErrand
    <3>2. \A p \in parcels : p \notin Copies
      <4>1. t.kind # "text"
        BY <1>0 DEF Ranges, Task
      <4> QED
        BY <2>3, <4>1
    <3>3. \A p \in Copies : at'[p] = at[p]
      BY <1>0, <3>1, <3>2, MoveIs DEF Stages
    <3> QED
      BY ZenonT(60), <1>0, <2>1, <3>1, <3>3 DEF MadeOnce
  <2> QED
    BY <2>2, <2>3
<1>10. ASSUME NEW d \in Reader, ProgramEnds(d) PROVE MadeOnce'
  BY <1>0, <1>10, MadeOnceSame DEF ProgramEnds, MadeOnce
<1>11. CASE UNCHANGED <<sending, firing, at, unsent, taken, errands>>
  BY <1>0, <1>11 DEF MadeOnce
<1> QED
  BY <1>1, <1>2, <1>3, <1>4, <1>5, <1>6, <1>7, <1>8, <1>9, <1>10, <1>11
     DEF FanoutNext, DeliveredHeard, Plan

LEMMA FanoutInvKept == FanoutInv /\ [FanoutNext]_fanoutVars => FanoutInv'
<1>1. FanoutInv /\ FanoutNext => FanoutInv'
  BY RangesKept, LockedKept, MadeOnceKept DEF FanoutInv
<1>2. FanoutInv /\ UNCHANGED fanoutVars => FanoutInv'
  BY DEF FanoutInv, Ranges, Locked, MadeOnce, fanoutVars, known
<1> QED
  BY <1>1, <1>2

\* Every variable of the fan-out is of its type: a lock has one holder, and no copy is
\* both heard to be taken and still to be sent.
THEOREM FanoutTypesHold == FanoutSpec => []FanoutTypeOK
BY FanoutInitially, FanoutInvKept, FanoutInvImplies, PTL DEF FanoutSpec

\* A text is marked delivered only by an answer about a copy for one of their devices,
\* and a copy that was decided is not sent anew.
LEMMA DeliveredKept ==
  ASSUME FanoutInv, DeliveredIsTrue, [FanoutNext]_fanoutVars
  PROVE  DeliveredIsTrue'
<1> USE FanoutAssumption, ParcelsAre DEF known
<1>0. /\ at \in [Parcels -> Stages] /\ sending \subseteq Theirs
      /\ row \in [Reader -> {"none", "unknown", "sent", "delivered"}] /\ Writer \in Reader
  BY DEF FanoutInv, Ranges, Reader
<1>1. ASSUME \A d \in Theirs : at[Copy(d)] = "decided" => at'[Copy(d)] = "decided",
             row'[Writer] = "delivered" => row[Writer] = "delivered"
      PROVE  DeliveredIsTrue'
  BY <1>1 DEF DeliveredIsTrue, Decided
<1>2. ASSUME NEW S, NEW stage \in Stages, at' = Move(S, stage),
             stage = "decided" \/ \A p \in Copies \cap S : at[p] # "decided"
      PROVE  \A d \in Theirs : at[Copy(d)] = "decided" => at'[Copy(d)] = "decided"
  <2> SUFFICES ASSUME NEW d \in Theirs, at[Copy(d)] = "decided"
               PROVE  at'[Copy(d)] = "decided"
    OBVIOUS
  <2>1. CASE Copy(d) \in S
    BY <1>0, <1>2, <2>1, MoveIs
  <2>2. CASE Copy(d) \notin S
    BY <1>0, <1>2, <2>2, MoveIs
  <2> QED
    BY <2>1, <2>2
<1>3. CASE SendCopy
  <2>1. PICK d \in sending : UNCHANGED at \/ at' = Move({Copy(d)}, "outbox")
    BY <1>3 DEF SendCopy
  <2>2. at[Copy(d)] = "none"
    BY DEF FanoutInv, MadeOnce
  <2>3. \A e \in Theirs : at[Copy(e)] = "decided" => at'[Copy(e)] = "decided"
    BY <1>2, <2>1, <2>2 DEF Stages
  <2>4. row'[Writer] = "delivered" => row[Writer] = "delivered"
    BY <1>0, <1>3 DEF SendCopy
  <2> QED
    BY <1>1, <2>3, <2>4
<1>4. CASE Fire
  <2>1. \A e \in Theirs : at[Copy(e)] = "decided" => at'[Copy(e)] = "decided"
    BY <1>2, <1>4 DEF Fire, Stages
  <2> QED
    BY <1>1, <1>4, <2>1 DEF Fire
<1>5. CASE AskToDelete
  <2>1. row'[Writer] # "delivered"
    BY <1>0, <1>5 DEF AskToDelete
  <2> QED
    BY <2>1 DEF DeliveredIsTrue
<1>6. ASSUME NEW p \in Copies, RelayTakes(p) PROVE DeliveredIsTrue'
  <2>1. \A e \in Theirs : at[Copy(e)] = "decided" => at'[Copy(e)] = "decided"
    BY <1>2, <1>6 DEF RelayTakes, Stages
  <2> QED
    BY <1>1, <1>6, <2>1 DEF RelayTakes
<1>7. ASSUME NEW p \in Copies, SentHeard(p) PROVE DeliveredIsTrue'
  <2>1. row'[Writer] = "delivered" => row[Writer] = "delivered"
    BY <1>0, <1>7 DEF SentHeard, Raised
  <2> QED
    BY <1>1, <1>7, <2>1 DEF SentHeard
<1>8. ASSUME NEW p \in Copies, DeliveredHeard(p) PROVE DeliveredIsTrue'
  <2>1. p.kind = "text" /\ Decided(p) /\ at' = at
    BY <1>8 DEF DeliveredHeard, Traced
  <2> QED
    BY <2>1 DEF DeliveredIsTrue, Decided
<1>9. ASSUME NEW p \in Parcels, Erase(p) PROVE DeliveredIsTrue'
  <2>1. \A e \in Theirs : at[Copy(e)] = "decided" => at'[Copy(e)] = "decided"
    BY <1>2, <1>9 DEF Erase, Stages
  <2>2. row'[Writer] = "delivered" => row[Writer] = "delivered"
    BY <1>0, <1>9 DEF Erase
  <2> QED
    BY <1>1, <2>1, <2>2
<1>10. ASSUME NEW q \in planning, StoreRow(q) PROVE DeliveredIsTrue'
  <2>1. \A e \in Theirs : at[Copy(e)] = "decided" => at'[Copy(e)] = "decided"
    BY <1>2, <1>10 DEF StoreRow, Stages
  <2>2. row'[Writer] = "delivered" => row[Writer] = "delivered"
    BY <1>0, <1>10 DEF StoreRow
  <2> QED
    BY <1>1, <2>1, <2>2
<1>11. ASSUME NEW t \in errands, RunErrand(t) PROVE DeliveredIsTrue'
  <2> DEFINE parcels == {Parcel(t.kind, t.by, d) : d \in Siblings(t.by)}
  <2>1. PICK stage \in {"outbox", "waiting"} : at' = Move(parcels, stage)
    BY <1>11 DEF RunErrand
  <2>2. \A d \in Theirs : Copy(d) \notin parcels
    BY DEF FanoutInv, Ranges, Task
  <2>3. \A d \in Theirs : at'[Copy(d)] = at[Copy(d)]
    BY <1>0, <2>1, <2>2, MoveIs DEF Stages
  <2> QED
    BY <1>1, <1>11, <2>3 DEF RunErrand
<1>12. CASE UNCHANGED <<at, row>>
  BY <1>1, <1>12
<1> QED
  BY <1>3, <1>4, <1>5, <1>6, <1>7, <1>8, <1>9, <1>10, <1>11, <1>12
     DEF FanoutNext, fanoutVars, WriteText, Plan, ProgramEnds

\* A message marked delivered was read by a device of the person it is for, never only by
\* a device of its author (noteSentRef, markDeliveredEnvelope, flushDeliveredChecks).
THEOREM DeliveredIsTrueHolds == FanoutSpec => []DeliveredIsTrue
<1>1. FanoutInit => DeliveredIsTrue
  BY FanoutAssumption DEF FanoutInit, DeliveredIsTrue, Reader
<1> QED
  BY <1>1, FanoutInitially, FanoutInvKept, DeliveredKept, PTL DEF FanoutSpec

-----------------------------------------------------------------------------
(* What is forgotten, and when (Retention).                                *)

Days ==
  /\ today \in Nat /\ born \in [Mail -> Nat] /\ stored \in [Mail -> Nat]
  /\ seenAt \in [Mail -> Nat] /\ dedup \in [Mail -> Nat] /\ buried \in Nat
  /\ outgoing \subseteq Mail /\ consumed \subseteq Mail /\ acked \subseteq consumed
  /\ \A e \in Mail : /\ born[e] <= today /\ stored[e] <= today /\ seenAt[e] <= today
                     /\ dedup[e] <= today
  /\ buried <= today /\ today # Never
  /\ today <= LastDay /\ told \in {"none", "unknown", "sent", "delivered", "gone"}
  /\ inHistory \in BOOLEAN /\ overdue \in BOOLEAN

\* What is at the relay, or was, came after it was made, and the delete after the text.
InOrder ==
  /\ \A e \in Mail :
       /\ e \in outgoing \/ stored[e] # Never \/ seenAt[e] # Never \/ e \in consumed =>
            born[e] # Never
       /\ stored[e] # Never => born[e] <= stored[e]
       /\ seenAt[e] # Never => born[e] <= seenAt[e]
       /\ dedup[e] # Never => e \in consumed
  /\ born["text"] = Never <=> told = "none"
  /\ born["delete"] # Never => told = "gone"
  /\ told = "gone" => "text" \notin outgoing

\* What the relay no longer has of an envelope that was consumed, it remembers, or the
\* sender is past retrying it; and what was acked it remembers as long as it is asked about.
Remembered ==
  /\ \A e \in consumed : stored[e] = Never => seenAt[e] # Never \/ Past(born[e], Horizon)
  /\ \A e \in acked : seenAt[e] # Never \/ Past(born[e], SeenIdTtl)

\* Once the delete was processed, a text still queued is behind its tombstone, or too old.
Buried ==
  "delete" \in consumed =>
    /\ inHistory => overdue
    /\ stored["text"] # Never =>
         Past(stored["text"], QueueTtl) \/ (buried # Never /\ stored["text"] <= buried)

Forgotten == Days /\ InOrder /\ Remembered /\ Buried

LEMMA ForgottenInitially == RetentionInit => Forgotten
<1> SUFFICES ASSUME RetentionInit PROVE Forgotten
  OBVIOUS
<1> USE RetentionAssumption DEF RetentionInit, Never, Mail
<1>1. Days
  <2>1. /\ born \in [Mail -> Nat] /\ stored = born /\ seenAt = born /\ dedup = born
        /\ \A e \in Mail : born[e] = 0
    OBVIOUS
  <2>2. /\ today = 1 /\ buried = 0 /\ today <= LastDay /\ today \in Nat /\ buried \in Nat
        /\ buried <= today /\ today # Never
    OBVIOUS
  <2>3. /\ outgoing = {} /\ consumed = {} /\ acked = {} /\ told = "none"
        /\ inHistory = FALSE /\ overdue = FALSE
    OBVIOUS
  <2>4. \A e \in Mail : born[e] <= today /\ stored[e] <= today /\ seenAt[e] <= today /\ dedup[e] <= today
    BY <2>1, <2>2
  <2>5. stored \in [Mail -> Nat] /\ seenAt \in [Mail -> Nat] /\ dedup \in [Mail -> Nat]
    BY <2>1
  <2> HIDE DEF RetentionInit, Mail
  <2>6. /\ outgoing \subseteq Mail /\ consumed \subseteq Mail /\ acked \subseteq consumed
        /\ inHistory \in BOOLEAN /\ overdue \in BOOLEAN
    BY <2>3
  <2> QED
    BY <2>1, <2>2, <2>3, <2>4, <2>5, <2>6, Zenon DEF Days
<1>2. InOrder
  BY DEF InOrder
<1> QED
  BY <1>1, <1>2 DEF Forgotten, Remembered, Buried

LEMMA SweptIs ==
  ASSUME NEW dates \in [Mail -> Nat], NEW ttl
  PROVE  /\ Swept(dates, ttl) \in [Mail -> Nat]
         /\ \A e \in Mail : \/ Swept(dates, ttl)[e] = dates[e]
                            \/ Swept(dates, ttl)[e] = Never /\ Past(dates[e], ttl)
BY DEF Swept, Never

LEMMA DaysKept ==
  ASSUME Forgotten, RetentionNext
  PROVE  Days'
<1> USE RetentionAssumption DEF Never, Mail, senderSide, relaySide, recipientSide
<1>0. Days
  BY DEF Forgotten
<1>1. CASE MakeText \/ DeleteText \/ FlushDeliveredChecks
  <2>1. born' \in [Mail -> Nat] /\ \A e \in Mail : born'[e] <= today
    BY <1>0, <1>1 DEF Days, MakeText, DeleteText, FlushDeliveredChecks
  <2>2. outgoing' \subseteq Mail
    BY <1>0, <1>1 DEF Days, MakeText, DeleteText, FlushDeliveredChecks
  <2>3. told' \in {"none", "unknown", "sent", "delivered", "gone"}
    BY <1>0, <1>1 DEF Days, MakeText, DeleteText, FlushDeliveredChecks
  <2>4. UNCHANGED <<today, relaySide, recipientSide>>
    BY <1>1 DEF MakeText, DeleteText, FlushDeliveredChecks
  <2> QED
    BY <1>0, <2>1, <2>2, <2>3, <2>4 DEF Days
<1>2. ASSUME NEW e \in Mail, GiveUp(e) PROVE Days'
  BY <1>0, <1>2 DEF Days, GiveUp
<1>3. ASSUME NEW e \in Mail, Retransmit(e) PROVE Days'
  <2>1. stored' \in [Mail -> Nat] /\ \A f \in Mail : stored'[f] <= today
    BY <1>0, <1>3 DEF Days, Retransmit
  <2>2. outgoing' \subseteq Mail /\ told' \in {"none", "unknown", "sent", "delivered", "gone"}
    BY <1>0, <1>3 DEF Days, Retransmit
  <2>3. UNCHANGED <<today, born, seenAt, acked, recipientSide>>
    BY <1>3 DEF Retransmit
  <2> QED
    BY <1>0, <2>1, <2>2, <2>3 DEF Days
<1>4. ASSUME NEW e \in Mail, Consume(e) PROVE Days'
  <2>1. dedup' \in [Mail -> Nat] /\ \A f \in Mail : dedup'[f] <= today
    BY <1>0, <1>4 DEF Days, Consume
  <2>2. /\ consumed' \subseteq Mail /\ acked \subseteq consumed' /\ buried' \in Nat
        /\ buried' <= today
    BY <1>0, <1>4 DEF Days, Consume
  <2>3. overdue' \in BOOLEAN /\ inHistory' \in BOOLEAN
    BY <1>0, <1>4, Zenon DEF Days, Consume
  <2>4. UNCHANGED <<today, senderSide, relaySide>>
    BY <1>4 DEF Consume
  <2> QED
    BY <1>0, <2>1, <2>2, <2>3, <2>4 DEF Days
<1>5. ASSUME NEW e \in Mail, Ack(e) PROVE Days'
  <2>1. e \in consumed
    BY <1>5 DEF Ack, Forgotten, InOrder
  <2> QED
    BY <1>0, <1>5, <2>1 DEF Days, Ack
<1>6. CASE PurgeAlarm
  BY <1>0, <1>6, SweptIs DEF Days, PurgeAlarm
<1>7. CASE PruneExpired
  BY <1>0, <1>7, SweptIs DEF Days, PruneExpired
<1>8. CASE NextDay
  BY <1>0, <1>8 DEF Days, NextDay
<1> QED
  BY <1>1, <1>2, <1>3, <1>4, <1>5, <1>6, <1>7, <1>8 DEF RetentionNext

LEMMA InOrderKept ==
  ASSUME Forgotten, RetentionNext
  PROVE  InOrder'
<1> USE RetentionAssumption DEF Never, Mail, senderSide, relaySide, recipientSide
<1>0. Days /\ InOrder
  BY DEF Forgotten
<1>1. CASE MakeText
  BY <1>0, <1>1 DEF Days, InOrder, MakeText
<1>2. CASE DeleteText
  BY <1>0, <1>2 DEF Days, InOrder, DeleteText
<1>3. CASE FlushDeliveredChecks
  BY <1>0, <1>3 DEF Days, InOrder, FlushDeliveredChecks, AskedAbout
<1>4. ASSUME NEW e \in Mail, GiveUp(e) PROVE InOrder'
  BY <1>0, <1>4 DEF Days, InOrder, GiveUp
<1>5. ASSUME NEW e \in Mail, Retransmit(e) PROVE InOrder'
  BY <1>0, <1>5 DEF Days, InOrder, Retransmit
<1>6. ASSUME NEW e \in Mail, Consume(e) PROVE InOrder'
  BY <1>0, <1>6 DEF Days, InOrder, Consume
<1>7. ASSUME NEW e \in Mail, Ack(e) PROVE InOrder'
  BY <1>0, <1>7 DEF Days, InOrder, Ack
<1>8. CASE PurgeAlarm
  BY <1>0, <1>8, SweptIs DEF Days, InOrder, PurgeAlarm
<1>9. CASE PruneExpired
  BY <1>0, <1>9, SweptIs DEF Days, InOrder, PruneExpired
<1>10. CASE NextDay
  BY <1>0, <1>10 DEF Days, InOrder, NextDay
<1> QED
  BY <1>1, <1>2, <1>3, <1>4, <1>5, <1>6, <1>7, <1>8, <1>9, <1>10 DEF RetentionNext

LEMMA RememberedKept ==
  ASSUME Forgotten, RetentionNext
  PROVE  Remembered'
<1> USE RetentionAssumption DEF Never, Mail, senderSide, relaySide, recipientSide
<1>0. Days /\ InOrder /\ Remembered
  BY DEF Forgotten
<1>1. CASE MakeText
  BY <1>0, <1>1 DEF Days, InOrder, Remembered, MakeText, Past
<1>2. CASE DeleteText
  BY <1>0, <1>2 DEF Days, InOrder, Remembered, DeleteText, Past
<1>3. CASE FlushDeliveredChecks
  BY <1>0, <1>3 DEF Remembered, FlushDeliveredChecks, Past
<1>4. ASSUME NEW e \in Mail, GiveUp(e) PROVE Remembered'
  BY <1>0, <1>4 DEF Remembered, GiveUp, Past
<1>5. ASSUME NEW e \in Mail, Retransmit(e) PROVE Remembered'
  BY <1>0, <1>5 DEF Days, Remembered, Retransmit, Past
<1>6. ASSUME NEW e \in Mail, Consume(e) PROVE Remembered'
  BY <1>0, <1>6 DEF Days, InOrder, Remembered, Consume, Past
<1>7. ASSUME NEW e \in Mail, Ack(e) PROVE Remembered'
  BY <1>0, <1>7 DEF Days, InOrder, Remembered, Ack, Past
<1>8. CASE PurgeAlarm
  <2>1. \A e \in Mail : \/ stored'[e] = stored[e]
                        \/ stored'[e] = Never /\ Past(stored[e], QueueTtl)
    BY <1>0, <1>8, SweptIs DEF Days, PurgeAlarm
  <2>2. \A e \in Mail : \/ seenAt'[e] = seenAt[e]
                        \/ seenAt'[e] = Never /\ Past(seenAt[e], SeenIdTtl)
    BY <1>0, <1>8, SweptIs DEF Days, PurgeAlarm
  <2>3. UNCHANGED <<today, born, consumed, acked>>
    BY <1>8 DEF PurgeAlarm
  <2>4. \A e \in consumed : stored'[e] = Never => seenAt'[e] # Never \/ Past(born[e], Horizon)
    BY <1>0, <2>1, <2>2 DEF Days, InOrder, Remembered, Past
  <2>5. \A e \in acked : seenAt'[e] # Never \/ Past(born[e], SeenIdTtl)
    BY <1>0, <2>2 DEF Days, InOrder, Remembered, Past
  <2> QED
    BY <2>3, <2>4, <2>5 DEF Remembered, Past
<1>9. CASE PruneExpired
  BY <1>0, <1>9 DEF Remembered, PruneExpired, Past
<1>10. CASE NextDay
  BY <1>0, <1>10 DEF Days, Remembered, NextDay, Past
<1> QED
  BY <1>1, <1>2, <1>3, <1>4, <1>5, <1>6, <1>7, <1>8, <1>9, <1>10 DEF RetentionNext

LEMMA BuriedKept ==
  ASSUME Forgotten, RetentionNext
  PROVE  Buried'
<1> USE RetentionAssumption DEF Never, Mail, senderSide, relaySide, recipientSide
<1>0. Days /\ InOrder /\ Buried
  BY DEF Forgotten
<1>1. CASE MakeText \/ DeleteText \/ FlushDeliveredChecks
  BY <1>0, <1>1 DEF Buried, MakeText, DeleteText, FlushDeliveredChecks, Past
<1>2. ASSUME NEW e \in Mail, GiveUp(e) PROVE Buried'
  BY <1>0, <1>2 DEF Buried, GiveUp, Past
<1>3. ASSUME NEW e \in Mail, Retransmit(e) PROVE Buried'
  <2>1. "delete" \in consumed => e # "text"
    BY <1>0, <1>3 DEF InOrder, Days, Retransmit
  <2> QED
    BY <1>0, <1>3, <2>1 DEF Days, Buried, Retransmit, Past
<1>4. ASSUME NEW e \in Mail, Consume(e) PROVE Buried'
  BY <1>0, <1>4 DEF Days, Buried, Consume, Past
<1>5. ASSUME NEW e \in Mail, Ack(e) PROVE Buried'
  BY <1>0, <1>5 DEF Days, Buried, Ack, Past
<1>6. CASE PurgeAlarm
  <2>1. \A e \in Mail : stored'[e] = stored[e] \/ stored'[e] = Never
    BY <1>0, <1>6, SweptIs DEF Days, PurgeAlarm
  <2> QED
    BY <1>0, <1>6, <2>1 DEF Buried, PurgeAlarm, Past
<1>7. CASE PruneExpired
  BY <1>0, <1>7 DEF Days, Buried, PruneExpired, TombstoneExpired, Past
<1>8. CASE NextDay
  BY <1>0, <1>8 DEF Days, Buried, NextDay, Past
<1> QED
  BY <1>1, <1>2, <1>3, <1>4, <1>5, <1>6, <1>7, <1>8 DEF RetentionNext

LEMMA ForgottenKept == Forgotten /\ [RetentionNext]_retentionVars => Forgotten'
<1>1. Forgotten /\ RetentionNext => Forgotten'
  BY DaysKept, InOrderKept, RememberedKept, BuriedKept DEF Forgotten
<1>2. Forgotten /\ UNCHANGED retentionVars => Forgotten'
  BY DEF Forgotten, Days, InOrder, Remembered, Buried, Past, retentionVars, senderSide,
         relaySide, recipientSide
<1> QED
  BY <1>1, <1>2

\* Dates are of the past, and what was acked was consumed.
THEOREM RetentionTypesHold == RetentionInit /\ [][RetentionNext]_retentionVars => []RetentionTypeOK
<1>1. Forgotten => RetentionTypeOK
  <2> SUFFICES ASSUME Forgotten PROVE RetentionTypeOK
    OBVIOUS
  <2>1. Days
    BY DEF Forgotten
  <2>2. today \in 1 .. LastDay /\ buried \in 0 .. LastDay
    BY <2>1, RetentionAssumption DEF Days, Never
  <2>3. \A f \in {born, stored, seenAt, dedup} : f \in [Mail -> 0 .. LastDay]
    BY <2>1, RetentionAssumption DEF Days, Mail
  <2> QED
    BY <2>1, <2>2, <2>3 DEF Days, RetentionTypeOK, Dates
<1> QED
  BY <1>1, ForgottenInitially, ForgottenKept, PTL

\* Who forgets does so late enough: a tombstone outlives its text, the relay's memory of
\* an id the sender's retries, and the answer the question (constants.ts, pruneExpired).
THEOREM ForgettingIsSafeHolds ==
  RetentionInit /\ [][RetentionNext]_retentionVars => ForgettingIsSafe
<1>1. Forgotten => TombstoneOutlives /\ AskedIsRemembered
  BY DEF Forgotten, Buried, Remembered, TombstoneOutlives, AskedIsRemembered, AskedAbout
<1>2. Forgotten /\ [RetentionNext]_retentionVars =>
        [\A e \in consumed : stored[e] = Never => stored'[e] = Never]_retentionVars
  <2> SUFFICES ASSUME Forgotten, RetentionNext, NEW e \in consumed, stored[e] = Never
               PROVE  stored'[e] = Never
    OBVIOUS
  <2>1. e \in Mail /\ Days /\ Remembered
    BY DEF Forgotten, Days
  <2>2. ASSUME NEW f \in Mail, Retransmit(f)
        PROVE  stored'[e] = Never
    BY <2>1, <2>2 DEF Retransmit, PastHorizon, Remembered, Days
  <2>3. ASSUME NEW f \in Mail, Ack(f)
        PROVE  stored'[e] = Never
    BY <2>1, <2>3 DEF Ack, Days
  <2>4. CASE PurgeAlarm
    BY <2>1, <2>4, SweptIs DEF PurgeAlarm, Days
  <2>5. CASE UNCHANGED relaySide
    BY <2>5 DEF relaySide
  <2> QED
    BY <2>2, <2>3, <2>4, <2>5
       DEF RetentionNext, MakeText, DeleteText, FlushDeliveredChecks, GiveUp, Consume,
           PruneExpired, NextDay, relaySide
<1> QED
  BY <1>1, <1>2, ForgottenInitially, ForgottenKept, PTL
     DEF ForgettingIsSafe, MemoryOutlastsRetries

-----------------------------------------------------------------------------
(* One session (Ratchet).                                                  *)

\* Every envelope opens, once, for any skip bound and any time keys are kept: what the
\* runs show of one session with two or three envelopes (ratchet.ts, ratchetSession.ts).
THEOREM EnvelopesOpenOnceHolds == RatchetSpec => []EnvelopesOpenOnce
<1>1. KeysUsedOnce /\ UnopenedOpens /\ OpenedIsForgotten => EnvelopesOpenOnce
  BY DEF EnvelopesOpenOnce
<1> QED
  BY <1>1, OpenedOnce, PTL

-----------------------------------------------------------------------------
(* The books, the queues and the retry receipts (Sessions).                *)

Ledger == [attempts : 0 .. MaxAsks, asked : BOOLEAN, honored : BOOLEAN]

\* A book holds a session once, no more than so many, and its current one.
Books ==
  /\ opens \in Nat /\ book \in [Device -> Seq(SessionId)] /\ current \in [Device -> Nat]
  /\ \A d \in Device :
       /\ IsInjective(book[d]) /\ Len(book[d]) <= MaxBook
       /\ current[d] \in Range(book[d]) \cup {0}

\* What is queued was committed, and is about what was sent.
Posted ==
  /\ mail \in Nat /\ queue \in [Device -> Seq(SessionEnvelope)]
  /\ \A d \in Device : \A i \in DOMAIN queue[d] :
       queue[d][i].body.type \in {"text", "delete"} => queue[d][i].body.of \in Range(sent)

\* An initial that is queued opens a session its recipient does not have, and no other does.
Initials ==
  \A d \in Device : \A i \in DOMAIN queue[d] : queue[d][i].kind = "initial" =>
     /\ queue[d][i].session \notin Range(book[d])
     /\ \A j \in DOMAIN queue[d] :
          queue[d][j].kind = "initial" /\ queue[d][j].session = queue[d][i].session => i = j

Noted ==
  /\ ledger \in [Device -> Ledger] /\ ask \in [Device -> {"none", "wanted", "recorded"}]
  /\ asked \in [Device -> BOOLEAN] /\ refresh \in [Device -> BOOLEAN]
  /\ losses \in [Device -> Nat] /\ cut \subseteq {"closed", "unfetched"}

\* What a device keeps, deleted or is to send again was sent, and what it deleted is not kept.
Texts ==
  /\ sent \in Seq(Text) /\ kept \in [Device -> SUBSET Range(sent)] /\ tomb \in [Device -> SUBSET Range(sent)]
  /\ resend \in [Device -> {<<"honor">>} \cup Seq(Range(sent))]
  /\ \A d \in Device : kept[d] \cap tomb[d] = {}

SessionsInv == Books /\ Posted /\ Initials /\ Noted /\ Texts

LEMMA PeerIs ==
  ASSUME NEW d \in Device
  PROVE  Peer(d) \in Device /\ Peer(d) # d
<1>1. IsFiniteSet(Device) /\ Cardinality(Device) = 2
  BY SessionsAssumption DEF SessionsAssumption
<1>2. IsFiniteSet(Device \ {d}) /\ Cardinality(Device \ {d}) = 1
  BY <1>1, FS_RemoveElement
<1>3. Device \ {d} # {}
  BY <1>2, FS_EmptySet
<1> QED
  BY <1>3 DEF Peer

\* A list of some is a list of more.
LEMMA MoreIn ==
  ASSUME NEW S, NEW T, S \subseteq T, NEW b \in Seq(S)
  PROVE  b \in Seq(T)
<1>1. Len(b) \in Nat /\ b \in [1 .. Len(b) -> S]
  OBVIOUS
<1>2. b \in [1 .. Len(b) -> T]
  BY <1>1
<1> QED
  BY <1>1, <1>2

\* One put before the others.
LEMMA FrontIs ==
  ASSUME NEW S, NEW b \in Seq(S), NEW s \in S, IsInjective(b), s \notin Range(b)
  PROVE  /\ (<<s>> \o b) \in Seq(S) /\ IsInjective(<<s>> \o b)
         /\ Len(<<s>> \o b) = 1 + Len(b) /\ Range(<<s>> \o b) = Range(b) \cup {s}
<1> DEFINE f == <<s>> \o b
<1>1. /\ f \in Seq(S) /\ Len(f) = 1 + Len(b) /\ Len(b) \in Nat
      /\ f[1] = s /\ \A i \in 1 .. Len(b) : f[i + 1] = b[i]
  OBVIOUS
<1> HIDE DEF f
<1>2. DOMAIN f = 1 .. 1 + Len(b) /\ DOMAIN b = 1 .. Len(b)
  BY <1>1
<1>3. \A i \in DOMAIN f : i = 1 \/ (i - 1 \in DOMAIN b /\ f[i] = b[i - 1])
  <2> SUFFICES ASSUME NEW i \in DOMAIN f, i # 1 PROVE i - 1 \in DOMAIN b /\ f[i] = b[i - 1]
    OBVIOUS
  <2>1. i - 1 \in 1 .. Len(b) /\ i - 1 + 1 = i
    BY <1>1, <1>2
  <2> QED
    BY <1>1, <1>2, <2>1
<1>4. \A i \in DOMAIN b : i + 1 \in DOMAIN f /\ f[i + 1] = b[i]
  BY <1>1, <1>2
<1>5. Range(f) = Range(b) \cup {s}
  <2>1. Range(f) \subseteq Range(b) \cup {s}
    BY <1>1, <1>3 DEF Range
  <2>2. Range(b) \subseteq Range(f)
    BY <1>4 DEF Range
  <2>3. s \in Range(f)
    BY <1>1, <1>2 DEF Range
  <2> QED
    BY <2>1, <2>2, <2>3
<1>6. IsInjective(f)
  <2> SUFFICES ASSUME NEW i \in DOMAIN f, NEW j \in DOMAIN f, f[i] = f[j] PROVE i = j
    BY DEF IsInjective
  <2>1. i \in Nat /\ j \in Nat
    BY <1>1, <1>2
  <2>2. CASE i = 1 /\ j # 1
    BY <1>1, <1>3, <2>2 DEF Range
  <2>3. CASE i # 1 /\ j = 1
    BY <1>1, <1>3, <2>3 DEF Range
  <2>4. CASE i # 1 /\ j # 1
    <3>1. i - 1 = j - 1
      BY <1>3, <2>4 DEF IsInjective
    <3> QED
      BY <2>1, <3>1
  <2> QED
    BY <2>2, <2>3, <2>4
<1> QED
  BY <1>1, <1>5, <1>6 DEF f

\* A session that is new to a book.
LEMMA PromoteIs ==
  ASSUME NEW S, NEW b \in Seq(S), NEW s \in S, IsInjective(b), Len(b) <= MaxBook, s \notin Range(b)
  PROVE  /\ PromoteSession(b, s) \in Seq(S) /\ IsInjective(PromoteSession(b, s))
         /\ Len(PromoteSession(b, s)) <= MaxBook
         /\ s \in Range(PromoteSession(b, s)) /\ Range(PromoteSession(b, s)) \subseteq Range(b) \cup {s}
<1>0. MaxBook \in Nat \ {0} /\ Len(b) \in Nat
  BY SessionsAssumption DEF SessionsAssumption
<1>1. CASE Len(b) < MaxBook
  <2>1. PromoteSession(b, s) = <<s>> \o b
    BY <1>1 DEF PromoteSession
  <2> QED
    BY <1>0, <1>1, <2>1, FrontIs
<1>2. CASE ~(Len(b) < MaxBook)
  <2> DEFINE c == SubSeq(b, 1, MaxBook - 1)
  <2>1. PromoteSession(b, s) = <<s>> \o c
    BY <1>2 DEF PromoteSession
  <2>2. Len(b) = MaxBook /\ MaxBook - 1 \in Nat
    BY <1>0, <1>2
  <2>3. c \in Seq(S) /\ Len(c) = MaxBook - 1 /\ \A i \in 1 .. MaxBook - 1 : c[i] = b[i]
    <3>1. \A i \in 1 .. MaxBook - 1 : b[i] \in S
      BY <2>2
    <3>2. c = [i \in 1 .. MaxBook - 1 |-> b[i]]
      BY <2>2
    <3> QED
      BY <2>2, <3>1, <3>2
  <2> HIDE DEF c
  <2>4. DOMAIN c = 1 .. MaxBook - 1 /\ DOMAIN c \subseteq DOMAIN b
    BY <2>2, <2>3
  <2>5. IsInjective(c) /\ Range(c) \subseteq Range(b)
    BY <2>3, <2>4 DEF IsInjective, Range
  <2>6. s \notin Range(c)
    BY <2>5
  <2> QED
    BY <1>0, <2>1, <2>2, <2>3, <2>5, <2>6, FrontIs
<1> QED
  BY <1>1, <1>2

\* What is left of a list that has everything once has everything once.
LEMMA RemainingOnce ==
  ASSUME NEW S, NEW b \in Seq(S), NEW gone, IsInjective(b)
  PROVE  IsInjective(Remaining(b, gone))
<1> DEFINE r == Remaining(b, gone)
<1>1. PICK g \in [DOMAIN r -> DOMAIN b] :
        \A j, k \in DOMAIN r : r[j] = b[g[j]] /\ (g[j] = g[k] => j = k)
  BY RemainingIs
<1> HIDE DEF r
<1>2. IsInjective(r)
  BY <1>1 DEF IsInjective
<1> QED
  BY <1>2 DEF r

\* A session of the book that was used.
LEMMA UpdateIs ==
  ASSUME NEW S, NEW b \in Seq(S), NEW s \in Range(b), IsInjective(b), Len(b) <= MaxBook
  PROVE  /\ UpdateSession(b, s) \in Seq(S) /\ IsInjective(UpdateSession(b, s))
         /\ Len(UpdateSession(b, s)) <= MaxBook /\ Range(UpdateSession(b, s)) = Range(b)
<1> DEFINE r == Remaining(b, {s})
<1>1. /\ r \in Seq(S) /\ Range(r) = Range(b) \ {s} /\ Len(r) < Len(b) /\ IsInjective(r)
  BY RemainingIs, RemainingOnce
<1>2. s \in S /\ s \notin Range(r) /\ Range(r) \cup {s} = Range(b)
  <2>1. s \in S
    BY DEF Range
  <2> QED
    BY <1>1, <2>1
<1>3. Len(r) \in Nat /\ Len(b) \in Nat /\ MaxBook \in Nat
  BY <1>1, SessionsAssumption DEF SessionsAssumption
<1> HIDE DEF r
<1>4. UpdateSession(b, s) = <<s>> \o r
  BY DEF UpdateSession, r
<1>5. /\ (<<s>> \o r) \in Seq(S) /\ IsInjective(<<s>> \o r)
      /\ Len(<<s>> \o r) = 1 + Len(r) /\ Range(<<s>> \o r) = Range(r) \cup {s}
  BY <1>1, <1>2, FrontIs
<1>6. Len(<<s>> \o r) <= MaxBook
  BY <1>1, <1>3, <1>5
<1> QED
  BY <1>2, <1>4, <1>5, <1>6

\* What is sealed and committed.
LEMMA CommitKeeps ==
  ASSUME SessionsInv, NEW d \in Device, NEW body \in Body, Commit(d, body),
         Range(sent) \subseteq Range(sent'), UNCHANGED losses,
         body.type \in {"text", "delete"} => body.of \in Range(sent')
  PROVE  Books' /\ Posted' /\ Initials'
<1> DEFINE fresh == current[d] = 0
           s == IF fresh THEN opens + 1 ELSE current[d]
           e == Peer(d)
           env == [id |-> mail + 1, session |-> s, kind |-> IF fresh THEN "initial" ELSE "normal",
                   prekeys |-> losses[e], body |-> body, fails |-> 0, tried |-> FALSE]
           b == IF fresh THEN PromoteSession(book[d], s) ELSE UpdateSession(book[d], s)
<1>1. /\ opens' = IF fresh THEN opens + 1 ELSE opens
      /\ mail' = mail + 1
      /\ book' = [book EXCEPT ![d] = b]
      /\ current' = [current EXCEPT ![d] = s]
      /\ queue' = [queue EXCEPT ![e] = Append(queue[e], env)]
  BY DEF Commit
<1>2. e \in Device /\ e # d
  BY PeerIs
<1>3. /\ opens \in Nat /\ mail \in Nat /\ current[d] \in Nat
      /\ book[d] \in Seq(1 .. opens) /\ IsInjective(book[d]) /\ Len(book[d]) <= MaxBook
      /\ current[d] \in Range(book[d]) \cup {0}
      /\ \A k \in Device : Range(book[k]) \subseteq 1 .. opens
  <2>1. /\ opens \in Nat /\ mail \in Nat /\ current[d] \in Nat
        /\ \A k \in Device : book[k] \in Seq(1 .. opens)
        /\ IsInjective(book[d]) /\ Len(book[d]) <= MaxBook /\ current[d] \in Range(book[d]) \cup {0}
    BY DEF SessionsInv, Books, Posted, SessionId
  <2>2. \A k \in Device : Range(book[k]) \subseteq 1 .. opens
    BY <2>1 DEF Range
  <2> QED
    BY <2>1, <2>2
<1>4. opens' \in Nat /\ 1 .. opens \subseteq 1 .. opens' /\ s \in 1 .. opens' /\ s \in Nat
      /\ (fresh => s = opens + 1)
  BY <1>1, <1>3
<1>5. /\ b \in Seq(1 .. opens') /\ IsInjective(b) /\ Len(b) <= MaxBook /\ s \in Range(b)
      /\ Range(b) \subseteq Range(book[d]) \cup {opens + 1}
  <2>1. book[d] \in Seq(1 .. opens')
    BY <1>3, <1>4, MoreIn
  <2>2. CASE fresh
    <3>1. s = opens + 1 /\ s \notin Range(book[d])
      <4>1. Range(book[d]) \subseteq 1 .. opens /\ opens + 1 \notin 1 .. opens
        BY <1>3
      <4>2. s = opens + 1
        BY <2>2
      <4> HIDE DEF s
      <4> QED
        BY <4>1, <4>2
    <3>2. b = PromoteSession(book[d], s)
      BY <2>2
    <3> HIDE DEF s, b
    <3> QED
      BY <1>3, <1>4, <2>1, <3>1, <3>2, PromoteIs
  <2>3. CASE ~fresh
    <3>1. s \in Range(book[d]) /\ b = UpdateSession(book[d], s)
      BY <1>3, <2>3
    <3> HIDE DEF s, b
    <3> QED
      BY <1>3, <2>1, <3>1, UpdateIs
  <2> QED
    BY <2>2, <2>3
<1>6. env \in SessionEnvelope' /\ env.body = body /\ env.session = s
      /\ (env.kind = "initial" => fresh)
  <2>1. losses[e] \in Nat /\ Poison - 1 \in Nat
    BY <1>2, SessionsAssumption DEF SessionsAssumption, SessionsInv, Noted
  <2>2. mail + 1 \in 1 .. mail'
    BY <1>1, <1>3
  <2> HIDE DEF s
  <2> QED
    BY <1>4, <2>1, <2>2 DEF SessionEnvelope, SessionId
<1> HIDE DEF s, b, env, e, fresh
<1>7. SessionEnvelope \subseteq SessionEnvelope'
  <2>1. 1 .. mail \subseteq 1 .. mail'
    BY <1>1, <1>3
  <2> QED
    BY <1>4, <2>1 DEF SessionEnvelope, SessionId
<1>8. Books'
  <2>1. book' \in [Device -> Seq(SessionId')]
    <3>1. \A k \in Device : book[k] \in Seq(1 .. opens')
      BY <1>4, MoreIn DEF SessionsInv, Books, SessionId
    <3> QED
      BY <1>1, <1>5, <3>1 DEF SessionId, SessionsInv, Books
  <2>2. current' \in [Device -> Nat]
    BY <1>1, <1>4 DEF SessionsInv, Books
  <2>3. book'[d] = b /\ current'[d] = s
    BY <1>1 DEF SessionsInv, Books
  <2>4. \A k \in Device \ {d} : book'[k] = book[k] /\ current'[k] = current[k]
    BY <1>1 DEF SessionsInv, Books
  <2> QED
    BY <1>4, <1>5, <2>1, <2>2, <2>3, <2>4 DEF SessionsInv, Books
<1>9. /\ queue'[e] = Append(queue[e], env) /\ (\A k \in Device \ {e} : queue'[k] = queue[k])
      /\ \A k \in Device : queue[k] \in Seq(SessionEnvelope) /\ queue[k] \in Seq(SessionEnvelope')
  <2>1. \A k \in Device : queue[k] \in Seq(SessionEnvelope)
    BY DEF SessionsInv, Posted
  <2>2. \A k \in Device : queue[k] \in Seq(SessionEnvelope')
    BY <1>7, <2>1, MoreIn
  <2> QED
    BY <1>1, <1>2, <2>1, <2>2 DEF SessionsInv, Posted
<1>10. /\ Append(queue[e], env) \in Seq(SessionEnvelope')
       /\ DOMAIN Append(queue[e], env) = 1 .. Len(queue[e]) + 1
       /\ DOMAIN queue[e] = 1 .. Len(queue[e]) /\ Len(queue[e]) \in Nat
       /\ Append(queue[e], env)[Len(queue[e]) + 1] = env
       /\ \A i \in 1 .. Len(queue[e]) : Append(queue[e], env)[i] = queue[e][i]
  BY <1>2, <1>6, <1>9
<1>11. Posted'
  <2>1. queue' \in [Device -> Seq(SessionEnvelope')]
    BY <1>1, <1>9, <1>10 DEF SessionsInv, Posted
  <2>2. ASSUME NEW k \in Device, NEW i \in DOMAIN queue'[k], queue'[k][i].body.type \in {"text", "delete"}
        PROVE  queue'[k][i].body.of \in Range(sent')
    <3>1. CASE k # e \/ i \in DOMAIN queue[e]
      <4>1. i \in DOMAIN queue[k] /\ queue'[k][i] = queue[k][i]
        BY <1>9, <1>10, <2>2, <3>1
      <4> QED
        BY <2>2, <4>1 DEF SessionsInv, Posted
    <3>2. CASE k = e /\ i \notin DOMAIN queue[e]
      <4>1. i = Len(queue[e]) + 1
        BY <1>9, <1>10, <2>2, <3>2
      <4>2. queue'[k][i] = env
        BY <1>9, <1>10, <3>2, <4>1
      <4> QED
        BY <1>6, <2>2, <4>2
    <3> QED
      BY <3>1, <3>2
  <2>3. mail' \in Nat
    BY <1>1, <1>3
  <2> QED
    BY <2>1, <2>2, <2>3 DEF Posted
<1>12. Initials'
  <2>1. \A k \in Device : \A i \in DOMAIN queue[k] : queue[k][i].session \in 1 .. opens
    <3> SUFFICES ASSUME NEW k \in Device, NEW i \in DOMAIN queue[k]
                 PROVE  queue[k][i].session \in 1 .. opens
      OBVIOUS
    <3>1. queue[k][i] \in SessionEnvelope
      BY <1>9
    <3> QED
      BY <3>1 DEF SessionEnvelope, SessionId
  <2>2. \A k \in Device : Range(book'[k]) \subseteq Range(book[k]) \cup {opens + 1}
    BY <1>1, <1>5 DEF SessionsInv, Books
  <2>3. book'[e] = book[e]
    BY <1>1, <1>2 DEF SessionsInv, Books
  <2>4. ASSUME NEW k \in Device, NEW i \in DOMAIN queue[k], queue[k][i].kind = "initial"
        PROVE  queue[k][i].session \notin Range(book'[k])
    <3>1. queue[k][i].session # opens + 1
      BY <1>3, <2>1
    <3> QED
      BY <2>2, <2>4, <3>1 DEF SessionsInv, Initials
  <2>5. env.kind = "initial" => env.session = opens + 1 /\ env.session \notin Range(book'[e])
    <3>1. opens + 1 \notin Range(book[e])
      <4>1. Range(book[e]) \subseteq 1 .. opens
        BY <1>2, <1>3
      <4>2. opens \in Nat /\ opens + 1 \notin 1 .. opens
        BY <1>3
      <4> QED
        BY <4>1, <4>2
    <3>2. env.kind = "initial" => env.session = opens + 1
      BY <1>4, <1>6
    <3> QED
      BY <2>3, <3>1, <3>2
  <2>6. ASSUME NEW k \in Device, NEW i \in DOMAIN queue'[k], NEW j \in DOMAIN queue'[k],
               queue'[k][i].kind = "initial"
        PROVE  /\ queue'[k][i].session \notin Range(book'[k])
               /\ queue'[k][j].kind = "initial" /\ queue'[k][j].session = queue'[k][i].session => i = j
    <3>1. CASE k # e
      BY <1>9, <2>4, <2>6, <3>1 DEF SessionsInv, Initials
    <3>2. CASE k = e
      <4>1. \A l \in DOMAIN queue'[k] :
              \/ l \in DOMAIN queue[e] /\ queue'[k][l] = queue[e][l]
              \/ l = Len(queue[e]) + 1 /\ queue'[k][l] = env
        BY <1>9, <1>10, <3>2
      <4>2. \A l \in DOMAIN queue[e] : queue[e][l].session # opens + 1
        BY <1>2, <1>3, <2>1
      <4>3. CASE i \in DOMAIN queue[e] /\ queue'[k][i] = queue[e][i]
        <5>1. queue'[k][i].session \notin Range(book'[k])
          BY <2>4, <2>6, <3>2, <4>3
        <5>2. CASE j \in DOMAIN queue[e] /\ queue'[k][j] = queue[e][j]
          BY <2>6, <3>2, <4>3, <5>1, <5>2 DEF SessionsInv, Initials
        <5>3. CASE queue'[k][j] = env
          BY <2>5, <4>2, <4>3, <5>1, <5>3
        <5> QED
          BY <4>1, <5>2, <5>3
      <4>4. CASE i = Len(queue[e]) + 1 /\ queue'[k][i] = env
        <5>1. queue'[k][i].session \notin Range(book'[k]) /\ queue'[k][i].session = opens + 1
          BY <2>5, <2>6, <3>2, <4>4
        <5> QED
          BY <4>1, <4>2, <4>4, <5>1
      <4> QED
        BY <4>1, <4>3, <4>4
    <3> QED
      BY <3>1, <3>2
  <2> QED
    BY <2>6 DEF Initials
<1> QED
  BY <1>8, <1>11, <1>12

\* The envelope that is due is one that is queued.
LEMMA DueIs ==
  ASSUME SessionsInv, NEW d \in Device, Undrained(d) # {}
  PROVE  /\ Due(d) \in DOMAIN queue[d]
         /\ queue[d][Due(d)] \in SessionEnvelope /\ queue[d][Due(d)] \in Range(queue[d])
<1>1. queue[d] \in Seq(SessionEnvelope)
  BY DEF SessionsInv, Posted
<1>2. Undrained(d) \in SUBSET Nat /\ Undrained(d) \subseteq DOMAIN queue[d]
  BY <1>1 DEF Undrained
<1> HIDE DEF Undrained
<1> DEFINE R == OpToRel(<, Nat)
<1>3. IsWellFoundedOn(R, Nat)
  BY NatLessThanWellFounded
<1>4. \A i \in Nat, j \in Nat : j < i => <<j, i>> \in R
  BY DEF OpToRel
<1> HIDE DEF R
<1>5. PICK i \in Undrained(d) : \A j \in Undrained(d) : ~(<<j, i>> \in R)
  BY <1>2, <1>3, WFMin
<1>6. \A j \in Undrained(d) : i <= j
  <2> SUFFICES ASSUME NEW j \in Undrained(d) PROVE i <= j
    OBVIOUS
  <2>1. i \in Nat /\ j \in Nat
    BY <1>2
  <2>2. ~(j < i)
    BY <1>4, <1>5, <2>1
  <2> QED
    BY <2>1, <2>2
<1>7. Due(d) \in Undrained(d)
  BY <1>5, <1>6 DEF Due
<1> QED
  BY <1>1, <1>2, <1>7 DEF Range

\* A queue that lost some of its envelopes, or whose failures were counted.
LEMMA QueueComes ==
  ASSUME SessionsInv, NEW d \in Device, NEW q \in Seq(SessionEnvelope),
         NEW g \in [DOMAIN q -> DOMAIN queue[d]],
         \A j, k \in DOMAIN q :
            /\ q[j].kind = queue[d][g[j]].kind /\ q[j].session = queue[d][g[j]].session
            /\ q[j].body = queue[d][g[j]].body /\ (g[j] = g[k] => j = k),
         queue' = [queue EXCEPT ![d] = q], UNCHANGED <<opens, mail, sent>>,
         \A k \in Device : k # d => book'[k] = book[k],
         \A i \in DOMAIN q : q[i].kind = "initial" => q[i].session \notin Range(book'[d])
  PROVE  Posted' /\ Initials'
<1>1. queue \in [Device -> Seq(SessionEnvelope)] /\ mail \in Nat
  BY DEF SessionsInv, Posted
<1>2. queue'[d] = q /\ \A k \in Device : k # d => queue'[k] = queue[k]
  BY <1>1
<1>3. SessionEnvelope' = SessionEnvelope /\ mail' = mail /\ sent' = sent
  BY DEF SessionEnvelope, SessionId
<1>4. Posted'
  <2>1. queue' \in [Device -> Seq(SessionEnvelope)]
    BY <1>1
  <2>2. ASSUME NEW k \in Device, NEW i \in DOMAIN queue'[k], queue'[k][i].body.type \in {"text", "delete"}
        PROVE  queue'[k][i].body.of \in Range(sent)
    <3>1. CASE k # d
      BY <1>2, <2>2, <3>1 DEF SessionsInv, Posted
    <3>2. CASE k = d
      <4>1. i \in DOMAIN q /\ q[i].body.type \in {"text", "delete"} /\ queue'[k][i] = q[i]
        BY <1>2, <2>2, <3>2
      <4>2. g[i] \in DOMAIN queue[d] /\ q[i].body = queue[d][g[i]].body
        BY <4>1
      <4>3. queue[d][g[i]].body.of \in Range(sent)
        BY <4>1, <4>2 DEF SessionsInv, Posted
      <4> QED
        BY <4>1, <4>2, <4>3
    <3> QED
      BY <3>1, <3>2
  <2> QED
    BY <1>1, <1>3, <2>1, <2>2 DEF Posted
<1>5. Initials'
  <2>1. ASSUME NEW k \in Device, NEW i \in DOMAIN queue'[k], NEW j \in DOMAIN queue'[k],
               queue'[k][i].kind = "initial"
        PROVE  /\ queue'[k][i].session \notin Range(book'[k])
               /\ queue'[k][j].kind = "initial" /\ queue'[k][j].session = queue'[k][i].session => i = j
    <3>1. CASE k # d
      BY <1>2, <2>1, <3>1 DEF SessionsInv, Initials
    <3>2. CASE k = d
      <4>1. i \in DOMAIN q /\ j \in DOMAIN q /\ queue'[k][i] = q[i] /\ queue'[k][j] = q[j]
        BY <1>2, <2>1, <3>2
      <4>2. /\ g[i] \in DOMAIN queue[d] /\ q[i].kind = queue[d][g[i]].kind
            /\ q[i].session = queue[d][g[i]].session
            /\ g[j] \in DOMAIN queue[d] /\ q[j].kind = queue[d][g[j]].kind
            /\ q[j].session = queue[d][g[j]].session
            /\ (g[i] = g[j] => i = j)
        BY <4>1
      <4>3. q[j].kind = "initial" /\ q[j].session = q[i].session => g[i] = g[j]
        BY <2>1, <4>1, <4>2 DEF SessionsInv, Initials
      <4> QED
        BY <2>1, <3>2, <4>1, <4>2, <4>3
    <3> QED
      BY <3>1, <3>2
  <2> QED
    BY <2>1 DEF Initials
<1> QED
  BY <1>4, <1>5

\* The same places, with other counts.
LEMMA QueueRecounted ==
  ASSUME SessionsInv, NEW d \in Device, NEW q \in Seq(SessionEnvelope), DOMAIN q = DOMAIN queue[d],
         \A j \in DOMAIN q :
            /\ q[j].kind = queue[d][j].kind /\ q[j].session = queue[d][j].session
            /\ q[j].body = queue[d][j].body,
         queue' = [queue EXCEPT ![d] = q], UNCHANGED <<opens, mail, sent>>,
         \A k \in Device : k # d => book'[k] = book[k],
         Range(book'[d]) \subseteq Range(book[d])
  PROVE  Posted' /\ Initials'
<1> DEFINE g == [j \in DOMAIN q |-> j]
<1>1. g \in [DOMAIN q -> DOMAIN queue[d]] /\ \A j \in DOMAIN q : g[j] = j
  OBVIOUS
<1> HIDE DEF g
<1>2. \A i \in DOMAIN q : q[i].kind = "initial" => q[i].session \notin Range(book'[d])
  BY DEF SessionsInv, Initials
<1>3. \A j, k \in DOMAIN q :
         /\ q[j].kind = queue[d][g[j]].kind /\ q[j].session = queue[d][g[j]].session
         /\ q[j].body = queue[d][g[j]].body /\ (g[j] = g[k] => j = k)
  BY <1>1
<1> QED
  BY <1>1, <1>2, <1>3, QueueComes

\* An envelope that left the queue, with the session it opened in the book.
LEMMA QueueDrops ==
  ASSUME SessionsInv, NEW d \in Device, NEW due \in DOMAIN queue[d],
         queue' = [queue EXCEPT ![d] = Drop(d, queue[d][due])], UNCHANGED <<opens, mail, sent>>,
         \A k \in Device : k # d => book'[k] = book[k],
         \/ Range(book'[d]) \subseteq Range(book[d])
         \/ /\ queue[d][due].kind = "initial"
            /\ Range(book'[d]) \subseteq Range(book[d]) \cup {queue[d][due].session}
  PROVE  Posted' /\ Initials'
<1> DEFINE env == queue[d][due]
           q == Drop(d, env)
<1>1. queue[d] \in Seq(SessionEnvelope)
  BY DEF SessionsInv, Posted
<1>2. /\ q \in Seq(SessionEnvelope) /\ Range(q) = Range(queue[d]) \ {env}
      /\ \E g \in [DOMAIN q -> DOMAIN queue[d]] :
           \A j, k \in DOMAIN q : q[j] = queue[d][g[j]] /\ (g[j] = g[k] => j = k)
  <2> HIDE DEF env
  <2>1. q = Remaining(queue[d], {env})
    BY DEF Drop
  <2> HIDE DEF q
  <2> DEFINE Q == queue[d]
             gone == {env}
             r == Remaining(Q, gone)
  <2>2. Q \in Seq(SessionEnvelope)
    BY <1>1
  <2> HIDE DEF Q, gone
  <2>3. r \in Seq(SessionEnvelope) /\ Range(r) = Range(Q) \ gone
    BY <2>2, RemainingIs
  <2>4. \E g \in [DOMAIN r -> DOMAIN Q] :
          \A j, k \in DOMAIN r : r[j] = Q[g[j]] /\ (g[j] = g[k] => j = k)
    BY <2>2, RemainingIs
  <2>5. q = r
    BY <2>1 DEF Q, gone
  <2> HIDE DEF r
  <2>6. q \in Seq(SessionEnvelope) /\ Range(q) = Range(queue[d]) \ {env}
    BY <2>3, <2>5 DEF Q, gone
  <2>7. \E g \in [DOMAIN q -> DOMAIN queue[d]] :
          \A j, k \in DOMAIN q : q[j] = queue[d][g[j]] /\ (g[j] = g[k] => j = k)
    BY <2>4, <2>5 DEF Q
  <2> QED
    BY <2>6, <2>7
<1> HIDE DEF q
<1> DEFINE g == CHOOSE h \in [DOMAIN q -> DOMAIN queue[d]] :
                  \A j, k \in DOMAIN q : q[j] = queue[d][h[j]] /\ (h[j] = h[k] => j = k)
<1>3. /\ g \in [DOMAIN q -> DOMAIN queue[d]]
      /\ \A j, k \in DOMAIN q : q[j] = queue[d][g[j]] /\ (g[j] = g[k] => j = k)
  BY <1>2
<1> HIDE DEF g
<1>4. ASSUME NEW i \in DOMAIN q, q[i].kind = "initial" PROVE q[i].session \notin Range(book'[d])
  <2>1. g[i] \in DOMAIN queue[d] /\ q[i] = queue[d][g[i]]
    BY <1>3
  <2>2. q[i].session \notin Range(book[d])
    BY <1>4, <2>1 DEF SessionsInv, Initials
  <2>3. env.kind = "initial" => q[i].session # env.session
    <3> SUFFICES ASSUME env.kind = "initial", q[i].session = env.session PROVE FALSE
      OBVIOUS
    <3>1. g[i] = due
      BY <1>4, <2>1 DEF SessionsInv, Initials
    <3>2. q[i] = env /\ q[i] \in Range(q)
      BY <2>1, <3>1 DEF Range
    <3> QED
      BY <1>2, <3>2
  <2> QED
    BY <2>2, <2>3
<1>5. \A j, k \in DOMAIN q :
         /\ q[j].kind = queue[d][g[j]].kind /\ q[j].session = queue[d][g[j]].session
         /\ q[j].body = queue[d][g[j]].body /\ (g[j] = g[k] => j = k)
  BY <1>3
<1>6. queue' = [queue EXCEPT ![d] = q]
  BY DEF q
<1>7. q \in Seq(SessionEnvelope)
  BY <1>2
<1>8. \A i \in DOMAIN q : q[i].kind = "initial" => q[i].session \notin Range(book'[d])
  BY <1>4
<1> HIDE DEF env
<1>9. /\ SessionsInv /\ d \in Device /\ UNCHANGED <<opens, mail, sent>>
      /\ \A k \in Device : k # d => book'[k] = book[k]
  OBVIOUS
<1> QED
  BY ONLY <1>3, <1>5, <1>6, <1>7, <1>8, <1>9, QueueComes

LEMMA BooksSame ==
  ASSUME Books, UNCHANGED <<bookVars, opens>>
  PROVE  Books'
BY DEF Books, bookVars, SessionId

LEMMA QueuesSame ==
  ASSUME Posted, Initials, UNCHANGED <<book, queue, opens, mail, sent>>
  PROVE  Posted' /\ Initials'
BY DEF Posted, Initials, SessionEnvelope, SessionId

LEMMA NotedSame ==
  ASSUME Noted, UNCHANGED <<ledger, ask, asked, refresh, losses, cut>>
  PROVE  Noted'
BY DEF Noted

LEMMA TextsSame ==
  ASSUME Texts, UNCHANGED <<sent, kept, tomb, resend>>
  PROVE  Texts'
BY DEF Texts

LEMMA SendTextKeeps ==
  ASSUME SessionsInv, NEW d \in Device, NEW c \in Text, SendText(d, c)
  PROVE  SessionsInv'
<1>1. sent \in Seq(Text) /\ sent' = Append(sent, c)
  BY DEF SessionsInv, Texts, SendText
<1>2. sent' \in Seq(Text) /\ Range(sent') = Range(sent) \cup {c} /\ c \notin Range(sent)
  <2>1. DOMAIN sent = 1 .. Len(sent) /\ Len(sent) \in Nat /\ sent' \in Seq(Text)
    BY <1>1
  <2>2. /\ DOMAIN sent' = 1 .. Len(sent) + 1 /\ sent'[Len(sent) + 1] = c
        /\ \A i \in 1 .. Len(sent) : sent'[i] = sent[i]
    BY <1>1
  <2>3. Range(sent') \subseteq Range(sent) \cup {c}
    BY <2>1, <2>2 DEF Range
  <2>4. c \in Range(sent')
    BY <2>1, <2>2 DEF Range
  <2>5. Range(sent) \subseteq Range(sent')
    BY <2>1, <2>2 DEF Range
  <2> QED
    BY <2>1, <2>3, <2>4, <2>5 DEF SendText
<1>3. Books' /\ Posted' /\ Initials'
  <2> DEFINE body == [type |-> "text", of |-> c]
  <2>1. /\ Commit(d, body) /\ UNCHANGED losses /\ body \in Body
        /\ body.type \in {"text", "delete"} => body.of \in Range(sent')
    BY <1>2 DEF SendText, countVars, Body
  <2> HIDE DEF body
  <2> QED
    BY <1>2, <2>1, CommitKeeps
<1>4. Noted'
  BY NotedSame DEF SessionsInv, SendText, retryVars, countVars
<1>5. Texts'
  <2>1. resend \in [Device -> {<<"honor">>} \cup Seq(Range(sent'))]
    <3>1. \A k \in Device : resend[k] \in {<<"honor">>} \cup Seq(Range(sent'))
      BY <1>2, MoreIn DEF SessionsInv, Texts
    <3> QED
      BY <3>1 DEF SessionsInv, Texts
  <2>2. /\ kept' = [kept EXCEPT ![d] = kept[d] \cup {c}] /\ UNCHANGED <<tomb, resend>>
    BY DEF SendText, retryVars
  <2> QED
    BY <1>2, <2>1, <2>2 DEF SessionsInv, Texts
<1> QED
  BY <1>3, <1>4, <1>5 DEF SessionsInv

LEMMA DeleteForEveryoneKeeps ==
  ASSUME SessionsInv, NEW d \in Device, NEW c \in Text, DeleteForEveryone(d, c)
  PROVE  SessionsInv'
<1>1. UNCHANGED sent /\ c \in Range(sent)
  BY DEF SessionsInv, Texts, DeleteForEveryone
<1>2. Books' /\ Posted' /\ Initials'
  <2> DEFINE body == [type |-> "delete", of |-> c]
  <2>1. /\ Commit(d, body) /\ UNCHANGED losses /\ body \in Body
        /\ body.type \in {"text", "delete"} => body.of \in Range(sent')
    BY <1>1 DEF DeleteForEveryone, Body
  <2> HIDE DEF body
  <2> QED
    BY <1>1, <2>1, CommitKeeps
<1>3. Noted'
  BY NotedSame DEF SessionsInv, DeleteForEveryone, retryVars
<1>4. Texts'
  <2>1. /\ kept' = [kept EXCEPT ![d] = kept[d] \ {c}] /\ tomb' = [tomb EXCEPT ![d] = tomb[d] \cup {c}]
        /\ UNCHANGED resend
    BY DEF DeleteForEveryone, retryVars
  <2> QED
    BY <1>1, <2>1 DEF SessionsInv, Texts
<1> QED
  BY <1>2, <1>3, <1>4 DEF SessionsInv

LEMMA DeleteForMeKeeps ==
  ASSUME SessionsInv, NEW d \in Device, NEW c \in Text, DeleteForMe(d, c)
  PROVE  SessionsInv'
<1>1. UNCHANGED sent /\ c \in Range(sent)
  BY DEF SessionsInv, Texts, DeleteForMe
<1>2. Books' /\ Posted' /\ Initials'
  BY BooksSame, QueuesSame DEF SessionsInv, DeleteForMe, bookVars
<1>3. Noted'
  BY NotedSame DEF SessionsInv, DeleteForMe, retryVars
<1>4. Texts'
  <2>1. /\ kept' = [kept EXCEPT ![d] = kept[d] \ {c}] /\ tomb' = [tomb EXCEPT ![d] = tomb[d] \cup {c}]
        /\ UNCHANGED resend
    BY DEF DeleteForMe, retryVars
  <2> QED
    BY <1>1, <2>1 DEF SessionsInv, Texts
<1> QED
  BY <1>2, <1>3, <1>4 DEF SessionsInv

LEMMA SendSessionRefreshKeeps ==
  ASSUME SessionsInv, NEW d \in Device, SendSessionRefresh(d)
  PROVE  SessionsInv'
<1>1. /\ UNCHANGED <<sent, kept, tomb, resend, ledger, ask, asked, losses, cut>>
      /\ refresh' = [refresh EXCEPT ![d] = FALSE]
  BY DEF SendSessionRefresh, histVars, retryVars, countVars
<1>2. Books' /\ Posted' /\ Initials'
  <2>1. CASE current[d] = 0
    <3> DEFINE body == [type |-> "refresh"]
    <3>1. Commit(d, body) /\ body \in Body /\ body.type \notin {"text", "delete"}
      BY <2>1 DEF SendSessionRefresh, Body
    <3> HIDE DEF body
    <3> QED
      BY <1>1, <3>1, CommitKeeps
  <2>2. CASE current[d] # 0
    BY <1>1, <2>2, BooksSame, QueuesSame DEF SessionsInv, SendSessionRefresh, bookVars
  <2> QED
    BY <2>1, <2>2
<1>3. Noted'
  BY <1>1 DEF SessionsInv, Noted
<1>4. Texts'
  BY <1>1, TextsSame DEF SessionsInv
<1> QED
  BY <1>2, <1>3, <1>4 DEF SessionsInv

\* Whatever opened the envelope that was due.
LEMMA OpenedKeeps ==
  ASSUME SessionsInv, NEW d \in Device, NEW due \in DOMAIN queue[d],
         NEW b \in Seq(SessionId), IsInjective(b), Len(b) <= MaxBook,
         \/ Range(b) \subseteq Range(book[d])
         \/ /\ queue[d][due].kind = "initial"
            /\ Range(b) \subseteq Range(book[d]) \cup {queue[d][due].session},
         Opened(d, queue[d][due], b),
         current' \in [Device -> Nat], \A k \in Device : k # d => current'[k] = current[k],
         current'[d] \in Range(b) \cup {0},
         resend' \in {resend, [resend EXCEPT ![d] = <<"honor">>]},
         UNCHANGED <<ask, refresh, opens, mail, sent, countVars>>
  PROVE  SessionsInv'
<1> DEFINE env == queue[d][due]
<1>1. /\ env \in SessionEnvelope
      /\ env.body.type \in {"text", "delete"} => env.body.of \in Range(sent)
  BY DEF SessionsInv, Posted
<1>2. /\ book' = [book EXCEPT ![d] = b]
      /\ queue' = [queue EXCEPT ![d] = Drop(d, env)]
      /\ kept' = [kept EXCEPT ![d] = FiledHistory(d, env.body)]
      /\ tomb' = [tomb EXCEPT ![d] = Entombed(d, env.body)]
      /\ asked' = [asked EXCEPT ![d] = FALSE]
      /\ \/ ledger' = [ledger EXCEPT ![d] = ledger[d]]
         \/ ledger' = [ledger EXCEPT ![d] = [ledger[d] EXCEPT !.attempts = 0, !.asked = FALSE]]
  BY DEF Opened
<1>3. book'[d] = b /\ \A k \in Device : k # d => book'[k] = book[k]
  BY <1>2 DEF SessionsInv, Books
<1>4. Books'
  <2>1. book' \in [Device -> Seq(SessionId)] /\ opens' = opens
    BY <1>2 DEF SessionsInv, Books
  <2> QED
    BY <1>3, <2>1 DEF SessionsInv, Books, SessionId
<1>5. Posted' /\ Initials'
  <2>1. UNCHANGED <<opens, mail, sent>>
    OBVIOUS
  <2> QED
    BY <1>2, <1>3, <2>1, QueueDrops
<1>6. Noted'
  <2>1. MaxAsks \in Nat /\ 0 \in 0 .. MaxAsks
    BY SessionsAssumption DEF SessionsAssumption
  <2>2. ledger[d] \in Ledger
    BY DEF SessionsInv, Noted
  <2>3. [ledger[d] EXCEPT !.attempts = 0, !.asked = FALSE] \in Ledger
    BY <2>1, <2>2 DEF Ledger
  <2>4. ledger' \in [Device -> Ledger]
    BY <1>2, <2>2, <2>3 DEF SessionsInv, Noted
  <2> QED
    BY <1>2, <2>4 DEF SessionsInv, Noted, countVars
<1>7. Texts'
  <2>1. /\ kept[d] \subseteq Range(sent) /\ tomb[d] \subseteq Range(sent) /\ kept[d] \cap tomb[d] = {}
    BY DEF SessionsInv, Texts
  <2>2. /\ FiledHistory(d, env.body) \subseteq Range(sent) /\ Entombed(d, env.body) \subseteq Range(sent)
        /\ FiledHistory(d, env.body) \cap Entombed(d, env.body) = {}
    <3>1. CASE env.body.type = "text"
      BY <1>1, <2>1, <3>1 DEF FiledHistory, Entombed
    <3>2. CASE env.body.type = "delete"
      BY <1>1, <2>1, <3>2 DEF FiledHistory, Entombed
    <3>3. CASE env.body.type \notin {"text", "delete"}
      BY <2>1, <3>3 DEF FiledHistory, Entombed
    <3> QED
      BY <3>1, <3>2, <3>3
  <2>3. resend' \in [Device -> {<<"honor">>} \cup Seq(Range(sent))]
    BY DEF SessionsInv, Texts
  <2> HIDE DEF env
  <2>4. /\ kept' \in [Device -> SUBSET Range(sent)] /\ tomb' \in [Device -> SUBSET Range(sent)]
        /\ \A k \in Device : kept'[k] \cap tomb'[k] = {}
    BY <1>2, <2>2 DEF SessionsInv, Texts
  <2>5. sent' = sent
    OBVIOUS
  <2> QED
    BY <2>3, <2>4, <2>5 DEF SessionsInv, Texts
<1> QED
  BY <1>4, <1>5, <1>6, <1>7 DEF SessionsInv

LEMMA ReceiveInitialKeeps ==
  ASSUME SessionsInv, NEW d \in Device, ReceiveInitial(d)
  PROVE  SessionsInv'
<1> DEFINE due == Due(d)
           env == queue[d][due]
           b == PromoteSession(book[d], env.session)
<1>1. due \in DOMAIN queue[d] /\ env \in SessionEnvelope
  BY DueIs DEF ReceiveInitial
<1>2. /\ env.kind = "initial" /\ Opened(d, env, b)
      /\ current' = [current EXCEPT ![d] = env.session]
      /\ resend' \in {resend, [resend EXCEPT ![d] = <<"honor">>]}
      /\ UNCHANGED <<ask, refresh, opens, mail, sent, countVars>>
  <2>1. /\ env.kind = "initial" /\ Opened(d, env, b)
        /\ current' = [current EXCEPT ![d] = env.session]
        /\ UNCHANGED <<ask, refresh, opens, mail, sent, countVars>>
    BY DEF ReceiveInitial
  <2>2. \/ resend' = [resend EXCEPT ![d] = <<"honor">>] \/ resend' = [resend EXCEPT ![d] = resend[d]]
    BY DEF ReceiveInitial
  <2>3. [resend EXCEPT ![d] = resend[d]] = resend
    BY DEF SessionsInv, Texts
  <2> HIDE DEF env, b
  <2> QED
    BY <2>1, <2>2, <2>3
<1>3. env.session \in SessionId /\ env.session \in Nat /\ env.session \notin Range(book[d])
  <2>1. env.session \in 1 .. opens
    BY <1>1 DEF SessionEnvelope, SessionId
  <2>2. opens \in Nat
    BY DEF SessionsInv, Books
  <2> QED
    BY <1>1, <1>2, <2>1, <2>2 DEF SessionId, SessionsInv, Initials
<1>4. /\ b \in Seq(SessionId) /\ IsInjective(b) /\ Len(b) <= MaxBook
      /\ env.session \in Range(b) /\ Range(b) \subseteq Range(book[d]) \cup {env.session}
  <2>1. book[d] \in Seq(SessionId) /\ IsInjective(book[d]) /\ Len(book[d]) <= MaxBook
    BY DEF SessionsInv, Books
  <2> HIDE DEF env
  <2> QED
    BY <1>3, <2>1, PromoteIs
<1>5. /\ current' \in [Device -> Nat] /\ current'[d] \in Range(b) \cup {0}
      /\ \A k \in Device : k # d => current'[k] = current[k]
  <2> HIDE DEF env, b
  <2> QED
    BY <1>2, <1>3, <1>4 DEF SessionsInv, Books
<1>6. /\ queue[d][due].kind = "initial" /\ Opened(d, queue[d][due], b)
      /\ Range(b) \subseteq Range(book[d]) \cup {queue[d][due].session}
  BY <1>2, <1>4
<1> HIDE DEF due, env, b
<1> QED
  BY <1>1, <1>2, <1>4, <1>5, <1>6, OpenedKeeps

LEMMA ReceiveNormalKeeps ==
  ASSUME SessionsInv, NEW d \in Device, ReceiveNormal(d)
  PROVE  SessionsInv'
<1> DEFINE due == Due(d)
           env == queue[d][due]
           b == UpdateSession(book[d], env.session)
<1>1. due \in DOMAIN queue[d] /\ env \in SessionEnvelope
  BY DueIs DEF ReceiveNormal
<1>2. /\ env.session \in Range(book[d]) /\ Opened(d, env, b)
      /\ resend' \in {resend, [resend EXCEPT ![d] = <<"honor">>]}
      /\ UNCHANGED <<current, ask, refresh, opens, mail, sent, countVars>>
  <2>1. /\ env.kind = "normal" /\ Decrypts(d, env) /\ Opened(d, env, b)
        /\ UNCHANGED <<current, ask, refresh, opens, mail, sent, countVars>>
    BY DEF ReceiveNormal
  <2>2. \/ resend' = [resend EXCEPT ![d] = <<"honor">>] \/ resend' = [resend EXCEPT ![d] = resend[d]]
    BY DEF ReceiveNormal
  <2>3. [resend EXCEPT ![d] = resend[d]] = resend
    BY DEF SessionsInv, Texts
  <2> HIDE DEF env, b
  <2> QED
    BY <2>1, <2>2, <2>3 DEF Decrypts
<1>3. /\ b \in Seq(SessionId) /\ IsInjective(b) /\ Len(b) <= MaxBook /\ Range(b) = Range(book[d])
  <2>1. book[d] \in Seq(SessionId) /\ IsInjective(book[d]) /\ Len(book[d]) <= MaxBook
    BY DEF SessionsInv, Books
  <2> HIDE DEF env
  <2> QED
    BY <1>2, <2>1, UpdateIs
<1>4. /\ current' \in [Device -> Nat] /\ current'[d] \in Range(b) \cup {0}
      /\ \A k \in Device : k # d => current'[k] = current[k]
  <2> HIDE DEF env, b
  <2> QED
    BY <1>2, <1>3 DEF SessionsInv, Books
<1>5. Opened(d, queue[d][due], b) /\ Range(b) \subseteq Range(book[d])
  BY <1>2, <1>3
<1> HIDE DEF due, env, b
<1> QED
  BY <1>1, <1>2, <1>3, <1>4, <1>5, OpenedKeeps

\* Nothing opened it.
LEMMA FailToOpenKeeps ==
  ASSUME SessionsInv, NEW d \in Device, FailToOpen(d)
  PROVE  SessionsInv'
<1> DEFINE due == Due(d)
           env == queue[d][due]
           n == env.fails + 1
           counted == [env EXCEPT !.fails = n, !.tried = TRUE]
           recounted == [queue[d] EXCEPT ![due] = counted]
<1>1. due \in DOMAIN queue[d] /\ env \in SessionEnvelope
  BY DueIs DEF FailToOpen
<1>2. /\ \/ n >= Poison /\ queue' = [queue EXCEPT ![d] = Drop(d, env)]
         \/ ~(n >= Poison) /\ queue' = [queue EXCEPT ![d] = recounted]
      /\ ask' = [ask EXCEPT ![d] = "wanted"] \/ ask' = [ask EXCEPT ![d] = ask[d]]
      /\ UNCHANGED <<book, current, kept, tomb, ledger, asked, resend, refresh, opens, mail, sent, losses, cut>>
  BY DEF FailToOpen, bookVars, histVars, countVars
<1>3. Posted' /\ Initials'
  <2>1. CASE n >= Poison
    <3>1. queue' = [queue EXCEPT ![d] = Drop(d, queue[d][due])]
      BY <1>2, <2>1
    <3>2. /\ UNCHANGED <<opens, mail, sent>> /\ Range(book'[d]) \subseteq Range(book[d])
          /\ \A k \in Device : k # d => book'[k] = book[k]
      BY <1>2
    <3> HIDE DEF due, env, n
    <3> QED
      BY ONLY <1>1, <3>1, <3>2, SessionsInv, d \in Device, QueueDrops
  <2>2. CASE ~(n >= Poison)
    <3>1. queue[d] \in Seq(SessionEnvelope)
      BY DEF SessionsInv, Posted
    <3>2. Poison \in Nat
      BY SessionsAssumption DEF SessionsAssumption
    <3>3. env.fails \in Nat
      BY <1>1, <3>2 DEF SessionEnvelope
    <3>4. n \in 0 .. Poison - 1
      BY <2>2, <3>2, <3>3
    <3> HIDE DEF env, n
    <3>5. /\ counted \in SessionEnvelope /\ counted.kind = env.kind
          /\ counted.session = env.session /\ counted.body = env.body
      BY <1>1, <3>4 DEF SessionEnvelope
    <3> HIDE DEF counted
    <3>6. recounted \in Seq(SessionEnvelope) /\ DOMAIN recounted = DOMAIN queue[d]
      BY <1>1, <3>1, <3>5
    <3>7. \A j \in DOMAIN recounted :
            /\ recounted[j].kind = queue[d][j].kind /\ recounted[j].session = queue[d][j].session
            /\ recounted[j].body = queue[d][j].body
      BY <3>1, <3>5 DEF env
    <3>8. /\ queue' = [queue EXCEPT ![d] = recounted] /\ UNCHANGED <<opens, mail, sent>>
          /\ \A k \in Device : k # d => book'[k] = book[k]
          /\ Range(book'[d]) \subseteq Range(book[d])
      BY <1>2, <2>2
    <3>9. SessionsInv /\ d \in Device
      OBVIOUS
    <3> HIDE DEF recounted
    <3> QED
      BY ONLY <3>6, <3>7, <3>8, <3>9, QueueRecounted
  <2> QED
    BY <2>1, <2>2
<1> HIDE DEF due, env, n, recounted
<1>4. Books' /\ Texts'
  BY <1>2, BooksSame, TextsSame DEF SessionsInv, bookVars
<1>5. Noted'
  BY <1>2 DEF SessionsInv, Noted
<1> QED
  BY <1>3, <1>4, <1>5 DEF SessionsInv

\* What another socket and a restored device make of the queue.
LEMMA RedrainedIs ==
  ASSUME SessionsInv, NEW d \in Device, NEW q \in {Redrained(d), Untouched(d)},
         queue' = [queue EXCEPT ![d] = q], UNCHANGED <<opens, mail, sent>>,
         \A k \in Device : k # d => book'[k] = book[k],
         Range(book'[d]) \subseteq Range(book[d])
  PROVE  Posted' /\ Initials'
<1>1. queue[d] \in Seq(SessionEnvelope) /\ Poison \in Nat \ {0}
  BY SessionsAssumption DEF SessionsAssumption, SessionsInv, Posted
<1>2. \A i \in DOMAIN queue[d] :
        /\ [queue[d][i] EXCEPT !.tried = FALSE] \in SessionEnvelope
        /\ [queue[d][i] EXCEPT !.fails = 0, !.tried = FALSE] \in SessionEnvelope
  <2> SUFFICES ASSUME NEW i \in DOMAIN queue[d]
               PROVE  /\ [queue[d][i] EXCEPT !.tried = FALSE] \in SessionEnvelope
                      /\ [queue[d][i] EXCEPT !.fails = 0, !.tried = FALSE] \in SessionEnvelope
    OBVIOUS
  <2>1. queue[d][i] \in SessionEnvelope /\ 0 \in 0 .. Poison - 1
    BY <1>1
  <2> QED
    BY <2>1 DEF SessionEnvelope
<1>3. /\ q \in Seq(SessionEnvelope) /\ DOMAIN q = DOMAIN queue[d]
      /\ \A j \in DOMAIN q :
           /\ q[j].kind = queue[d][j].kind /\ q[j].session = queue[d][j].session
           /\ q[j].body = queue[d][j].body
  <2>1. \A i \in DOMAIN queue[d] : queue[d][i] \in SessionEnvelope
    BY <1>1
  <2>2. CASE q = Redrained(d)
    <3>1. q = [i \in DOMAIN queue[d] |-> [queue[d][i] EXCEPT !.tried = FALSE]]
      BY <2>2 DEF Redrained
    <3>2. DOMAIN queue[d] = 1 .. Len(queue[d]) /\ Len(queue[d]) \in Nat
      BY <1>1
    <3>3. q \in [1 .. Len(queue[d]) -> SessionEnvelope]
      BY <1>2, <3>1, <3>2
    <3>4. q \in Seq(SessionEnvelope)
      BY <3>2, <3>3
    <3> QED
      BY <2>1, <3>1, <3>4 DEF SessionEnvelope
  <2>3. CASE q = Untouched(d)
    <3>1. q = [i \in DOMAIN queue[d] |-> [queue[d][i] EXCEPT !.fails = 0, !.tried = FALSE]]
      BY <2>3 DEF Untouched
    <3>2. DOMAIN queue[d] = 1 .. Len(queue[d]) /\ Len(queue[d]) \in Nat
      BY <1>1
    <3>3. q \in [1 .. Len(queue[d]) -> SessionEnvelope]
      BY <1>2, <3>1, <3>2
    <3>4. q \in Seq(SessionEnvelope)
      BY <3>2, <3>3
    <3> QED
      BY ZenonT(60), <2>1, <3>1, <3>4 DEF SessionEnvelope
  <2> QED
    BY <2>2, <2>3
<1> QED
  BY <1>3, QueueRecounted

LEMMA ReconnectKeeps ==
  ASSUME SessionsInv, NEW d \in Device, Reconnect(d)
  PROVE  SessionsInv'
<1>1. /\ queue' = [queue EXCEPT ![d] = Redrained(d)]
      /\ UNCHANGED <<book, current, kept, tomb, ledger, ask, asked, resend, refresh,
                     opens, mail, sent, losses, cut>>
  BY DEF Reconnect, bookVars, histVars, retryVars, countVars
<1>2. Posted' /\ Initials'
  <2>1. Redrained(d) \in {Redrained(d), Untouched(d)}
    OBVIOUS
  <2> QED
    BY <1>1, <2>1, RedrainedIs
<1>3. Books' /\ Noted' /\ Texts'
  BY <1>1, BooksSame, NotedSame, TextsSame DEF SessionsInv, bookVars
<1> QED
  BY <1>2, <1>3 DEF SessionsInv

LEMMA RecordAskKeeps ==
  ASSUME SessionsInv, NEW d \in Device, RecordAsk(d)
  PROVE  SessionsInv'
<1>1. UNCHANGED <<book, current, queue, kept, tomb, resend, refresh, opens, mail, sent, losses, cut>>
  BY DEF RecordAsk, bookVars, histVars, countVars
<1>2. MaxAsks \in Nat /\ ledger[d] \in Ledger /\ ledger[d].attempts \in Nat
  <2>1. MaxAsks \in Nat /\ ledger[d] \in Ledger
    BY SessionsAssumption DEF SessionsAssumption, SessionsInv, Noted
  <2> QED
    BY <2>1 DEF Ledger
<1>3. Noted'
  <2>1. CASE asked[d] \/ ledger[d].attempts >= MaxAsks \/ ledger[d].asked
    <3>1. UNCHANGED <<ledger, asked>> /\ ask' = [ask EXCEPT ![d] = "none"]
      BY <2>1 DEF RecordAsk
    <3> QED
      BY <1>1, <3>1 DEF SessionsInv, Noted
  <2>2. CASE ~(asked[d] \/ ledger[d].attempts >= MaxAsks \/ ledger[d].asked)
    <3> DEFINE noted == [ledger[d] EXCEPT !.attempts = ledger[d].attempts + 1, !.asked = TRUE]
    <3>1. /\ ledger' = [ledger EXCEPT ![d] = noted]
          /\ asked' = [asked EXCEPT ![d] = TRUE] /\ ask' = [ask EXCEPT ![d] = "recorded"]
      BY <2>2 DEF RecordAsk, SessionsInv, Noted, Ledger
    <3>2. ledger[d].attempts + 1 \in 0 .. MaxAsks
      BY <1>2, <2>2
    <3>3. noted \in Ledger
      BY <1>2, <3>2 DEF Ledger
    <3> HIDE DEF noted
    <3> QED
      BY <1>1, <3>1, <3>3 DEF SessionsInv, Noted
  <2> QED
    BY <2>1, <2>2
<1>4. Books' /\ Posted' /\ Initials' /\ Texts'
  BY <1>1, BooksSame, QueuesSame, TextsSame DEF SessionsInv, bookVars
<1> QED
  BY <1>3, <1>4 DEF SessionsInv

LEMMA SendRetryRequestKeeps ==
  ASSUME SessionsInv, NEW d \in Device, SendRetryRequest(d)
  PROVE  SessionsInv'
<1>1. /\ ask' = [ask EXCEPT ![d] = "none"]
      /\ UNCHANGED <<sent, kept, tomb, resend, ledger, asked, refresh, losses, cut>>
  BY DEF SendRetryRequest, histVars, countVars
<1>2. Books' /\ Posted' /\ Initials'
  <2> DEFINE body == [type |-> "retry"]
  <2>1. Commit(d, body) /\ body \in Body /\ body.type \notin {"text", "delete"}
    BY DEF SendRetryRequest, Body
  <2> HIDE DEF body
  <2> QED
    BY <1>1, <2>1, CommitKeeps
<1>3. Noted' /\ Texts'
  BY <1>1, TextsSame DEF SessionsInv, Noted
<1> QED
  BY <1>2, <1>3 DEF SessionsInv

LEMMA AskFailsKeeps ==
  ASSUME SessionsInv, NEW d \in Device, AskFails(d)
  PROVE  SessionsInv'
<1> DEFINE attempts == IF ledger[d].attempts = 0 THEN 0 ELSE ledger[d].attempts - 1
           noted == [ledger[d] EXCEPT !.attempts = attempts]
<1>1. /\ ask' = [ask EXCEPT ![d] = "none"] /\ ledger' = [ledger EXCEPT ![d] = noted]
      /\ cut' = cut \cup {"unfetched"}
      /\ UNCHANGED <<book, current, queue, kept, tomb, asked, resend, refresh, opens, mail, sent, losses>>
  BY DEF AskFails, bookVars, histVars
<1>2. noted \in Ledger
  <2>1. MaxAsks \in Nat /\ ledger[d] \in Ledger
    BY SessionsAssumption DEF SessionsAssumption, SessionsInv, Noted
  <2>2. ledger[d].attempts \in 0 .. MaxAsks
    BY <2>1 DEF Ledger
  <2>3. attempts \in 0 .. MaxAsks
    BY <2>1, <2>2
  <2> HIDE DEF attempts
  <2> QED
    BY <2>1, <2>3 DEF Ledger
<1> HIDE DEF noted
<1>3. Noted'
  BY <1>1, <1>2 DEF SessionsInv, Noted
<1>4. Books' /\ Posted' /\ Initials' /\ Texts'
  BY <1>1, BooksSame, QueuesSame, TextsSame DEF SessionsInv, bookVars
<1> QED
  BY <1>3, <1>4 DEF SessionsInv

\* What is collected was sent.
LEMMA CollectedIs ==
  ASSUME SessionsInv, NEW d \in Device
  PROVE  Collected(d) \in Seq(Range(sent))
<1> DEFINE rows == Resendable(d)
           S == Range(sent)
<1>1. sent \in Seq(S)
  <2>1. sent \in Seq(Text)
    BY DEF SessionsInv, Texts
  <2>2. Len(sent) \in Nat /\ sent \in [1 .. Len(sent) -> S]
    BY <2>1 DEF Range
  <2> QED
    BY <2>2
<1> HIDE DEF S
<1>2. rows \in Seq(S)
  <2> DEFINE gone == {c \in Text : Author[c] # d \/ c \notin kept[d] \/ c \in tomb[d]}
  <2>1. rows = Remaining(sent, gone)
    BY DEF Resendable
  <2> HIDE DEF gone, rows
  <2> QED
    BY <1>1, <2>1, RemainingIs
<1>3. MaxResend \in Nat \ {0}
  BY SessionsAssumption DEF SessionsAssumption
<1>4. Collected(d) = IF Len(rows) <= MaxResend THEN rows
                     ELSE SubSeq(rows, Len(rows) - MaxResend + 1, Len(rows))
  BY DEF Collected
<1> HIDE DEF rows
<1>5. CASE ~(Len(rows) <= MaxResend)
  <2>1. /\ Len(rows) - MaxResend + 1 \in 1 .. Len(rows) + 1 /\ Len(rows) \in Nat
    BY <1>2, <1>3, <1>5
  <2>2. SubSeq(rows, Len(rows) - MaxResend + 1, Len(rows)) \in Seq(S)
    BY <1>2, <2>1
  <2> QED
    BY <1>4, <1>5, <2>2 DEF S
<1> QED
  BY <1>2, <1>4, <1>5 DEF S

LEMMA HonorKeeps ==
  ASSUME SessionsInv, NEW d \in Device, Honor(d)
  PROVE  SessionsInv'
<1> DEFINE noted == [ledger[d] EXCEPT !.honored = TRUE]
<1>1. /\ \/ ledger' = ledger /\ resend' = [resend EXCEPT ![d] = <<>>]
         \/ ledger' = [ledger EXCEPT ![d] = noted] /\ resend' = [resend EXCEPT ![d] = Collected(d)]
      /\ UNCHANGED <<book, current, queue, kept, tomb, ask, asked, refresh, opens, mail, sent, losses, cut>>
  BY DEF Honor, Idle, bookVars, histVars, countVars
<1>2. noted \in Ledger
  BY DEF SessionsInv, Noted, Ledger
<1> HIDE DEF noted
<1>3. Noted'
  BY <1>1, <1>2 DEF SessionsInv, Noted
<1>4. Texts'
  <2>1. Collected(d) \in Seq(Range(sent)) /\ <<>> \in Seq(Range(sent))
    BY CollectedIs
  <2> QED
    BY <1>1, <2>1 DEF SessionsInv, Texts
<1>5. Books' /\ Posted' /\ Initials'
  BY <1>1, BooksSame, QueuesSame DEF SessionsInv, bookVars
<1> QED
  BY <1>3, <1>4, <1>5 DEF SessionsInv

LEMMA QueueResendKeeps ==
  ASSUME SessionsInv, NEW d \in Device, QueueResend(d)
  PROVE  SessionsInv'
<1>1. resend[d] \in Seq(Range(sent)) /\ resend[d] # <<>>
  BY DEF SessionsInv, Texts, QueueResend, Idle
<1>2. Head(resend[d]) \in Range(sent) /\ Tail(resend[d]) \in Seq(Range(sent))
  BY <1>1
<1>3. /\ resend' = [resend EXCEPT ![d] = Tail(resend[d])]
      /\ UNCHANGED <<sent, kept, tomb, ledger, ask, asked, refresh, losses, cut>>
  BY DEF QueueResend, histVars, countVars
<1>4. Books' /\ Posted' /\ Initials'
  <2> DEFINE body == [type |-> "text", of |-> Head(resend[d])]
  <2>1. Range(sent) \subseteq Text
    BY DEF SessionsInv, Texts, Range
  <2>2. /\ Commit(d, body) /\ body \in Body
        /\ body.type \in {"text", "delete"} => body.of \in Range(sent')
    BY <1>2, <1>3, <2>1 DEF QueueResend, Body
  <2> HIDE DEF body
  <2> QED
    BY <1>3, <2>2, CommitKeeps
<1>5. Noted' /\ Texts'
  BY <1>2, <1>3, NotedSame DEF SessionsInv, Texts
<1> QED
  BY <1>4, <1>5 DEF SessionsInv

LEMMA ResendFailsKeeps ==
  ASSUME SessionsInv, NEW d \in Device, ResendFails(d)
  PROVE  SessionsInv'
<1>1. /\ resend' = [resend EXCEPT ![d] = <<>>] /\ cut' = cut \cup {"unfetched"}
      /\ UNCHANGED <<book, current, queue, kept, tomb, ledger, ask, asked, refresh, opens, mail, sent, losses>>
  BY DEF ResendFails, Idle, bookVars, histVars
<1>2. Noted' /\ Texts'
  <2>1. <<>> \in Seq(Range(sent))
    OBVIOUS
  <2> QED
    BY <1>1, <2>1 DEF SessionsInv, Noted, Texts
<1>3. Books' /\ Posted' /\ Initials'
  BY <1>1, BooksSame, QueuesSame DEF SessionsInv, bookVars
<1> QED
  BY <1>2, <1>3 DEF SessionsInv

LEMMA IntervalPassesKeeps ==
  ASSUME SessionsInv, NEW d \in Device, IntervalPasses(d)
  PROVE  SessionsInv'
<1>1. /\ \/ ledger' = [ledger EXCEPT ![d] = [ledger[d] EXCEPT !.asked = FALSE]]
         \/ ledger' = [ledger EXCEPT ![d] = [ledger[d] EXCEPT !.honored = FALSE]]
      /\ UNCHANGED <<book, current, queue, kept, tomb, ask, asked, resend, refresh,
                     opens, mail, sent, losses, cut>>
  BY DEF IntervalPasses, bookVars, histVars, countVars
<1>2. /\ [ledger[d] EXCEPT !.asked = FALSE] \in Ledger
      /\ [ledger[d] EXCEPT !.honored = FALSE] \in Ledger
  BY DEF SessionsInv, Noted, Ledger
<1>3. Noted'
  BY <1>1, <1>2 DEF SessionsInv, Noted
<1>4. Books' /\ Posted' /\ Initials' /\ Texts'
  BY <1>1, BooksSame, QueuesSame, TextsSame DEF SessionsInv, bookVars
<1> QED
  BY <1>3, <1>4 DEF SessionsInv

LEMMA RestartKeeps ==
  ASSUME SessionsInv, NEW d \in Device, Restart(d)
  PROVE  SessionsInv'
<1>1. /\ queue' = [queue EXCEPT ![d] = Redrained(d)]
      /\ ask' = [ask EXCEPT ![d] = "none"] /\ asked' = [asked EXCEPT ![d] = FALSE]
      /\ resend' = [resend EXCEPT ![d] = <<>>] /\ cut' \in {cut, cut \cup {"closed"}}
      /\ UNCHANGED <<book, current, kept, tomb, ledger, refresh, opens, mail, sent, losses>>
  BY DEF Restart, RamLost, Idle, bookVars, histVars
<1>2. Posted' /\ Initials'
  <2>1. Redrained(d) \in {Redrained(d), Untouched(d)}
    OBVIOUS
  <2> QED
    BY <1>1, <2>1, RedrainedIs
<1>3. Noted' /\ Texts'
  <2>1. <<>> \in Seq(Range(sent))
    OBVIOUS
  <2> QED
    BY <1>1, <2>1 DEF SessionsInv, Noted, Texts
<1>4. Books'
  BY <1>1, BooksSame DEF SessionsInv, bookVars
<1> QED
  BY <1>2, <1>3, <1>4 DEF SessionsInv

LEMMA RestoreKeeps ==
  ASSUME SessionsInv, NEW d \in Device, Restore(d)
  PROVE  SessionsInv'
<1>1. /\ losses' = [losses EXCEPT ![d] = losses[d] + 1]
      /\ book' = [book EXCEPT ![d] = <<>>] /\ current' = [current EXCEPT ![d] = 0]
      /\ queue' = [queue EXCEPT ![d] = Untouched(d)]
      /\ kept' = [kept EXCEPT ![d] = {}] /\ tomb' = [tomb EXCEPT ![d] = {}]
      /\ ledger' = [ledger EXCEPT ![d] = NoLedger]
      /\ ask' = [ask EXCEPT ![d] = "none"] /\ asked' = [asked EXCEPT ![d] = FALSE]
      /\ resend' = [resend EXCEPT ![d] = <<>>] /\ cut' \in {cut, cut \cup {"closed"}}
      /\ \E r \in BOOLEAN : refresh' = [refresh EXCEPT ![d] = r]
      /\ UNCHANGED <<opens, mail, sent>>
  BY DEF Restore, RamLost, Idle
<1>2. /\ <<>> \in Seq(SessionId) /\ IsInjective(<<>>) /\ Range(<<>>) = {} /\ Len(<<>>) = 0
      /\ <<>> \in Seq(Range(sent))
  BY DEF IsInjective, Range
<1>3. MaxBook \in Nat /\ 0 <= MaxBook /\ NoLedger \in Ledger
  BY SessionsAssumption DEF SessionsAssumption, Ledger, NoLedger
<1>4. book'[d] = <<>> /\ \A k \in Device : k # d => book'[k] = book[k] /\ current'[k] = current[k]
  BY <1>1 DEF SessionsInv, Books
<1>5. Books'
  <2>1. book' \in [Device -> Seq(SessionId)] /\ current' \in [Device -> Nat] /\ current'[d] = 0
    BY <1>1, <1>2 DEF SessionsInv, Books
  <2>2. \A k \in Device : /\ IsInjective(book'[k]) /\ Len(book'[k]) <= MaxBook
                          /\ current'[k] \in Range(book'[k]) \cup {0}
    BY <1>2, <1>3, <1>4, <2>1 DEF SessionsInv, Books
  <2> QED
    BY <1>1, <2>1, <2>2 DEF SessionsInv, Books, SessionId
<1>6. Posted' /\ Initials'
  <2>1. Untouched(d) \in {Redrained(d), Untouched(d)}
    OBVIOUS
  <2>2. Range(book'[d]) \subseteq Range(book[d])
    BY <1>2, <1>4
  <2> QED
    BY <1>1, <1>4, <2>1, <2>2, RedrainedIs
<1>7. Noted'
  BY <1>1, <1>3 DEF SessionsInv, Noted
<1>8. Texts'
  BY <1>1, <1>2 DEF SessionsInv, Texts
<1> QED
  BY <1>5, <1>6, <1>7, <1>8 DEF SessionsInv

LEMMA SessionsInitially == SessionsInit => SessionsInv
<1> SUFFICES ASSUME SessionsInit PROVE SessionsInv
  OBVIOUS
<1>1. MaxBook \in Nat /\ 0 <= MaxBook /\ NoLedger \in Ledger
  BY SessionsAssumption DEF SessionsAssumption, Ledger, NoLedger
<1>2. /\ <<>> \in Seq(SessionId) /\ IsInjective(<<>>) /\ Range(<<>>) = {} /\ Len(<<>>) = 0
      /\ <<>> \in Seq(SessionEnvelope) /\ <<>> \in Seq(Range(sent)) /\ <<>> \in Seq(Text)
  BY DEF IsInjective, Range
<1>3. Books
  BY <1>1, <1>2 DEF SessionsInit, Books
<1>4. Posted /\ Initials
  BY <1>2 DEF SessionsInit, Posted, Initials
<1>5. Noted
  BY <1>1 DEF SessionsInit, Noted
<1>6. Texts
  BY <1>2 DEF SessionsInit, Texts, Idle
<1> QED
  BY <1>3, <1>4, <1>5, <1>6 DEF SessionsInv

LEMMA SessionsInvKept == SessionsInv /\ [SessionsNext]_sessionVars => SessionsInv'
<1> SUFFICES ASSUME SessionsInv, [SessionsNext]_sessionVars PROVE SessionsInv'
  OBVIOUS
<1>1. CASE UNCHANGED sessionVars
  BY <1>1, BooksSame, QueuesSame, NotedSame, TextsSame DEF SessionsInv, sessionVars, bookVars
<1>2. ASSUME NEW d \in Device, NEW c \in Text,
             SendText(d, c) \/ DeleteForEveryone(d, c) \/ DeleteForMe(d, c)
      PROVE  SessionsInv'
  BY <1>2, SendTextKeeps, DeleteForEveryoneKeeps, DeleteForMeKeeps
<1>3. ASSUME NEW d \in Device, SendSessionRefresh(d) \/ Receiving(d) \/ Reconnect(d)
      PROVE  SessionsInv'
  BY <1>3, SendSessionRefreshKeeps, ReceiveInitialKeeps, ReceiveNormalKeeps, FailToOpenKeeps,
     ReconnectKeeps DEF Receiving
<1>4. ASSUME NEW d \in Device, Retrying(d) \/ AskFails(d) \/ ResendFails(d) \/ IntervalPasses(d)
      PROVE  SessionsInv'
  BY <1>4, RecordAskKeeps, SendRetryRequestKeeps, HonorKeeps, QueueResendKeeps, AskFailsKeeps,
     ResendFailsKeeps, IntervalPassesKeeps DEF Retrying
<1>5. ASSUME NEW d \in Device, Restart(d) \/ Restore(d)
      PROVE  SessionsInv'
  BY <1>5, RestartKeeps, RestoreKeeps
<1> QED
  BY <1>1, <1>2, <1>3, <1>4, <1>5 DEF SessionsNext

LEMMA SessionsTypesAre == SessionsInv => SessionsTypeOK
<1> SUFFICES ASSUME SessionsInv, NEW d \in Device
             PROVE  /\ Range(book[d]) \subseteq SessionId /\ IsInjective(book[d])
                    /\ Len(book[d]) <= MaxBook
                    /\ current[d] \in Range(book[d]) \union {0}
                    /\ Range(queue[d]) \subseteq SessionEnvelope
                    /\ kept[d] \subseteq Text /\ tomb[d] \subseteq Text
                    /\ ledger[d] \in Ledger
                    /\ ask[d] \in {"none", "wanted", "recorded"} /\ asked[d] \in BOOLEAN
                    /\ resend[d] = <<"honor">> \/ Range(resend[d]) \subseteq Text
                    /\ refresh[d] \in BOOLEAN /\ cut \subseteq {"closed", "unfetched"}
  BY DEF SessionsTypeOK, Ledger
<1>1. book[d] \in Seq(SessionId) /\ queue[d] \in Seq(SessionEnvelope) /\ sent \in Seq(Text)
  BY DEF SessionsInv, Books, Posted, Texts
<1>2. Range(book[d]) \subseteq SessionId /\ Range(queue[d]) \subseteq SessionEnvelope
  BY <1>1 DEF Range
<1>3. Range(sent) \subseteq Text
  BY <1>1 DEF Range
<1>4. resend[d] = <<"honor">> \/ Range(resend[d]) \subseteq Text
  <2>1. CASE resend[d] \in Seq(Range(sent))
    <3>1. Range(resend[d]) \subseteq Range(sent)
      BY <2>1 DEF Range
    <3> QED
      BY <1>3, <3>1
  <2> QED
    BY <2>1 DEF SessionsInv, Texts
<1>5. /\ IsInjective(book[d]) /\ Len(book[d]) <= MaxBook /\ current[d] \in Range(book[d]) \cup {0}
  BY DEF SessionsInv, Books
<1>6. kept[d] \subseteq Text /\ tomb[d] \subseteq Text
  BY <1>3 DEF SessionsInv, Texts
<1>7. /\ ledger[d] \in Ledger /\ ask[d] \in {"none", "wanted", "recorded"} /\ asked[d] \in BOOLEAN
      /\ refresh[d] \in BOOLEAN /\ cut \subseteq {"closed", "unfetched"}
  BY DEF SessionsInv, Noted
<1> QED
  BY <1>2, <1>4, <1>5, <1>6, <1>7

LEMMA SessionsInvHolds == SessionsSpec => []SessionsInv
<1> QED
  BY SessionsInitially, SessionsInvKept, PTL DEF SessionsSpec

\* A book holds a session once and no more of them than MAX_SESSIONS_PER_PEER, its current
\* one is among them, and what is queued and resent is of what was sent (sessionBook.ts,
\* client.ts honorRetryRequest).
THEOREM SessionsTypesHold == SessionsSpec => []SessionsTypeOK
<1> QED
  BY SessionsInvHolds, SessionsTypesAre, PTL

\* What a device deleted does not come back to its history, by a resend or otherwise
\* (inbound.ts planHistory, client.ts collectResendable).
THEOREM DeletedIsNotResentHolds == SessionsSpec => []DeletedIsNotResent
<1>1. SessionsInv => DeletedIsNotResent
  BY DEF SessionsInv, Texts, DeletedIsNotResent, NotResent
<1> QED
  BY <1>1, SessionsInvHolds, PTL

-----------------------------------------------------------------------------
(* All of them together.                                                   *)

\* A behaviour of the four layers, of which a run lets one move, is one of each.
THEOREM ConversationLayersMoveAlone ==
  ConversationSpec =>
    SessionsSpec /\ RatchetSpec /\ FanoutSpec /\ RetentionInit /\ [][RetentionNext]_retentionVars
<1>1. ConversationInit => SessionsInit /\ RatchetInit /\ FanoutInit /\ RetentionInit
  BY DEF ConversationInit
<1>2. [SessionsStep \/ RatchetStep \/ CopiesStep \/ RetentionStep]_
         <<sessionVars, ratchetVars, fanoutVars, retentionVars, layer>>
        => /\ [SessionsNext]_sessionVars /\ [RatchetNext]_ratchetVars /\ [FanoutNext]_fanoutVars
           /\ [RetentionNext]_retentionVars
  BY DEF SessionsStep, RatchetStep, CopiesStep, RetentionStep
<1> QED
  BY <1>1, <1>2, PTL DEF ConversationSpec, SessionsSpec, RatchetSpec, FanoutSpec

\* Each layer of a conversation is a state its code can be in, and keeps its bounds.
THEOREM ConversationTypesHold ==
  SessionsSpec /\ RatchetSpec /\ FanoutSpec /\ RetentionInit /\ [][RetentionNext]_retentionVars
    => []ConversationTypeOK
<1>1. SessionsTypeOK /\ RatchetTypeOK /\ FanoutTypeOK /\ RetentionTypeOK => ConversationTypeOK
  BY DEF ConversationTypeOK
<1> QED
  BY <1>1, SessionsTypesHold, RatchetTypesHold, FanoutTypesHold, RetentionTypesHold, PTL

\* What is safe in a conversation stays so in the behaviours the runs check, whatever
\* the constants: all but what must happen in the end.
THEOREM ConversationIsSafe ==
  ConversationSpec =>
    /\ []ConversationTypeOK /\ []EnvelopesOpenOnce /\ []DeliveredIsTrue /\ []DeletedIsNotResent
    /\ ForgettingIsSafe
<1> QED
  BY ConversationLayersMoveAlone, ConversationTypesHold, EnvelopesOpenOnceHolds,
     DeliveredIsTrueHolds, DeletedIsNotResentHolds, ForgettingIsSafeHolds, PTL
=============================================================================
