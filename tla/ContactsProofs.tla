--------------------------- MODULE ContactsProofs ---------------------------
(***************************************************************************)
(* People, windows and bubbles, for any number of words, texts, windows    *)
(* and tabs, and any number of steps: a rename or a delete that is over    *)
(* has done all it was asked for, nothing that was settled comes back, and *)
(* windows that were told everything show what is saved.                   *)
(***************************************************************************)
EXTENDS MCContacts, SequenceTheorems, FiniteSetTheorems, TLAPS

-----------------------------------------------------------------------------
(* One person's records: what a rename or a delete was asked for is done.  *)

Plans == [kind : {"put", "suppress", "delete"}, of : Words, conv : Conv, at : 1 .. MaxNow]

ContactsTyped ==
  /\ ContactsTypeOK
  /\ now \in 1 .. MaxNow /\ published \in [Accounts -> 0 .. 2]
  /\ rot \in {"none", "marked", "moved", "written", "renamed", "repointed"}
  /\ del \in [step : {"none", "marked", "dismissed", "removed", "swept"}, conv : Conv, at : 0 .. MaxNow]
  /\ plan \in [Machines -> Plans \union {NoPlan}]
  /\ seeking \in [Conv -> 0 .. MaxNow]
  /\ doomed \union moving \subseteq Row

\* The text of a message that somebody is about to save, or has found deleted.
Planned(d) == plan[d].kind \in {"put", "suppress"}
TextOf(w) == [of |-> w, kind |-> "text"]

\* A text comes once, so it is planned once or saved in one place.
InOnePlace ==
  /\ \A r \in rows : TextOf(r.of) \in heard /\ r.at <= now
  /\ \A r1, r2 \in rows : r1.of = r2.of => r1 = r2
  /\ \A d \in Machines : Planned(d) =>
       /\ TextOf(plan[d].of) \in heard
       /\ \A r \in rows : r.of # plan[d].of
       /\ \A e \in Machines : Planned(e) /\ plan[e].of = plan[d].of => e = d
  /\ \A d \in Machines : plan[d] # NoPlan => plan[d].at <= now

\* Messages move one way: from a device's own id to the account, from the old one to the new.
Stage == [second |-> 0, old |-> 1, new |-> 2]

MovesOn ==
  \A r \in doomed \union moving :
    /\ TextOf(r.of) \in heard /\ \A d \in Machines : Planned(d) => plan[d].of # r.of
    /\ \A x \in rows : x.of = r.of => x.at = r.at /\ Stage[x.conv] >= Stage[r.conv]

Sweeping ==
  /\ del.step = "none" => del = Idle
  /\ del.step # "none" => del.at # 0 /\ deleting[del.conv] = del.at
  /\ \A r \in doomed : r \in rows => deleting[r.conv] >= r.at
  /\ del.step = "swept" => \A r \in doomed : r.conv = del.conv => r \notin rows

Moving == \A r \in moving : r.conv = "old" /\ (r \in rows => renaming /\ rot \in {"none", "marked"})

ContactsInv == ContactsTyped /\ InOnePlace /\ MovesOn /\ Sweeping /\ Moving

\* What a sender is filed under is an account or a device.
LEMMA AccountIsConv == ASSUME NEW d \in Machines PROVE AccountForDevice(d) \in Conv
<1>1. CASE \E a \in Accounts : Naming(d) = {a} /\ d # a /\ claims[d] = a
  <2>1. (CHOOSE a \in Accounts : Naming(d) = {a}) \in Accounts
    BY <1>1
  <2> QED
    BY <1>1, <2>1 DEF AccountForDevice, Accounts, Conv
<1>2. CASE ~ \E a \in Accounts : Naming(d) = {a} /\ d # a /\ claims[d] = a
  BY <1>2 DEF AccountForDevice, Machines, Conv
<1> QED
  BY <1>1, <1>2

\* What a rename leaves: a row where it was, or the same one at the new place.
LEMMA RenamedRows ==
  ASSUME NEW from, NEW to, from # to, rows \subseteq Row, to \in Conv,
         \A r1, r2 \in rows : r1.of = r2.of /\ r1.conv = r2.conv => r1 = r2
  PROVE  /\ Renamed(from, to) \subseteq Row
         /\ \A r1, r2 \in Renamed(from, to) : r1.of = r2.of /\ r1.conv = r2.conv => r1 = r2
         /\ \A r \in Renamed(from, to) : \E x \in rows :
              /\ x.of = r.of /\ x.at = r.at /\ r.conv # from
              /\ r = x \/ (x.conv = from /\ r.conv = to)
<1> DEFINE Goes == {x \in rows : x.conv = from /\ ~ \E y \in rows : y.of = x.of /\ y.conv = to}
           Moved == {[r EXCEPT !.conv = to] : r \in Goes}
<1>1. Renamed(from, to) = {r \in rows : r.conv # from} \union Moved
  BY Zenon DEF Renamed
<1>2. \A r \in Row : [r EXCEPT !.conv = to] \in Row /\ [r EXCEPT !.conv = to].of = r.of
                     /\ [r EXCEPT !.conv = to].at = r.at /\ [r EXCEPT !.conv = to].conv = to
  BY DEF Row
<1>3. \A r \in Moved : \E x \in Goes : r = [x EXCEPT !.conv = to]
  OBVIOUS
<1> HIDE DEF Moved
<1>4. \A r \in Moved : /\ r \in Row /\ r.conv = to /\ ~ \E y \in rows : y.of = r.of /\ y.conv = to
                       /\ \E x \in rows : x.of = r.of /\ x.at = r.at /\ x.conv = from
                             /\ r = [x EXCEPT !.conv = to]
  <2> TAKE r \in Moved
  <2>1. PICK x \in Goes : r = [x EXCEPT !.conv = to]
    BY <1>3
  <2> QED
    BY <2>1, <1>2
<1>5. \A r1, r2 \in Moved : r1.of = r2.of => r1 = r2
  BY <1>4
<1> QED
  BY <1>1, <1>4, <1>5

USE DEF ContactsTypeOK, Accounts, Machines, Conv, Row

\* A person noted on first contact is one of the device's, with the tombstone it had.
LEMMA RecordedTypes ==
  ASSUME ContactsTyped, NEW c \in Conv, RecordFirstContact(c)
  PROVE  contacts' \subseteq Conv /\ gone' \in [Conv -> [at : 0 .. MaxNow, auto : BOOLEAN]]
<1> DEFINE b == c \in contacts /\ gone[c].auto
<1>1. contacts' = contacts \union {c} /\ gone' = [gone EXCEPT ![c] = [gone[c] EXCEPT !.auto = b]]
  BY DEF RecordFirstContact
<1>2. gone[c] \in [at : 0 .. MaxNow, auto : BOOLEAN] /\ b \in BOOLEAN
  BY DEF ContactsTyped
<1>3. [gone[c] EXCEPT !.auto = b] \in [at : 0 .. MaxNow, auto : BOOLEAN]
  BY <1>2
<1> HIDE DEF b
<1> QED
  BY <1>1, <1>3 DEF ContactsTyped

\* Every step keeps the stored rows, tombstones and lists in the states the code can leave.
LEMMA ContactsTypedKept ==
  ASSUME ContactsTyped, ContactsNext PROVE ContactsTyped'
<1> USE ContactsAssumption DEF ContactsAssumption, ContactsTyped, storeVars, rowVars, ramVars, personVars, pastVars
<1>1. CASE \E c \in Accounts : AddContact(c) \/ LearnFromRelay(c)
  <2>1. PICK c \in Accounts : AddContact(c) \/ LearnFromRelay(c)
    BY <1>1
  <2>2. contacts' \subseteq Conv /\ gone' \in [Conv -> [at : 0 .. MaxNow, auto : BOOLEAN]]
    BY <2>1, RecordedTypes DEF AddContact, LearnFromRelay
  <2> QED
    BY <2>1, <2>2 DEF AddContact, LearnFromRelay, RecordFirstContact
<1>2. CASE \E c \in Accounts : AskForList(c)
  BY <1>2, AccountIsConv DEF AskForList
<1>3. CASE \E c \in Accounts : Publish(c)
  BY <1>3, AccountIsConv DEF Publish
<1>4. CASE \E q \in asking : PutKnownRoster(q)
  BY <1>4, AccountIsConv DEF PutKnownRoster
<1>5. CASE \E c \in Conv : RecoverContact(c)
  <2>1. PICK c \in Conv : RecoverContact(c)
    BY <1>5
  <2>2. contacts' \subseteq Conv /\ gone' \in [Conv -> [at : 0 .. MaxNow, auto : BOOLEAN]]
    BY <2>1, RecordedTypes DEF RecoverContact
  <2> QED
    BY <2>1, <2>2 DEF RecoverContact
<1>6. CASE \E c \in Conv : SetPendingDelete(c)
  BY <1>6, AccountIsConv DEF SetPendingDelete, Of
<1>7. CASE \E d \in Machines, w \in Words : PlanText(d, w)
  BY <1>7, AccountIsConv DEF PlanText, Plans
<1>8. CASE \E d \in Machines, w \in Words : PlanDelete(d, w)
  BY <1>8, AccountIsConv DEF PlanDelete, Plans
<1>9. CASE \E d \in Machines : CommitInbound(d)
  BY <1>9, AccountIsConv DEF CommitInbound, Plans
<1>10. CASE \E d \in Machines : HandleHello(d)
  <2>1. PICK d \in Machines : HandleHello(d)
    BY <1>10
  <2> DEFINE a == IF rotated THEN "new" ELSE "old"
  <2>2. d # a /\ a \in Accounts /\ rows' = Renamed(d, a) /\ claims' = [claims EXCEPT ![d] = a]
    BY <2>1 DEF HandleHello
  <2>3. /\ rows' \subseteq Row
        /\ \A r1, r2 \in rows' : r1.of = r2.of /\ r1.conv = r2.conv => r1 = r2
    BY <2>2, RenamedRows
  <2> HIDE DEF a
  <2> QED
    BY <2>1, <2>2, <2>3 DEF HandleHello
<1>11. CASE SetPendingRename
  BY <1>11, AccountIsConv DEF SetPendingRename
<1>12. CASE RenameHistory
  <2>1. /\ rows' \subseteq Row
        /\ \A r1, r2 \in rows' : r1.of = r2.of /\ r1.conv = r2.conv => r1 = r2
    BY <1>12, RenamedRows DEF RenameHistory
  <2> QED
    BY <1>12, <2>1 DEF RenameHistory
<1>13. CASE RenameAccount
  BY <1>13, AccountIsConv DEF RenameAccount
<1>14. CASE MoveKeyed
  <2> DEFINE G == [at : 0 .. MaxNow, auto : BOOLEAN]
             none == [at |-> 0, auto |-> FALSE]
             new == IF gone["new"].at = 0 THEN gone["old"] ELSE gone["new"]
  <2>1. none \in G /\ new \in G
    BY SMT
  <2>2. gone' = gone \/ gone' = [gone EXCEPT !["old"] = none, !["new"] = new]
    BY <1>14 DEF MoveKeyed
  <2> HIDE DEF none, new
  <2>3. gone' \in [Conv -> G]
    BY <2>1, <2>2
  <2>4. named' \subseteq Conv /\ lists' \in [Accounts -> 0 .. 2] /\ rot' = "renamed"
    BY <1>14 DEF MoveKeyed
  <2>5. UNCHANGED <<contacts, claims, renaming, deleting, rowVars, del, plan, seeking, asking,
                    now, personVars, pastVars>> /\ rot = "written"
    BY <1>14 DEF MoveKeyed
  <2> QED
    BY <2>3, <2>4, <2>5
<1>15. CASE RepointDeviceClaims
  BY <1>15, AccountIsConv DEF RepointDeviceClaims
<1>16. CASE ClearPendingRename
  BY <1>16, AccountIsConv DEF ClearPendingRename
<1>17. CASE MarkDismissed
  BY <1>17, AccountIsConv DEF MarkDismissed
<1>18. CASE RemoveContact
  BY <1>18, AccountIsConv DEF RemoveContact
<1>19. CASE SweepHistory
  BY <1>19, AccountIsConv DEF SweepHistory
<1>20. CASE ClearPendingDelete
  BY <1>20, AccountIsConv DEF ClearPendingDelete, Idle
<1>21. CASE Cut
  BY <1>21, AccountIsConv DEF Cut, Idle
<1>22. CASE ResumePendingRenames
  BY <1>22, AccountIsConv DEF ResumePendingRenames
<1>23. CASE ResumePendingDeletes
  BY <1>23, AccountIsConv DEF ResumePendingDeletes
<1>24. CASE Rotate
  BY <1>24 DEF Rotate
<1>25. CASE ClockTicks
  BY <1>25 DEF ClockTicks, Plans
<1> QED
  BY <1>1, <1>2, <1>3, <1>4, <1>5, <1>6, <1>7, <1>8, <1>9, <1>10, <1>11, <1>12, <1>13, <1>14,
     <1>15, <1>16, <1>17, <1>18, <1>19, <1>20, <1>21, <1>22, <1>23, <1>24, <1>25
     DEF ContactsNext, Renaming, Deleting, Resuming, FollowRotation, HandleRotation

\* Which steps touch messages at all.
LEMMA ContactsMoves ==
  ASSUME ContactsNext, now \in Nat
  PROVE  /\ \/ UNCHANGED <<rows, plan, heard>> /\ now' \in {now, now + 1}
            \/ \E d \in Machines, w \in Words : PlanText(d, w) \/ PlanDelete(d, w)
            \/ \E d \in Machines : CommitInbound(d) \/ HandleHello(d)
            \/ SweepHistory \/ Cut \/ RenameHistory
         /\ doomed' \union moving' \subseteq doomed \union moving \union rows
<1> USE DEF storeVars, rowVars, ramVars, personVars, pastVars
<1>1. CASE \E c \in Accounts : AddContact(c) \/ LearnFromRelay(c) \/ AskForList(c) \/ Publish(c)
  <2>1. PICK c \in Accounts : AddContact(c) \/ LearnFromRelay(c) \/ AskForList(c) \/ Publish(c)
    BY <1>1
  <2>2. CASE AddContact(c) \/ LearnFromRelay(c)
    BY <2>2 DEF AddContact, LearnFromRelay
  <2>3. CASE AskForList(c)
    BY <2>3 DEF AskForList
  <2>4. CASE Publish(c)
    BY <2>4 DEF Publish
  <2> QED
    BY <2>1, <2>2, <2>3, <2>4
<1>2. CASE \E q \in asking : PutKnownRoster(q)
  BY <1>2 DEF PutKnownRoster
<1>3. CASE \E c \in Conv : RecoverContact(c) \/ SetPendingDelete(c)
  <2> USE DEF Of
  <2>1. PICK c \in Conv : RecoverContact(c) \/ SetPendingDelete(c)
    BY <1>3
  <2>2. CASE RecoverContact(c)
    BY <2>2 DEF RecoverContact
  <2>3. CASE SetPendingDelete(c)
    BY <2>3 DEF SetPendingDelete
  <2> QED
    BY <2>1, <2>2, <2>3
<1>4. CASE SetPendingRename
  BY <1>4 DEF SetPendingRename
<1>5. CASE RenameAccount \/ MoveKeyed \/ RepointDeviceClaims \/ ClearPendingRename
  BY <1>5 DEF RenameAccount, MoveKeyed, RepointDeviceClaims, ClearPendingRename
<1>6. CASE MarkDismissed \/ RemoveContact \/ ClearPendingDelete
  BY <1>6 DEF MarkDismissed, RemoveContact, ClearPendingDelete
<1>7. CASE Resuming
  BY <1>7 DEF Resuming, ResumePendingRenames, ResumePendingDeletes
<1>8. CASE Rotate \/ ClockTicks
  BY <1>8 DEF Rotate, ClockTicks
<1>9. CASE \E d \in Machines, w \in Words : PlanText(d, w) \/ PlanDelete(d, w)
  BY <1>9 DEF PlanText, PlanDelete
<1>10. CASE \E d \in Machines : CommitInbound(d) \/ HandleHello(d)
  BY <1>10 DEF CommitInbound, HandleHello
<1>11. CASE SweepHistory \/ Cut \/ RenameHistory
  BY <1>11 DEF SweepHistory, Cut, RenameHistory
<1> QED
  BY <1>1, <1>2, <1>3, <1>4, <1>5, <1>6, <1>7, <1>8, <1>9, <1>10, <1>11
     DEF ContactsNext, Renaming, Deleting, FollowRotation, HandleRotation

\* Every step keeps a text in one place: planned by one delivery, or saved in one row.
LEMMA InOnePlaceKept ==
  ASSUME ContactsInv, ContactsNext PROVE InOnePlace'
<1> USE DEF ContactsInv, ContactsTyped, InOnePlace, Planned, TextOf, storeVars, rowVars, ramVars, personVars, pastVars
<1>9. now \in Nat /\ \A r \in rows : r.at \in Nat
  BY ContactsAssumption DEF ContactsAssumption
<1>1. CASE UNCHANGED <<rows, plan, heard>> /\ now' \in {now, now + 1}
  <2>1. \A d \in Machines : plan[d] # NoPlan => plan[d].at \in Nat
    BY ContactsAssumption DEF ContactsAssumption, Plans
  <2>2. now' \in Nat /\ now' >= now
    BY <1>1, <1>9
  <2>3. \A r \in rows : r.at <= now'
    <3>1. \A r \in rows : r.at <= now
      OBVIOUS
    <3> HIDE DEF ContactsInv, ContactsTyped, InOnePlace
    <3> QED
      BY <2>2, <1>9, <3>1
  <2>4. \A d \in Machines : plan[d] # NoPlan => plan[d].at <= now'
    BY <2>1, <2>2, <1>9
  <2> QED
    BY <1>1, <2>3, <2>4
<1>2. CASE \E d \in Machines, w \in Words : PlanText(d, w)
  BY <1>2, AccountIsConv DEF PlanText, Plans, NoPlan
<1>3. CASE \E d \in Machines, w \in Words : PlanDelete(d, w)
  BY <1>3, AccountIsConv DEF PlanDelete, Plans, NoPlan
<1>4. CASE \E d \in Machines : CommitInbound(d)
  <2>1. PICK d \in Machines : CommitInbound(d)
    BY <1>4
  <2> DEFINE p == plan[d]
             new == [of |-> p.of, conv |-> p.conv, at |-> p.at]
  <2>2. p \in Plans /\ p # NoPlan
    BY <2>1 DEF CommitInbound
  <2>3. /\ p.kind = "put" /\ rows' \subseteq rows \union {new} /\ Planned(d)
        \/ rows' \subseteq rows
    BY <2>1 DEF CommitInbound
  <2>4. plan' = [plan EXCEPT ![d] = NoPlan] /\ UNCHANGED <<heard, now>>
    BY <2>1 DEF CommitInbound
  <2>5. \A e \in Machines : (Planned(e))' => e # d /\ Planned(e) /\ plan'[e] = plan[e]
    BY <2>4 DEF NoPlan
  <2>6. new.of = p.of /\ new.at = p.at /\ p.at <= now
    BY <2>1, <2>2
  <2> HIDE DEF p, new
  <2>7. \A r \in rows' : r \in rows \/ (r = new /\ Planned(d))
    BY <2>3
  <2>8. \A r \in rows' : TextOf(r.of) \in heard /\ r.at <= now
    BY <2>7, <2>6 DEF p
  <2>9. \A r1, r2 \in rows' : r1.of = r2.of => r1 = r2
    BY <2>7, <2>6 DEF p
  <2>10. \A e \in Machines : (Planned(e))' => \A r \in rows' : r.of # plan[e].of
    BY <2>7, <2>6, <2>5 DEF p
  <2>11. \A e \in Machines : plan'[e] # NoPlan => plan[e] = plan'[e]
    BY <2>4
  <2> QED
    BY <2>4, <2>5, <2>8, <2>9, <2>10, <2>11
<1>5. CASE /\ UNCHANGED <<plan, heard, now>>
           /\ \E from \in Machines, to \in Accounts : from # to /\ rows' = Renamed(from, to)
  <2>1. PICK from \in Machines, to \in Accounts : from # to /\ rows' = Renamed(from, to)
    BY <1>5
  <2>2. \A r \in rows' : \E x \in rows : x.of = r.of /\ x.at = r.at
    BY <2>1, RenamedRows
  <2>3. \A r1, r2 \in rows' : r1.of = r2.of => r1 = r2
    BY <2>1, RenamedRows
  <2> QED
    BY <2>2, <2>3, <1>5
<1>6. CASE SweepHistory
  BY <1>6 DEF SweepHistory
<1>7. CASE Cut
  BY <1>7 DEF Cut, Plans, NoPlan
<1>8. CASE RenameHistory \/ \E d \in Machines : HandleHello(d)
  BY <1>8, <1>5 DEF RenameHistory, HandleHello
<1> HIDE DEF ContactsInv, ContactsTyped, InOnePlace, Planned, TextOf
<1> QED
  BY <1>1, <1>2, <1>3, <1>4, <1>6, <1>7, <1>8, <1>9, ContactsMoves

\* A step moves a message on, keeps it or drops it, and adds none that was planned by nobody.
LEMMA RowsAfter ==
  ASSUME ContactsInv, ContactsNext, NEW x \in rows'
  PROVE  \/ \E y \in rows : y.of = x.of /\ y.at = x.at /\ Stage[x.conv] >= Stage[y.conv]
         \/ \E d \in Machines : Planned(d) /\ x.of = plan[d].of
<1> USE DEF ContactsInv, ContactsTyped
<1>1. \A y \in rows : Stage[y.conv] >= Stage[y.conv]
  BY DEF Stage
<1>2. CASE x \in rows
  BY <1>1, <1>2
<1>3. CASE \E from \in Machines, to \in Accounts : from # to /\ x \in Renamed(from, to)
                /\ (from = "old" => to = "new")
  <2>1. PICK from \in Machines, to \in Accounts : from # to /\ x \in Renamed(from, to)
                /\ (from = "old" => to = "new")
    BY <1>3
  <2>2. PICK y \in rows : y.of = x.of /\ y.at = x.at /\ (x = y \/ (y.conv = from /\ x.conv = to))
    BY <2>1, RenamedRows
  <2>3. Stage[x.conv] >= Stage[y.conv]
    BY <1>1, <2>1, <2>2 DEF Stage
  <2> QED
    BY <2>2, <2>3
<1>4. CASE \E d \in Machines : CommitInbound(d)
  BY <1>2, <1>4 DEF CommitInbound, Planned, Plans
<1>5. CASE \E d \in Machines : HandleHello(d)
  BY <1>3, <1>5 DEF HandleHello
<1>6. CASE RenameHistory
  BY <1>3, <1>6 DEF RenameHistory
<1>7. CASE \/ \E d \in Machines, w \in Words : PlanText(d, w) \/ PlanDelete(d, w)
           \/ SweepHistory \/ Cut
  BY <1>2, <1>7 DEF PlanText, PlanDelete, SweepHistory, Cut, rowVars
<1>8. now \in Nat
  BY ContactsAssumption DEF ContactsAssumption
<1> HIDE DEF ContactsInv, ContactsTyped
<1> QED
  BY <1>2, <1>4, <1>5, <1>6, <1>7, <1>8, ContactsMoves

\* A text that came and is planned by nobody stays so.
LEMMA StaysSettled ==
  ASSUME ContactsInv, ContactsNext, NEW w \in Words,
         TextOf(w) \in heard, \A d \in Machines : Planned(d) => plan[d].of # w
  PROVE  TextOf(w) \in heard' /\ \A d \in Machines : (Planned(d))' => plan'[d].of # w
<1> USE DEF ContactsInv, ContactsTyped, TextOf, Planned
<1>1. CASE \E d \in Machines, v \in Words : PlanText(d, v) \/ PlanDelete(d, v)
  BY <1>1 DEF PlanText, PlanDelete
<1>2. CASE \E d \in Machines : CommitInbound(d)
  BY <1>2 DEF CommitInbound, NoPlan, personVars
<1>3. CASE UNCHANGED <<plan, heard>>
  BY <1>3
<1>4. CASE Cut
  BY <1>4 DEF Cut, NoPlan, Plans
<1>5. CASE (\E d \in Machines : HandleHello(d)) \/ SweepHistory \/ RenameHistory
  BY <1>3, <1>5 DEF HandleHello, SweepHistory, RenameHistory, ramVars, personVars
<1>8. now \in Nat
  BY ContactsAssumption DEF ContactsAssumption
<1> HIDE DEF ContactsInv, ContactsTyped, TextOf, Planned
<1> QED
  BY <1>1, <1>2, <1>3, <1>4, <1>5, <1>8, ContactsMoves

\* What a sweep or a rename has read never reappears behind it.
LEMMA MovesOnKept ==
  ASSUME ContactsInv, ContactsNext PROVE MovesOn'
<1> SUFFICES ASSUME NEW r \in (doomed \union moving)'
             PROVE  /\ TextOf(r.of) \in heard' /\ \A d \in Machines : (Planned(d))' => plan'[d].of # r.of
                    /\ \A x \in rows' : x.of = r.of => x.at = r.at /\ Stage[x.conv] >= Stage[r.conv]
  BY DEF MovesOn, TextOf
<1>1. r \in doomed \union moving \union rows /\ now \in Nat
  BY ContactsMoves, ContactsAssumption DEF ContactsInv, ContactsTyped, ContactsAssumption
<1>2. /\ r \in Row /\ TextOf(r.of) \in heard /\ \A d \in Machines : Planned(d) => plan[d].of # r.of
      /\ \A x \in rows : x.of = r.of => x.at = r.at /\ Stage[x.conv] >= Stage[r.conv]
  <2>1. CASE r \in rows
    BY <2>1 DEF ContactsInv, ContactsTyped, InOnePlace, Stage
  <2>2. CASE r \notin rows
    BY <1>1, <2>2 DEF ContactsInv, ContactsTyped, MovesOn
  <2> QED
    BY <2>1, <2>2
<1>3. TextOf(r.of) \in heard' /\ \A d \in Machines : (Planned(d))' => plan'[d].of # r.of
  BY <1>2, StaysSettled
<1>4. ASSUME NEW x \in rows', x.of = r.of PROVE x.at = r.at /\ Stage[x.conv] >= Stage[r.conv]
  <2>1. PICK y \in rows : y.of = x.of /\ y.at = x.at /\ Stage[x.conv] >= Stage[y.conv]
    BY <1>2, <1>4, RowsAfter
  <2>2. y.at = r.at /\ Stage[y.conv] >= Stage[r.conv]
    BY <1>2, <1>4, <2>1
  <2>3. \A c \in Conv : Stage[c] \in Nat
    BY DEF Stage
  <2>4. x.conv \in Conv /\ y.conv \in Conv /\ r.conv \in Conv
    BY <1>2, ContactsTypedKept DEF ContactsInv, ContactsTyped
  <2> QED
    BY <2>1, <2>2, <2>3, <2>4
<1> QED
  BY <1>3, <1>4

\* A delete in progress keeps its marker, and what it has swept stays gone.
LEMMA SweepingKept ==
  ASSUME ContactsInv, ContactsNext PROVE Sweeping'
<1> USE DEF Sweeping
<1>1. /\ now \in Nat \ {0} /\ \A r \in rows : r.at \in Nat /\ r.at <= now
      /\ \A c \in Conv : deleting[c] \in Nat
      /\ \A r \in doomed : r \in Row /\ r.at \in Nat
  BY ContactsAssumption DEF ContactsInv, ContactsTyped, InOnePlace, ContactsAssumption
<1>2. \A r \in doomed : r \in rows' => r \in rows
  <2> SUFFICES ASSUME NEW r \in doomed, r \in rows' PROVE r \in rows
    OBVIOUS
  <2>1. PICK y \in rows : y.of = r.of /\ y.at = r.at /\ Stage[r.conv] >= Stage[y.conv]
    BY RowsAfter DEF ContactsInv, MovesOn
  <2>2. Stage[y.conv] >= Stage[r.conv]
    BY <2>1 DEF ContactsInv, MovesOn
  <2>3. y \in Row /\ r \in Row
    BY DEF ContactsInv, ContactsTyped
  <2>4. y.conv = r.conv
    BY <2>1, <2>2, <2>3 DEF Stage
  <2> QED
    BY <2>1, <2>3, <2>4
<1>3. CASE UNCHANGED <<del, deleting, doomed>>
  BY <1>2, <1>3 DEF ContactsInv
<1>4. CASE \E c \in Conv : SetPendingDelete(c)
  BY <1>1, <1>4 DEF SetPendingDelete, Of, Idle, rowVars, ContactsInv, ContactsTyped
<1>5. CASE MarkDismissed \/ RemoveContact
  BY <1>5, <1>2 DEF MarkDismissed, RemoveContact, ContactsInv, ContactsTyped, pastVars
<1>6. CASE SweepHistory
  BY <1>6, <1>2, <1>1 DEF SweepHistory, ContactsInv, ContactsTyped, storeVars, pastVars
<1>7. CASE ClearPendingDelete
  BY <1>7, <1>2, <1>1 DEF ClearPendingDelete, ContactsInv, ContactsTyped, rowVars, pastVars, Idle
<1>8. CASE Cut
  BY <1>8, <1>2 DEF Cut, ContactsInv, Idle, storeVars
<1>9. CASE ResumePendingDeletes
  BY <1>9, <1>2, <1>1 DEF ResumePendingDeletes, ContactsInv, storeVars, pastVars
<1>10. CASE \E c \in Accounts : AddContact(c) \/ LearnFromRelay(c) \/ AskForList(c) \/ Publish(c)
  <2>1. PICK c \in Accounts : AddContact(c) \/ LearnFromRelay(c) \/ AskForList(c) \/ Publish(c)
    BY <1>10
  <2> QED
    BY <2>1, <1>3 DEF AddContact, LearnFromRelay, AskForList, Publish, ramVars, storeVars,
       pastVars
<1>11. CASE (\E q \in asking : PutKnownRoster(q)) \/ \E c \in Conv : RecoverContact(c)
  BY <1>11, <1>3 DEF PutKnownRoster, RecoverContact, pastVars
<1>12. CASE \E d \in Machines : (\E w \in Words : PlanText(d, w) \/ PlanDelete(d, w)) \/ CommitInbound(d) \/ HandleHello(d)
  BY <1>12, <1>3 DEF PlanText, PlanDelete, CommitInbound, HandleHello, storeVars, ramVars,
     pastVars
<1>13. CASE SetPendingRename \/ ResumePendingRenames
  BY <1>13, <1>3 DEF SetPendingRename, ResumePendingRenames, storeVars, pastVars
<1>14. CASE Renaming
  BY <1>14, <1>3 DEF Renaming, RenameHistory, RenameAccount, MoveKeyed, RepointDeviceClaims,
                     ClearPendingRename, storeVars, pastVars
<1>15. CASE Rotate \/ ClockTicks
  BY <1>15, <1>3 DEF Rotate, ClockTicks, storeVars, ramVars, pastVars
<1> HIDE DEF Sweeping
<1> QED
  BY <1>4, <1>5, <1>6, <1>7, <1>8, <1>9, <1>10, <1>11, <1>12, <1>13, <1>14, <1>15
     DEF ContactsNext, Deleting, Resuming, FollowRotation, HandleRotation

\* What a rename has read of the old account is moved while its marker stands.
LEMMA MovingKept ==
  ASSUME ContactsInv, ContactsNext PROVE Moving'
<1> USE DEF Moving
<1>1. \A r \in moving : r.conv = "old" /\ (r \in rows' => r \in rows)
  <2> SUFFICES ASSUME NEW r \in moving PROVE r.conv = "old" /\ (r \in rows' => r \in rows)
    OBVIOUS
  <2>1. SUFFICES ASSUME r \in rows' PROVE r \in rows
    BY DEF ContactsInv
  <2>2. PICK y \in rows : y.of = r.of /\ y.at = r.at /\ Stage[r.conv] >= Stage[y.conv]
    BY <2>1, RowsAfter DEF ContactsInv, MovesOn
  <2>3. Stage[y.conv] >= Stage[r.conv]
    BY <2>2 DEF ContactsInv, MovesOn
  <2>4. y \in Row /\ r \in Row
    BY DEF ContactsInv, ContactsTyped
  <2>5. y.conv = r.conv
    BY <2>2, <2>3, <2>4 DEF Stage
  <2> QED
    BY <2>2, <2>4, <2>5
<1>2. CASE UNCHANGED <<renaming, rot, moving>>
  BY <1>1, <1>2 DEF ContactsInv
<1>3. CASE SetPendingRename
  BY <1>3, <1>1 DEF SetPendingRename
<1>4. CASE RenameHistory
  <2>1. \A r \in rows' : r.conv # "old"
    BY <1>4, RenamedRows DEF RenameHistory, ContactsInv, ContactsTyped
  <2> QED
    BY <1>4, <1>1, <2>1 DEF RenameHistory, pastVars
<1>5. CASE RenameAccount \/ MoveKeyed \/ RepointDeviceClaims \/ ClearPendingRename
  BY <1>5, <1>1 DEF RenameAccount, MoveKeyed, RepointDeviceClaims, ClearPendingRename,
     ContactsInv,
                    pastVars
<1>6. CASE Cut
  BY <1>6, <1>1 DEF Cut, ContactsInv, storeVars, ContactsTyped
<1>7. CASE ResumePendingRenames
  BY <1>7, <1>1 DEF ResumePendingRenames, ContactsInv, storeVars, pastVars
<1>8. CASE \E c \in Accounts : AddContact(c) \/ LearnFromRelay(c) \/ AskForList(c) \/ Publish(c)
  <2>1. PICK c \in Accounts : AddContact(c) \/ LearnFromRelay(c) \/ AskForList(c) \/ Publish(c)
    BY <1>8
  <2> QED
    BY <2>1, <1>2 DEF AddContact, LearnFromRelay, AskForList, Publish, ramVars, storeVars,
       pastVars
<1>9. CASE \/ \E q \in asking : PutKnownRoster(q)
           \/ \E c \in Conv : RecoverContact(c) \/ SetPendingDelete(c)
  BY <1>9, <1>2 DEF PutKnownRoster, RecoverContact, SetPendingDelete, pastVars
<1>10. CASE \E d \in Machines : (\E w \in Words : PlanText(d, w) \/ PlanDelete(d, w)) \/ CommitInbound(d) \/ HandleHello(d)
  BY <1>10, <1>2 DEF PlanText, PlanDelete, CommitInbound, HandleHello, storeVars, ramVars,
     pastVars
<1>11. CASE Deleting \/ ResumePendingDeletes
  BY <1>11, <1>2 DEF Deleting, MarkDismissed, RemoveContact, SweepHistory, ClearPendingDelete,
                     ResumePendingDeletes, storeVars, pastVars
<1>12. CASE Rotate \/ ClockTicks
  BY <1>12, <1>2 DEF Rotate, ClockTicks, storeVars, ramVars, pastVars
<1> HIDE DEF Moving
<1> QED
  BY <1>3, <1>4, <1>5, <1>6, <1>7, <1>8, <1>9, <1>10, <1>11, <1>12
     DEF ContactsNext, Renaming, Resuming, FollowRotation, HandleRotation

\* The invariant of the stored contacts holds in every reachable state.
LEMMA ContactsInductive == ContactsSpec => []ContactsInv
<1>1. ASSUME ContactsInit PROVE ContactsInv
  <2>1. lists \in [Accounts -> 0 .. 2] /\ published = lists
    BY <1>1 DEF ContactsInit
  <2>2. claims \in [Machines -> Accounts \union {Nobody}]
    BY <1>1 DEF ContactsInit
  <2>3. gone \in [Conv -> [at : 0 .. MaxNow, auto : BOOLEAN]] /\ del \in [step : {"none"}, conv : Conv, at : 0 .. MaxNow]
    BY <1>1, ContactsAssumption DEF ContactsInit, ContactsAssumption, Idle
  <2>4. /\ plan \in [Machines -> Plans \union {NoPlan}] /\ now \in 1 .. MaxNow
        /\ seeking \in [Conv -> 0 .. MaxNow] /\ deleting \in [Conv -> 0 .. MaxNow]
    BY <1>1, ContactsAssumption DEF ContactsInit, ContactsAssumption
  <2>5. ContactsTyped
    BY <1>1, <2>1, <2>2, <2>3, <2>4 DEF ContactsInit, ContactsTyped
  <2> QED
    BY <1>1, <2>5 DEF ContactsInit, ContactsInv, InOnePlace, MovesOn, Sweeping, Moving,
       Planned, NoPlan, Idle
<1>2. ASSUME ContactsInv, [ContactsNext]_contactsVars PROVE ContactsInv'
  <2>1. CASE ContactsNext
    BY <1>2, <2>1, ContactsTypedKept, InOnePlaceKept, MovesOnKept, SweepingKept, MovingKept
       DEF ContactsInv
  <2>2. CASE UNCHANGED contactsVars
    BY <1>2, <2>2 DEF contactsVars, storeVars, rowVars, ramVars, personVars, pastVars,
       ContactsInv,
      ContactsTyped, InOnePlace, MovesOn, Sweeping, Moving, Planned
  <2> QED
    BY <1>2, <2>1, <2>2
<1> QED
  BY <1>1, <1>2, PTL DEF ContactsSpec

\* The records of a person stay in states the code can leave (contactStore.ts).
LEMMA ContactsTypesHold == ContactsSpec => []ContactsTypeOK
<1>1. ContactsInv => ContactsTypeOK
  BY DEF ContactsInv, ContactsTyped
<1> QED
  BY <1>1, ContactsInductive, PTL

\* A delete that is over has removed, and a rename that is over has moved, all they were
\* asked for (client.ts deleteConversation, applyRotation).
LEMMA PlansFinish == ContactsSpec => [](DeleteFinishes /\ RenameFinishes)
<1>1. ContactsInv => DeleteFinishes /\ RenameFinishes
  BY DEF ContactsInv, ContactsTyped, Sweeping, Moving, DeleteFinishes, RenameFinishes
<1> QED
  BY <1>1, ContactsInductive, PTL

\* Only the user, a rename or an answer asked for before brings a deleted person back
\* (contactStore.ts recordFirstContact).
LEMMA NotRelearned == ContactsSpec => DeletedIsNotRelearned
<1>1. ASSUME ContactsInv, ContactsNext, NEW c \in Conv, c \in contacts' \ contacts, gone[c].auto
      PROVE  AddContact(c) \/ RenameAccount \/ seeking[c] >= gone[c].at
  <2>1. CASE \E a \in Accounts : AddContact(a) \/ LearnFromRelay(a)
    BY <2>1, <1>1 DEF AddContact, LearnFromRelay, RecordFirstContact, Refused, ContactsInv,
       ContactsTyped
  <2>2. CASE \E a \in Conv : RecoverContact(a)
    BY <2>2, <1>1 DEF RecoverContact, RecordFirstContact, Refused, ContactsInv, ContactsTyped
  <2>3. CASE RenameAccount
    BY <2>3
  <2>4. CASE UNCHANGED contacts \/ contacts' \subseteq contacts
    BY <2>4, <1>1
  <2>5. CASE \E a \in Accounts : AskForList(a) \/ Publish(a)
    <3>1. PICK a \in Accounts : AskForList(a) \/ Publish(a)
      BY <2>5
    <3> QED
      BY <3>1, <2>4 DEF AskForList, Publish, storeVars
  <2>6. CASE (\E q \in asking : PutKnownRoster(q)) \/ \E a \in Conv : SetPendingDelete(a)
    BY <2>6, <2>4 DEF PutKnownRoster, SetPendingDelete
  <2>7. CASE \E d \in Machines : (\E w \in Words : PlanText(d, w) \/ PlanDelete(d, w)) \/ CommitInbound(d) \/ HandleHello(d)
    BY <2>7, <2>4 DEF PlanText, PlanDelete, CommitInbound, HandleHello, storeVars
  <2>8. CASE SetPendingRename \/ RenameHistory \/ MoveKeyed \/ RepointDeviceClaims \/ ClearPendingRename
    BY <2>8, <2>4 DEF SetPendingRename, RenameHistory, MoveKeyed, RepointDeviceClaims,
       ClearPendingRename, storeVars
  <2>9. CASE Deleting \/ Resuming \/ Cut \/ Rotate \/ ClockTicks
    BY <2>9, <2>4 DEF Deleting, MarkDismissed, RemoveContact, SweepHistory, ClearPendingDelete,
       Cut,
         Resuming, ResumePendingRenames, ResumePendingDeletes, Rotate, ClockTicks, storeVars
  <2> QED
    BY <2>1, <2>2, <2>3, <2>5, <2>6, <2>7, <2>8, <2>9, <1>1
       DEF ContactsNext, Renaming, FollowRotation, HandleRotation
<1>2. ContactsInv /\ [ContactsNext]_contactsVars =>
        [\A c \in Conv : c \in contacts' \ contacts /\ gone[c].auto
            => AddContact(c) \/ RenameAccount \/ seeking[c] >= gone[c].at]_contactsVars
  BY <1>1
<1> QED
  BY <1>2, ContactsInductive, PTL DEF ContactsSpec, DeletedIsNotRelearned

\* A device list that was stored is replaced only by a later one (putKnownRoster).
LEMMA NeverGoBack == ContactsSpec => ListsNeverGoBack
<1>1. ASSUME ContactsInv, ContactsNext, NEW a \in Accounts PROVE lists'[a] >= lists[a] \/ MoveKeyed
  <2> USE DEF ContactsInv, ContactsTyped
  <2>1. lists \in [Accounts -> 0 .. 2]
    BY <1>1
  <2>2. CASE UNCHANGED lists
    BY <2>1, <2>2
  <2>3. CASE \E q \in asking : PutKnownRoster(q)
    BY <2>3, <2>1 DEF PutKnownRoster
  <2>4. CASE MoveKeyed
    BY <2>4
  <2> HIDE DEF ContactsInv, ContactsTyped
  <2>5. CASE \E c \in Accounts : AddContact(c) \/ LearnFromRelay(c) \/ AskForList(c) \/ Publish(c)
    <3>1. PICK c \in Accounts : AddContact(c) \/ LearnFromRelay(c) \/ AskForList(c) \/ Publish(c)
      BY <2>5
    <3> QED
      BY <3>1, <2>2 DEF AddContact, LearnFromRelay, AskForList, Publish, storeVars
  <2>6. CASE \E c \in Conv : RecoverContact(c) \/ SetPendingDelete(c)
    BY <2>6, <2>2 DEF RecoverContact, SetPendingDelete
  <2>7. CASE \E d \in Machines : (\E w \in Words : PlanText(d, w) \/ PlanDelete(d, w)) \/ CommitInbound(d) \/ HandleHello(d)
    BY <2>7, <2>2 DEF PlanText, PlanDelete, CommitInbound, HandleHello, storeVars
  <2>8. CASE SetPendingRename \/ RenameHistory \/ RenameAccount \/ RepointDeviceClaims \/ ClearPendingRename
    BY <2>8, <2>2 DEF SetPendingRename, RenameHistory, RenameAccount, RepointDeviceClaims,
       ClearPendingRename, storeVars
  <2>9. CASE Deleting \/ Resuming \/ Cut \/ Rotate \/ ClockTicks
    BY <2>9, <2>2 DEF Deleting, MarkDismissed, RemoveContact, SweepHistory, ClearPendingDelete,
       Cut,
         Resuming, ResumePendingRenames, ResumePendingDeletes, Rotate, ClockTicks, storeVars
  <2> QED
    BY <2>3, <2>4, <2>5, <2>6, <2>7, <2>8, <2>9, <1>1
       DEF ContactsNext, Renaming, FollowRotation, HandleRotation
<1>2. ContactsInv /\ [ContactsNext]_contactsVars =>
        [\A a \in Accounts : lists'[a] >= lists[a] \/ MoveKeyed]_contactsVars
  BY <1>1
<1> QED
  BY <1>2, ContactsInductive, PTL DEF ContactsSpec, ListsNeverGoBack

HIDE DEF ContactsTypeOK, Accounts, Machines, Conv, Row

-----------------------------------------------------------------------------
(* The windows of a device: what was told arrives, in its order.           *)

Stages == {"off", "connecting", "loading", "ready", "blind"}

ScreensTyped ==
  /\ saved \subseteq came /\ entombed = erased /\ saved \intersect entombed = {}
  /\ came \subseteq Note /\ entombed \subseteq Note
  /\ stage \in [Window -> Stages]
  /\ loaded \in [Window -> SUBSET Note] /\ bubbles \in [Window -> SUBSET Note]
  /\ telling \in [Window -> Seq(Event)] /\ posted \in [Window -> Seq(Event)]
  /\ \A w \in Window :
       /\ bubbles[w] \subseteq came /\ loaded[w] \subseteq came
       /\ ~Up(w) => posted[w] = <<>>
       /\ ~In(telling[w], Removed)
       /\ \A n \in Note : In(telling[w], Append1(n)) \/ In(posted[w], Append1(n)) => n \in came
       /\ \A n \in Note : In(telling[w], Delete1(n)) \/ In(posted[w], Delete1(n)) => n \in entombed

\* What a window shows already, or will once it has shown the history it read.
Shown(w) == IF stage[w] = "loading" THEN loaded[w] \union bubbles[w] ELSE bubbles[w]

ToCome(w, e) == In(posted[w], e) \/ \E x \in Window : In(telling[x], e)

\* A saved text is shown, or is being told.
TextsShown ==
  \A w \in Window : stage[w] \in {"loading", "ready"} =>
    \A n \in saved \ crossed : n \in Shown(w) \/ ToCome(w, Append1(n))

\* After e comes d.
Before(s, e, d) == \A i \in DOMAIN s : s[i] = e => \E j \in DOMAIN s : j > i /\ s[j] = d

\* A deleted text is shown only where its delete is still to come, and is told nowhere
\* but before that.
DeletesFollow ==
  \A n \in entombed \ crossed : \A w \in Window :
    /\ Before(telling[w], Append1(n), Delete1(n))
    /\ In(telling[w], Delete1(n)) =>
         ~In(posted[w], Append1(n)) /\ \A x \in Window \ {w} : ~In(telling[x], Delete1(n))
    /\ \/ Before(posted[w], Append1(n), Delete1(n))
       \/ \E x \in Window \ {w} : In(telling[x], Delete1(n))
    /\ n \in bubbles[w] => ToCome(w, Delete1(n))

\* Who has no client shows nothing that was not told the others.
OffShowsCrossed == \A w \in Window : ~Up(w) => bubbles[w] \subseteq crossed

ScreensInv == ScreensTyped /\ TextsShown /\ DeletesFollow /\ OffShowsCrossed

\* What a queue holds after something came or left.
LEMMA InQueue ==
  ASSUME NEW S, NEW s \in Seq(S)
  PROVE  /\ \A e \in S : Append(s, e) \in Seq(S)
         /\ \A e \in S : \A d : In(Append(s, e), d) <=> In(s, d) \/ d = e
         /\ s # <<>> => /\ Tail(s) \in Seq(S) /\ Head(s) \in S /\ In(s, Head(s))
                        /\ \A d : In(Tail(s), d) => In(s, d)
                        /\ \A d : In(s, d) => d = Head(s) \/ In(Tail(s), d)
<1>1. ASSUME NEW e \in S, NEW d PROVE In(Append(s, e), d) <=> In(s, d) \/ d = e
  <2>1. /\ Len(Append(s, e)) = Len(s) + 1 /\ Append(s, e)[Len(s) + 1] = e
        /\ \A i \in 1 .. Len(s) : Append(s, e)[i] = s[i]
        /\ DOMAIN s = 1 .. Len(s) /\ DOMAIN Append(s, e) = 1 .. Len(s) + 1 /\ Len(s) \in Nat
    OBVIOUS
  <2> QED
    BY <2>1 DEF In
<1>2. ASSUME s # <<>>, NEW d
      PROVE  (In(Tail(s), d) => In(s, d)) /\ (In(s, d) => d = Head(s) \/ In(Tail(s), d))
  <2>1. /\ DOMAIN s = 1 .. Len(s) /\ DOMAIN Tail(s) = 1 .. Len(s) - 1 /\ Len(s) \in Nat \ {0}
        /\ \A i \in 1 .. Len(s) - 1 : Tail(s)[i] = s[i + 1]
        /\ Head(s) = s[1]
    BY <1>2
  <2>2. ASSUME In(Tail(s), d) PROVE In(s, d)
    <3>1. PICK i \in 1 .. Len(s) - 1 : Tail(s)[i] = d
      BY <2>1, <2>2 DEF In
    <3>2. i + 1 \in DOMAIN s /\ s[i + 1] = d
      BY <2>1, <3>1
    <3> QED
      BY <3>2 DEF In
  <2>3. ASSUME In(s, d), d # Head(s) PROVE In(Tail(s), d)
    <3>1. PICK i \in 1 .. Len(s) : s[i] = d
      BY <2>1, <2>3 DEF In
    <3>2. i - 1 \in DOMAIN Tail(s) /\ Tail(s)[i - 1] = d
      BY <2>1, <3>1, <2>3
    <3> QED
      BY <3>2 DEF In
  <2> QED
    BY <2>2, <2>3
<1>3. s # <<>> => In(s, Head(s)) /\ Head(s) \in S /\ Tail(s) \in Seq(S)
  BY DEF In
<1> QED
  BY <1>1, <1>2, <1>3

\* An event comes before another in a queue that something came to or left.
LEMMA BeforeQueue ==
  ASSUME NEW S, NEW s \in Seq(S), NEW e, NEW d
  PROVE  /\ ~In(s, e) => Before(s, e, d)
         /\ Before(s, e, d) => \A x \in S : x # e => Before(Append(s, x), e, d)
         /\ d # e /\ d \in S => Before(Append(s, d), e, d)
         /\ s # <<>> /\ Before(s, e, d) => Before(Tail(s), e, d)
         /\ s # <<>> /\ Before(s, e, d) /\ Head(s) = e => In(Tail(s), d)
<1>1. ASSUME NEW x \in S
      PROVE  /\ Len(Append(s, x)) = Len(s) + 1 /\ Append(s, x)[Len(s) + 1] = x
             /\ \A i \in 1 .. Len(s) : Append(s, x)[i] = s[i]
             /\ DOMAIN s = 1 .. Len(s) /\ DOMAIN Append(s, x) = 1 .. Len(s) + 1 /\ Len(s) \in Nat
  OBVIOUS
<1>2. ASSUME s # <<>>
      PROVE  /\ DOMAIN s = 1 .. Len(s) /\ DOMAIN Tail(s) = 1 .. Len(s) - 1 /\ Len(s) \in Nat \ {0}
             /\ \A i \in 1 .. Len(s) - 1 : Tail(s)[i] = s[i + 1]
             /\ Head(s) = s[1]
  BY <1>2
<1>3. ~In(s, e) => Before(s, e, d)
  BY DEF In, Before
<1>4. ASSUME Before(s, e, d), NEW x \in S, x # e PROVE Before(Append(s, x), e, d)
  <2> SUFFICES ASSUME NEW i \in DOMAIN Append(s, x), Append(s, x)[i] = e
               PROVE  \E j \in DOMAIN Append(s, x) : j > i /\ Append(s, x)[j] = d
    BY DEF Before
  <2>1. i \in 1 .. Len(s) /\ s[i] = e
    BY <1>1, <1>4
  <2>2. PICK j \in 1 .. Len(s) : j > i /\ s[j] = d
    BY <2>1, <1>1, <1>4 DEF Before
  <2>3. j \in DOMAIN Append(s, x) /\ Append(s, x)[j] = d
    BY <1>1, <2>2
  <2> QED
    BY <2>2, <2>3
<1>5. ASSUME d # e, d \in S PROVE Before(Append(s, d), e, d)
  <2> SUFFICES ASSUME NEW i \in DOMAIN Append(s, d), Append(s, d)[i] = e
               PROVE  \E j \in DOMAIN Append(s, d) : j > i /\ Append(s, d)[j] = d
    BY DEF Before
  <2>1. i # Len(s) + 1
    BY <1>1, <1>5
  <2>2. Len(s) + 1 > i /\ Append(s, d)[Len(s) + 1] = d /\ Len(s) + 1 \in DOMAIN Append(s, d)
    BY <1>1, <1>5, <2>1
  <2> QED
    BY <2>2
<1>6. ASSUME s # <<>>, Before(s, e, d) PROVE Before(Tail(s), e, d)
  <2> SUFFICES ASSUME NEW i \in 1 .. Len(s) - 1, s[i + 1] = e
               PROVE  \E j \in 1 .. Len(s) - 1 : j > i /\ Tail(s)[j] = d
    BY <1>2, <1>6 DEF Before
  <2>1. i + 1 \in DOMAIN s
    BY <1>2, <1>6
  <2>2. PICK j \in 1 .. Len(s) : j > i + 1 /\ s[j] = d
    BY <2>1, <1>2, <1>6 DEF Before
  <2>3. j - 1 \in 1 .. Len(s) - 1 /\ j - 1 > i /\ Tail(s)[j - 1] = d
    BY <1>2, <1>6, <2>2
  <2> QED
    BY <2>3
<1>7. ASSUME s # <<>>, Before(s, e, d), Head(s) = e PROVE In(Tail(s), d)
  <2>1. 1 \in DOMAIN s /\ s[1] = e
    BY <1>2, <1>7
  <2>2. PICK j \in 1 .. Len(s) : j > 1 /\ s[j] = d
    BY <2>1, <1>2, <1>7 DEF Before
  <2>3. j - 1 \in DOMAIN Tail(s) /\ Tail(s)[j - 1] = d
    BY <1>2, <1>7, <2>2
  <2> QED
    BY <2>3 DEF In
<1> QED
  BY <1>3, <1>4, <1>5, <1>6, <1>7

\* The events are distinct, and what each does to what is shown.
LEMMA EventKinds ==
  /\ \A n \in Note : Append1(n) \in Event /\ Delete1(n) \in Event
  /\ \A e \in Event : e = Removed \/ \E n \in Note : (e = Append1(n) \/ e = Delete1(n))
  /\ \A n, m : /\ Append1(n) # Delete1(m) /\ Append1(n) # Removed /\ Delete1(n) # Removed
               /\ Append1(n) = Append1(m) => n = m
               /\ Delete1(n) = Delete1(m) => n = m
               /\ Append1(n).note = n /\ Delete1(n).note = n
  /\ \A n, shown : /\ Applied(shown, Append1(n)) = shown \union {n}
                   /\ Applied(shown, Delete1(n)) = shown \ {n}
                   /\ Applied(shown, Removed) = {}
  /\ Removed \in Event
<1>1. \A n, m : Append1(n).kind = "append" /\ Delete1(m).kind = "delete" /\ Removed.kind = "conversationRemoved"
               /\ Append1(n).note = n /\ Delete1(n).note = n
  BY DEF Append1, Delete1, Removed
<1>2. \A e \in Event : e = Removed \/ \E n \in Note : (e = Append1(n) \/ e = Delete1(n))
  BY DEF Append1, Delete1, Event
<1>3. \A n \in Note : Append1(n) \in Event /\ Delete1(n) \in Event
  BY DEF Append1, Delete1, Event
<1>4. \A n, shown : /\ Applied(shown, Append1(n)) = shown \union {n}
                    /\ Applied(shown, Delete1(n)) = shown \ {n}
                    /\ Applied(shown, Removed) = {}
  BY <1>1 DEF Applied
<1> QED
  BY <1>1, <1>2, <1>3, <1>4 DEF Event

\* What a window posts comes to every other window that has its channel, after what is there.
LEMMA PostedIs ==
  ASSUME ScreensTyped, NEW w \in Window, NEW e \in Event
  PROVE  /\ Posted(w, e) \in [Window -> Seq(Event)]
         /\ \A x \in Window : x # w /\ Up(w) /\ Up(x) => Posted(w, e)[x] = Append(posted[x], e)
         /\ \A x \in Window : x = w \/ ~Up(w) \/ ~Up(x) => Posted(w, e)[x] = posted[x]
         /\ \A x \in Window : \A d : In(posted[x], d) => In(Posted(w, e)[x], d)
         /\ \A x \in Window : \A d : In(Posted(w, e)[x], d) => In(posted[x], d) \/ d = e
<1>1. \A x \in Window : Posted(w, e)[x] = IF x # w /\ Up(w) /\ Up(x) THEN Append(posted[x], e) ELSE posted[x]
  BY DEF Posted
<1>2. \A x \in Window : posted[x] \in Seq(Event)
  BY DEF ScreensTyped
<1>3. \A x \in Window : /\ Append(posted[x], e) \in Seq(Event)
                        /\ \A d : In(Append(posted[x], e), d) <=> In(posted[x], d) \/ d = e
  BY <1>2, InQueue
<1>4. Posted(w, e) \in [Window -> Seq(Event)]
  BY <1>2, <1>3 DEF Posted
<1> QED
  BY <1>1, <1>3, <1>4

\* Every step keeps what is saved, told and shown within what came.
LEMMA ScreensTypedKept ==
  ASSUME ScreensTyped, ScreensNext PROVE ScreensTyped'
<1> USE DEF ScreensTyped, Up, Stages
<1>1. PICK w \in Window :
        \/ Activate(w) \/ HistoryLoadAll(w) \/ Hydrate(w)
        \/ \E n \in Note : TextArrives(w, n) \/ DeleteArrives(w, n)
        \/ Tell(w) \/ Hear(w)
        \/ Sweep(w) \/ DropConversation(w) \/ Leave(w)
  BY DEF ScreensNext
<1>2. CASE Activate(w)
  BY <1>2 DEF Activate
<1>3. CASE HistoryLoadAll(w)
  BY <1>3 DEF HistoryLoadAll
<1>4. CASE Hydrate(w)
  <2>1. /\ loaded' = [loaded EXCEPT ![w] = {}]
        /\ \E next \in {"ready", "blind"} : stage' = [stage EXCEPT ![w] = next]
        /\ \/ bubbles' = [bubbles EXCEPT ![w] = (loaded[w] \ entombed) \union bubbles[w]]
           \/ bubbles' = bubbles
        /\ UNCHANGED <<saved, entombed, telling, posted, came, erased>> /\ stage[w] = "loading"
    BY <1>4 DEF Hydrate, MergeHistory
  <2>2. bubbles' \in [Window -> SUBSET Note] /\ \A x \in Window : bubbles'[x] \subseteq came
    <3> DEFINE b == (loaded[w] \ entombed) \union bubbles[w]
    <3>1. b \in SUBSET Note /\ b \subseteq came
      OBVIOUS
    <3>2. bubbles' = [bubbles EXCEPT ![w] = b] \/ bubbles' = bubbles
      BY <2>1
    <3> HIDE DEF b
    <3> QED
      BY <3>1, <3>2
  <2>3. stage' \in [Window -> Stages] /\ \A x \in Window : (Up(x))' = Up(x)
    BY <2>1
  <2>4. loaded' \in [Window -> SUBSET Note] /\ \A x \in Window : loaded'[x] \subseteq came
    BY <2>1
  <2> QED
    BY <2>1, <2>2, <2>3, <2>4
<1>5. CASE \E n \in Note : TextArrives(w, n)
  <2>1. PICK n \in Note : TextArrives(w, n)
    BY <1>5
  <2>2. CASE n \in entombed
    BY <2>1, <2>2 DEF TextArrives
  <2>3. CASE n \notin entombed
    <3>1. telling' = [telling EXCEPT ![w] = Append(telling[w], Append1(n))]
      BY <2>1, <2>3 DEF TextArrives
    <3>2. telling' \in [Window -> Seq(Event)]
      BY <3>1, InQueue, EventKinds
    <3>3. \A x \in Window : \A d : In(telling'[x], d) => In(telling[x], d) \/ d = Append1(n)
      BY <3>1, InQueue, EventKinds
    <3> QED
      BY <2>1, <2>3, <3>2, <3>3, EventKinds DEF TextArrives
  <2> QED
    BY <2>2, <2>3
<1>6. CASE \E n \in Note : DeleteArrives(w, n)
  <2>1. PICK n \in Note : DeleteArrives(w, n)
    BY <1>6
  <2>2. telling' = [telling EXCEPT ![w] = Append(telling[w], Delete1(n))]
    BY <2>1 DEF DeleteArrives
  <2>3. telling' \in [Window -> Seq(Event)]
    BY <2>2, InQueue, EventKinds
  <2>4. \A x \in Window : \A d : In(telling'[x], d) => In(telling[x], d) \/ d = Delete1(n)
    BY <2>2, InQueue, EventKinds
  <2> QED
    BY <2>1, <2>3, <2>4, EventKinds DEF DeleteArrives
<1>7. CASE Tell(w)
  <2> DEFINE e == Head(telling[w])
  <2>1. telling[w] # <<>> /\ e \in Event /\ In(telling[w], e)
    BY <1>7, InQueue DEF Tell
  <2>2. telling' \in [Window -> Seq(Event)] /\ \A x \in Window : \A d : In(telling'[x], d) => In(telling[x], d)
    BY <1>7, <2>1, InQueue DEF Tell
  <2>3. /\ posted' \in [Window -> Seq(Event)] /\ \A x \in Window : ~Up(x) => posted'[x] = posted[x]
        /\ \A x \in Window : \A d : In(posted'[x], d) => In(posted[x], d) \/ d = e
    BY <1>7, <2>1, PostedIs DEF Tell
  <2>4. bubbles' = [bubbles EXCEPT ![w] = Applied(bubbles[w], e)]
    BY <1>7 DEF Tell
  <2>5. Applied(bubbles[w], e) \subseteq came
    <3> HIDE DEF e
    <3>1. e = Removed \/ \E n \in Note : e = Append1(n) \/ e = Delete1(n)
      BY <2>1, EventKinds
    <3> QED
      BY <3>1, <2>1, EventKinds
  <2> HIDE DEF e
  <2> QED
    BY <1>7, <2>1, <2>2, <2>3, <2>4, <2>5, EventKinds DEF Tell
<1>8. CASE Hear(w)
  <2> DEFINE e == Head(posted[w])
  <2>1. posted[w] # <<>> /\ e \in Event /\ In(posted[w], e)
    BY <1>8, InQueue DEF Hear
  <2>2. posted' \in [Window -> Seq(Event)] /\ \A x \in Window : \A d : In(posted'[x], d) => In(posted[x], d)
    BY <1>8, <2>1, InQueue DEF Hear
  <2>3. \A x \in Window : ~Up(x) => posted'[x] = <<>>
    BY <1>8 DEF Hear
  <2>4. bubbles' = [bubbles EXCEPT ![w] = Applied(bubbles[w], e)]
    BY <1>8 DEF Hear
  <2>5. Applied(bubbles[w], e) \subseteq came
    <3> HIDE DEF e
    <3>1. e = Removed \/ \E n \in Note : e = Append1(n) \/ e = Delete1(n)
      BY <2>1, EventKinds
    <3> QED
      BY <3>1, <2>1, EventKinds
  <2> HIDE DEF e
  <2> QED
    BY <1>8, <2>1, <2>2, <2>3, <2>4, <2>5 DEF Hear
<1>9. CASE Sweep(w)
  BY <1>9 DEF Sweep
<1>10. CASE DropConversation(w)
  <2>1. /\ posted' \in [Window -> Seq(Event)] /\ \A x \in Window : ~Up(x) => posted'[x] = posted[x]
        /\ \A x \in Window : \A d : In(posted'[x], d) => In(posted[x], d) \/ d = Removed
    BY <1>10, PostedIs, EventKinds DEF DropConversation
  <2> QED
    BY <1>10, <2>1, EventKinds DEF DropConversation
<1>11. CASE Leave(w)
  <2>1. <<>> \in Seq(Event) /\ \A d : ~In(<<>>, d)
    BY DEF In
  <2>2. /\ posted' = [posted EXCEPT ![w] = <<>>] /\ bubbles' = [bubbles EXCEPT ![w] = {}]
        /\ loaded' = [loaded EXCEPT ![w] = {}] /\ stage' = [stage EXCEPT ![w] = "off"]
        /\ telling' = telling \/ telling' = [telling EXCEPT ![w] = <<>>]
        /\ UNCHANGED <<saved, entombed, came, erased>>
    BY <1>11 DEF Leave
  <2>3. /\ bubbles' \in [Window -> SUBSET Note] /\ \A x \in Window : bubbles'[x] \subseteq came
        /\ loaded' \in [Window -> SUBSET Note] /\ \A x \in Window : loaded'[x] \subseteq came
    BY <2>2
  <2>4. /\ posted' \in [Window -> Seq(Event)] /\ telling' \in [Window -> Seq(Event)]
        /\ \A x \in Window : \A d : /\ In(telling'[x], d) => In(telling[x], d)
                                    /\ In(posted'[x], d) => In(posted[x], d)
    BY <2>1, <2>2
  <2>5. stage' \in [Window -> Stages] /\ \A x \in Window : ~(Up(x))' => posted'[x] = <<>>
    BY <2>2
  <2>6. \A x \in Window, n \in Note :
          /\ In(telling'[x], Append1(n)) \/ In(posted'[x], Append1(n)) => n \in came
          /\ In(telling'[x], Delete1(n)) \/ In(posted'[x], Delete1(n)) => n \in entombed
    <3>1. \A x \in Window, n \in Note :
          /\ In(telling[x], Append1(n)) \/ In(posted[x], Append1(n)) => n \in came
          /\ In(telling[x], Delete1(n)) \/ In(posted[x], Delete1(n)) => n \in entombed
      OBVIOUS
    <3> HIDE DEF ScreensTyped, Up
    <3> QED
      BY <2>4, <3>1
  <2>7. \A x \in Window : ~In(telling'[x], Removed)
    <3>1. \A x \in Window : ~In(telling[x], Removed)
      OBVIOUS
    <3> HIDE DEF ScreensTyped, Up
    <3> QED
      BY <2>4, <3>1
  <2> QED
    BY <2>2, <2>3, <2>4, <2>5, <2>6, <2>7
<1> QED
  BY <1>1, <1>2, <1>3, <1>4, <1>5, <1>6, <1>7, <1>8, <1>9, <1>10, <1>11

\* A window without its channel shows only texts whose events crossed.
LEMMA OffShowsCrossedKept ==
  ASSUME ScreensInv, ScreensNext PROVE OffShowsCrossed'
<1> USE DEF ScreensInv, ScreensTyped, OffShowsCrossed, Up
<1>1. PICK w \in Window :
        \/ Activate(w) \/ HistoryLoadAll(w) \/ Hydrate(w)
        \/ \E n \in Note : TextArrives(w, n) \/ DeleteArrives(w, n)
        \/ Tell(w) \/ Hear(w)
        \/ Sweep(w) \/ DropConversation(w) \/ Leave(w)
  BY DEF ScreensNext
<1>2. CASE Activate(w) \/ HistoryLoadAll(w) \/ Hydrate(w)
  BY <1>2 DEF Activate, HistoryLoadAll, Hydrate
<1>3. CASE \E n \in Note : TextArrives(w, n) \/ DeleteArrives(w, n)
  BY <1>3 DEF TextArrives, DeleteArrives
<1>4. CASE Tell(w)
  <2> DEFINE e == Head(telling[w])
  <2>1. telling[w] # <<>> /\ e \in Event /\ In(telling[w], e)
    BY <1>4, InQueue DEF Tell
  <2>2. PICK n \in Note : e = Append1(n) \/ e = Delete1(n)
    BY <2>1, EventKinds
  <2>3. e.note = n /\ Applied(bubbles[w], e) \subseteq bubbles[w] \union {n}
    BY <2>2, EventKinds
  <2>4. /\ bubbles' = [bubbles EXCEPT ![w] = Applied(bubbles[w], e)] /\ stage' = stage
        /\ crossed' = IF Up(w) THEN crossed ELSE crossed \union {e.note}
    BY <1>4 DEF Tell
  <2> HIDE DEF e
  <2> QED
    BY <2>3, <2>4
<1>5. CASE Hear(w)
  BY <1>5 DEF Hear
<1>6. CASE Sweep(w) \/ DropConversation(w) \/ Leave(w)
  BY <1>6 DEF Sweep, DropConversation, Leave
<1> QED
  BY <1>1, <1>2, <1>3, <1>4, <1>5, <1>6

\* Every step keeps a saved text shown, or its event to come.
LEMMA TextsShownKept ==
  ASSUME ScreensInv, ScreensNext PROVE TextsShown'
<1> USE DEF ScreensInv, ScreensTyped, Up, Shown, Stages
<1>1. PICK w \in Window :
        \/ Activate(w) \/ HistoryLoadAll(w) \/ Hydrate(w)
        \/ \E n \in Note : TextArrives(w, n) \/ DeleteArrives(w, n)
        \/ Tell(w) \/ Hear(w)
        \/ Sweep(w) \/ DropConversation(w) \/ Leave(w)
  BY DEF ScreensNext
<1> SUFFICES ASSUME NEW v \in Window, stage'[v] \in {"loading", "ready"}, NEW n \in Note,
                    n \in saved' \ crossed', ~(n \in Shown(v))'
             PROVE  ToCome(v, Append1(n))'
  BY ScreensTypedKept DEF TextsShown
<1>2. stage[v] \in {"loading", "ready"} /\ n \in saved \ crossed => n \in Shown(v) \/ ToCome(v, Append1(n))
  BY DEF TextsShown
<1>3. CASE Activate(w) \/ HistoryLoadAll(w) \/ Hydrate(w)
  <2>1. ToCome(v, Append1(n)) => ToCome(v, Append1(n))'
    BY <1>3 DEF Activate, HistoryLoadAll, Hydrate, ToCome
  <2>2. CASE Activate(w)
    BY <1>2, <2>1, <2>2 DEF Activate
  <2>3. CASE HistoryLoadAll(w)
    BY <1>2, <2>1, <2>3 DEF HistoryLoadAll
  <2>4. CASE Hydrate(w)
    BY <1>2, <2>1, <2>4 DEF Hydrate, MergeHistory
  <2> QED
    BY <1>3, <2>2, <2>3, <2>4
<1>4. CASE \E m \in Note : TextArrives(w, m)
  <2>1. PICK m \in Note : TextArrives(w, m)
    BY <1>4
  <2>2. CASE m \in entombed
    BY <2>1, <2>2, <1>2 DEF TextArrives, ToCome
  <2>3. CASE m \notin entombed
    <3>1. telling' = [telling EXCEPT ![w] = Append(telling[w], Append1(m))] /\ UNCHANGED posted
      BY <2>1, <2>3 DEF TextArrives
    <3>2. /\ \A x \in Window : \A d : In(telling[x], d) => In(telling'[x], d)
          /\ In(telling'[w], Append1(m))
      BY <3>1, InQueue, EventKinds
    <3> QED
      BY <2>1, <2>3, <3>1, <3>2, <1>2 DEF TextArrives, ToCome
  <2> QED
    BY <2>2, <2>3
<1>5. CASE \E m \in Note : DeleteArrives(w, m)
  <2>1. PICK m \in Note : DeleteArrives(w, m)
    BY <1>5
  <2>2. telling' = [telling EXCEPT ![w] = Append(telling[w], Delete1(m))] /\ UNCHANGED posted
    BY <2>1 DEF DeleteArrives
  <2>3. \A x \in Window : \A d : In(telling[x], d) => In(telling'[x], d)
    BY <2>2, InQueue, EventKinds
  <2> QED
    BY <2>1, <2>2, <2>3, <1>2 DEF DeleteArrives, ToCome
<1>6. CASE Tell(w)
  <2> DEFINE e == Head(telling[w])
  <2>1. telling[w] # <<>> /\ e \in Event /\ In(telling[w], e)
    BY <1>6, InQueue DEF Tell
  <2>2. /\ telling' = [telling EXCEPT ![w] = Tail(telling[w])] /\ posted' = Posted(w, e)
        /\ bubbles' = [bubbles EXCEPT ![w] = Applied(bubbles[w], e)]
        /\ crossed' = IF Up(w) THEN crossed ELSE crossed \union {e.note}
        /\ UNCHANGED <<saved, stage, loaded>>
    BY <1>6 DEF Tell
  <2>3. \A x \in Window : \A d : In(telling[x], d) /\ (x # w \/ d # e) => In(telling'[x], d)
    BY <2>1, <2>2, InQueue
  <2>4. \A x \in Window : \A d : In(posted[x], d) => In(posted'[x], d)
    BY <2>1, <2>2, PostedIs
  <2>5. \A x \in Window : x # w /\ Up(w) /\ Up(x) => In(posted'[x], e)
    <3>1. \A x \in Window : In(Append(posted[x], e), e)
      BY <2>1, InQueue
    <3>2. ScreensTyped
      OBVIOUS
    <3>4. posted' = Posted(w, e) /\ e \in Event
      BY <2>1, <2>2
    <3> HIDE DEF ScreensTyped, ScreensInv, Up, Shown, e
    <3>3. \A x \in Window : x # w /\ Up(w) /\ Up(x) => posted'[x] = Append(posted[x], e)
      BY <3>4, <3>2, PostedIs
    <3> QED
      BY <3>1, <3>3
  <2>6. e # Delete1(n)
    BY <2>1, <2>2
  <2>7. n \in saved \ crossed
    BY <2>2
  <2> HIDE DEF e
  <2>8. CASE e = Append1(n)
    <3>1. Up(w) /\ Up(v)
      BY <2>2, <2>8, EventKinds
    <3>2. v # w
      BY <2>2, <2>8, EventKinds
    <3> QED
      BY <3>1, <3>2, <2>5, <2>8 DEF ToCome
  <2>9. CASE e # Append1(n)
    <3>1. n \in bubbles[v] => n \in bubbles'[v]
      <4>1. n \in bubbles[w] => n \in Applied(bubbles[w], e)
        <5>1. PICK m \in Note : e = Append1(m) \/ e = Delete1(m)
          BY <2>1, EventKinds
        <5>2. CASE e = Append1(m)
          BY <5>2, EventKinds
        <5>3. CASE e = Delete1(m)
          BY <5>3, <2>6, EventKinds
        <5> QED
          BY <5>1, <5>2, <5>3
      <4> QED
        BY <2>2, <4>1
    <3>2. ToCome(v, Append1(n)) => ToCome(v, Append1(n))'
      BY <2>3, <2>4, <2>9 DEF ToCome
    <3> QED
      BY <3>1, <3>2, <2>2, <2>7, <1>2
  <2> QED
    BY <2>8, <2>9
<1>7. CASE Hear(w)
  <2> DEFINE e == Head(posted[w])
  <2>1. posted[w] # <<>> /\ e \in Event /\ In(posted[w], e)
    BY <1>7, InQueue DEF Hear
  <2>2. /\ posted' = [posted EXCEPT ![w] = Tail(posted[w])]
        /\ bubbles' = [bubbles EXCEPT ![w] = Applied(bubbles[w], e)]
        /\ crossed' = IF e = Removed THEN crossed \union (saved \intersect bubbles[w]) ELSE crossed
        /\ UNCHANGED <<saved, stage, loaded, telling>>
    BY <1>7 DEF Hear
  <2>3. \A x \in Window : \A d : In(posted[x], d) /\ (x # w \/ d # e) => In(posted'[x], d)
    BY <2>1, <2>2, InQueue
  <2>4. e # Delete1(n)
    BY <2>1, <2>2
  <2>5. n \in saved \ crossed
    BY <2>2
  <2> HIDE DEF e
  <2>6. n \in bubbles[v] => n \in bubbles'[v]
    <3>1. n \in bubbles[w] => e # Removed
      BY <2>2, <2>5
    <3>2. n \in bubbles[w] => n \in Applied(bubbles[w], e)
      <4>1. CASE e = Removed
        BY <3>1, <4>1
      <4>2. ASSUME NEW m \in Note, e = Append1(m) PROVE n \in bubbles[w] => n \in Applied(bubbles[w], e)
        BY <4>2, EventKinds
      <4>3. ASSUME NEW m \in Note, e = Delete1(m) PROVE n \in bubbles[w] => n \in Applied(bubbles[w], e)
        BY <4>3, <2>4, EventKinds
      <4> QED
        BY <2>1, <4>1, <4>2, <4>3, EventKinds
    <3> QED
      BY <2>2, <3>2
  <2>7. ToCome(v, Append1(n)) => ToCome(v, Append1(n))' \/ (v = w /\ e = Append1(n))
    BY <2>2, <2>3 DEF ToCome
  <2>8. ~(v = w /\ e = Append1(n))
    BY <2>2, EventKinds
  <2> QED
    BY <2>2, <2>5, <2>6, <2>7, <2>8, <1>2
<1>8. CASE Sweep(w)
  BY <1>8 DEF Sweep
<1>9. CASE DropConversation(w)
  <2>1. \A x \in Window : \A d : In(posted[x], d) => In(posted'[x], d)
    BY <1>9, PostedIs, EventKinds DEF DropConversation
  <2> QED
    BY <1>9, <1>2, <2>1 DEF DropConversation, ToCome
<1>10. CASE Leave(w)
  <2>1. v # w /\ n \in saved \ crossed /\ stage[v] = stage'[v] /\ UNCHANGED <<saved>>
        /\ loaded'[v] = loaded[v] /\ bubbles'[v] = bubbles[v] /\ posted'[v] = posted[v]
    BY <1>10 DEF Leave
  <2>2. In(telling[w], Append1(n)) => telling' = telling
    BY <1>10 DEF Leave, Append1
  <2>3. \A x \in Window : In(telling[x], Append1(n)) => In(telling'[x], Append1(n))
    BY <1>10, <2>2 DEF Leave
  <2> QED
    BY <1>2, <2>1, <2>3 DEF ToCome
<1> QED
  BY <1>1, <1>3, <1>4, <1>5, <1>6, <1>7, <1>8, <1>9, <1>10

\* Every step keeps a delete behind the text it removes, wherever that is still told.
LEMMA DeletesFollowKept ==
  ASSUME ScreensInv, ScreensNext PROVE DeletesFollow'
<1>0. ScreensTyped /\ ScreensTyped'
  BY ScreensTypedKept DEF ScreensInv
<1>1. PICK w \in Window :
        \/ Activate(w) \/ HistoryLoadAll(w) \/ Hydrate(w)
        \/ \E n \in Note : TextArrives(w, n) \/ DeleteArrives(w, n)
        \/ Tell(w) \/ Hear(w)
        \/ Sweep(w) \/ DropConversation(w) \/ Leave(w)
  BY DEF ScreensNext
<1>2. SUFFICES ASSUME NEW n \in Note, n \in entombed' \ crossed'
      PROVE  \A v \in Window :
               /\ Before(telling'[v], Append1(n), Delete1(n))
               /\ In(telling'[v], Delete1(n)) =>
                    ~In(posted'[v], Append1(n)) /\ \A x \in Window \ {v} : ~In(telling'[x], Delete1(n))
               /\ \/ Before(posted'[v], Append1(n), Delete1(n))
                  \/ \E x \in Window \ {v} : In(telling'[x], Delete1(n))
               /\ n \in bubbles'[v] => \/ In(posted'[v], Delete1(n))
                                       \/ \E x \in Window : In(telling'[x], Delete1(n))
  BY <1>0 DEF DeletesFollow, ToCome, ScreensTyped
<1> DEFINE A == Append1(n)
           D == Delete1(n)
<1>3. A \in Event /\ D \in Event /\ A # D /\ A # Removed /\ D # Removed
  BY EventKinds
<1>4. \A v \in Window : telling[v] \in Seq(Event) /\ posted[v] \in Seq(Event)
  BY <1>0 DEF ScreensTyped
<1>5. ASSUME n \in entombed \ crossed, NEW v \in Window
      PROVE  /\ Before(telling[v], A, D)
             /\ In(telling[v], D) => ~In(posted[v], A) /\ \A x \in Window \ {v} : ~In(telling[x], D)
             /\ \/ Before(posted[v], A, D)
                \/ \E x \in Window \ {v} : In(telling[x], D)
             /\ n \in bubbles[v] => \/ In(posted[v], D)
                                    \/ \E x \in Window : In(telling[x], D)
  BY <1>5 DEF ScreensInv, DeletesFollow, ToCome
<1> HIDE DEF A, D
<1>7. CASE Activate(w) \/ HistoryLoadAll(w) \/ Sweep(w)
  <2>1. UNCHANGED <<entombed, crossed, telling, posted, bubbles>>
    BY <1>7 DEF Activate, HistoryLoadAll, Sweep
  <2> QED
    BY <1>2, <1>5, <2>1 DEF A, D
<1>8. CASE Hydrate(w)
  <2>1. /\ UNCHANGED <<entombed, crossed, telling, posted>>
        /\ \A v \in Window : n \in bubbles'[v] => n \in bubbles[v]
    <3>1. /\ UNCHANGED <<entombed, crossed, telling, posted>>
          /\ \/ bubbles' = [bubbles EXCEPT ![w] = (loaded[w] \ entombed) \union bubbles[w]]
             \/ bubbles' = bubbles
      BY <1>8 DEF Hydrate, MergeHistory
    <3>2. n \in entombed
      BY <1>2, <3>1
    <3>3. n \in (loaded[w] \ entombed) \union bubbles[w] => n \in bubbles[w]
      BY <3>2
    <3>4. bubbles \in [Window -> SUBSET Note]
      BY <1>0 DEF ScreensTyped
    <3> QED
      BY <3>1, <3>3, <3>4
  <2> QED
    BY <1>2, <1>5, <2>1 DEF A, D
<1>9. CASE \E m \in Note : TextArrives(w, m)
  <2>1. PICK m \in Note : TextArrives(w, m)
    BY <1>9
  <2>2. UNCHANGED <<entombed, crossed, posted, bubbles>>
    BY <2>1 DEF TextArrives
  <2>3. CASE telling' = telling
    BY <1>2, <1>5, <2>2, <2>3 DEF A, D
  <2>4. CASE telling' # telling
    <3>1. m # n /\ telling' = [telling EXCEPT ![w] = Append(telling[w], Append1(m))]
      BY <1>2, <2>1, <2>2, <2>4 DEF TextArrives
    <3>2. Append1(m) \in Event /\ Append1(m) # A /\ Append1(m) # D
      BY <3>1, EventKinds DEF A, D
    <3>3. \A v \in Window : /\ In(telling'[v], D) <=> In(telling[v], D)
                            /\ Before(telling[v], A, D) => Before(telling'[v], A, D)
      BY <1>0, <1>4, <3>1, <3>2, InQueue, BeforeQueue DEF ScreensTyped
    <3> QED
      BY <1>2, <1>5, <2>2, <3>3 DEF A, D
  <2> QED
    BY <2>3, <2>4
<1>10. CASE \E m \in Note : DeleteArrives(w, m)
  <2>1. PICK m \in Note : DeleteArrives(w, m)
    BY <1>10
  <2>2. /\ entombed' = entombed \union {m} /\ UNCHANGED <<posted, bubbles>> /\ m \notin entombed
        /\ telling' = [telling EXCEPT ![w] = Append(telling[w], Delete1(m))]
        /\ crossed' = IF OnItsWay(w, m) THEN crossed \union {m} ELSE crossed
    BY <1>0, <2>1 DEF DeleteArrives, ScreensTyped
  <2>3. Delete1(m) \in Event /\ Delete1(m) # A
    BY EventKinds DEF A
  <2>4. CASE m = n
    <3>1. Delete1(m) = D /\ ~OnItsWay(w, n)
      BY <1>2, <2>2, <2>4 DEF D
    <3>2. ~In(posted[w], A) /\ \A x \in Window \ {w} : ~In(telling[x], A)
      BY <3>1 DEF OnItsWay, A
    <3>3. \A x \in Window : ~In(telling[x], D)
      BY <1>0, <2>2, <2>4 DEF ScreensTyped, D
    <3>4. In(telling'[w], D) /\ Before(telling'[w], A, D)
      BY <1>0, <1>3, <1>4, <2>2, <3>1, InQueue, BeforeQueue DEF ScreensTyped
    <3>5. \A x \in Window \ {w} : ~In(telling'[x], D) /\ Before(telling'[x], A, D)
      BY <1>4, <2>2, <3>2, <3>3, BeforeQueue
    <3>6. Before(posted[w], A, D)
      BY <1>4, <3>2, BeforeQueue
    <3> QED
      BY <2>2, <3>2, <3>4, <3>5, <3>6 DEF A, D
  <2>5. CASE m # n
    <3>1. Delete1(m) # D /\ n \in entombed \ crossed
      BY <1>2, <2>2, <2>5, EventKinds DEF D
    <3>2. \A v \in Window : /\ In(telling'[v], D) <=> In(telling[v], D)
                            /\ Before(telling[v], A, D) => Before(telling'[v], A, D)
      BY <1>0, <1>4, <2>2, <2>3, <3>1, InQueue, BeforeQueue DEF ScreensTyped
    <3> QED
      BY <1>5, <2>2, <3>1, <3>2 DEF A, D
  <2> QED
    BY <2>4, <2>5
<1>11. CASE Tell(w)
  <2> DEFINE e == Head(telling[w])
  <2>1. telling[w] # <<>> /\ e \in Event /\ In(telling[w], e)
    BY <1>4, <1>11, InQueue DEF Tell
  <2>2. /\ telling' = [telling EXCEPT ![w] = Tail(telling[w])] /\ posted' = Posted(w, e)
        /\ bubbles' = [bubbles EXCEPT ![w] = Applied(bubbles[w], e)]
        /\ crossed' = IF Up(w) THEN crossed ELSE crossed \union {e.note}
        /\ UNCHANGED entombed
    BY <1>11 DEF Tell
  <2>3. n \in entombed \ crossed
    BY <1>2, <2>2
  <2>4. e = A \/ e = D => Up(w)
    BY <1>2, <2>2, EventKinds DEF A, D
  <2>5. \A v \in Window : /\ In(telling'[v], D) => In(telling[v], D)
                          /\ In(telling[v], D) => In(telling'[v], D) \/ (v = w /\ e = D)
                          /\ Before(telling'[v], A, D)
    BY <1>0, <1>4, <1>5, <2>1, <2>2, <2>3, InQueue, BeforeQueue DEF ScreensTyped
  <2>6. e = A => In(telling'[w], D)
    BY <1>0, <1>4, <1>5, <2>1, <2>2, <2>3, BeforeQueue DEF ScreensTyped
  <2>7. \A v \in Window : v # w /\ Up(w) /\ Up(v) => posted'[v] = Append(posted[v], e)
    BY <1>0, <2>1, <2>2, PostedIs
  <2>8. \A v \in Window : v = w \/ ~Up(w) \/ ~Up(v) => posted'[v] = posted[v]
    BY <1>0, <2>1, <2>2, PostedIs
  <2>9. \A v \in Window : ~Up(v) => posted[v] = <<>> /\ n \notin bubbles[v]
    BY <1>0, <2>3 DEF ScreensTyped, ScreensInv, OffShowsCrossed
  <2>10. \A v \in Window : \A d : /\ In(posted[v], d) => In(posted'[v], d)
                                  /\ In(posted'[v], d) => In(posted[v], d) \/ d = e
    BY <1>0, <2>1, <2>2, PostedIs
  <2>11. \A v \in Window : bubbles'[v] = IF v = w THEN Applied(bubbles[w], e) ELSE bubbles[v]
    BY <1>0, <2>2 DEF ScreensTyped
  <2> HIDE DEF e
  <2>12. CASE e = D
    <3>1. n \notin bubbles'[w]
      BY <2>11, <2>12, EventKinds DEF D
    <3>2. ~In(posted[w], A) /\ \A x \in Window \ {w} : ~In(telling[x], D)
      BY <1>5, <2>1, <2>3, <2>12
    <3>3. Before(posted'[w], A, D)
      BY <1>4, <2>8, <3>2, BeforeQueue
    <3>4. \A v \in Window \ {w} : Before(posted'[v], A, D)
      <4> TAKE v \in Window \ {w}
      <4>1. CASE Up(v)
        BY ZenonT(60), <1>3, <1>4, <2>4, <2>7, <2>12, <4>1, BeforeQueue
      <4>2. CASE ~Up(v)
        <5>1. posted'[v] = <<>> /\ ~In(<<>>, A)
          BY <2>8, <2>9, <4>2 DEF In
        <5> QED
          BY <1>4, <2>9, <4>2, <5>1, BeforeQueue
      <4> QED
        BY <4>1, <4>2
    <3>5. \A v \in Window \ {w} : n \in bubbles'[v] => In(posted'[v], D)
      <4> SUFFICES ASSUME NEW v \in Window \ {w}, n \in bubbles'[v] PROVE In(posted'[v], D)
        OBVIOUS
      <4>1. posted'[v] = Append(posted[v], D)
        BY <2>4, <2>7, <2>9, <2>11, <2>12
      <4> QED
        BY <1>3, <1>4, <4>1, InQueue
    <3>6. \A v \in Window : In(telling'[v], D) => ~In(posted'[v], A)
      BY <1>3, <1>5, <2>3, <2>5, <2>10, <2>12
    <3>7. \A v \in Window : In(telling'[v], D) => \A x \in Window \ {v} : ~In(telling'[x], D)
      BY <1>5, <2>3, <2>5
    <3> QED
      BY <2>5, <3>1, <3>3, <3>4, <3>5, <3>6, <3>7 DEF A, D
  <2>13. CASE e = A
    <3>1. In(telling[w], D)
      BY <2>5, <2>6, <2>13
    <3>2. \A x \in Window \ {w} : ~In(telling[x], D) /\ ~In(telling'[x], D)
      BY <1>5, <2>3, <2>5, <3>1
    <3>3. posted'[w] = posted[w] /\ ~In(posted[w], A)
      BY <1>5, <2>3, <2>8, <3>1
    <3>4. Before(posted'[w], A, D)
      BY <1>4, <3>3, BeforeQueue
    <3> QED
      BY <2>5, <2>6, <2>13, <3>2, <3>3, <3>4 DEF A, D
  <2>14. CASE e # A /\ e # D
    <3>1. n \in bubbles'[w] => n \in bubbles[w]
      <4>1. PICK m \in Note : e = Append1(m) \/ e = Delete1(m)
        BY <1>0, <2>1, EventKinds DEF ScreensTyped
      <4>2. CASE e = Append1(m)
        BY <2>11, <2>14, <4>2, EventKinds DEF A
      <4>3. CASE e = Delete1(m)
        BY <2>11, <4>3, EventKinds
      <4> QED
        BY <4>1, <4>2, <4>3
    <3>2. \A v \in Window : Before(posted[v], A, D) => Before(posted'[v], A, D)
      BY ZenonT(60), <1>4, <2>1, <2>7, <2>8, <2>14, BeforeQueue
    <3> QED
      BY <1>5, <2>3, <2>5, <2>10, <2>11, <2>14, <3>1, <3>2 DEF A, D
  <2> QED
    BY <2>12, <2>13, <2>14
<1>12. CASE Hear(w)
  <2> DEFINE e == Head(posted[w])
  <2>1. posted[w] # <<>> /\ e \in Event /\ In(posted[w], e)
    BY <1>4, <1>12, InQueue DEF Hear
  <2>2. /\ posted' = [posted EXCEPT ![w] = Tail(posted[w])]
        /\ bubbles' = [bubbles EXCEPT ![w] = Applied(bubbles[w], e)]
        /\ crossed \subseteq crossed' /\ UNCHANGED <<entombed, telling>>
    BY <1>12 DEF Hear
  <2>3. n \in entombed \ crossed
    BY <1>2, <2>2
  <2>4. \A v \in Window : \A d : /\ In(posted'[v], d) => In(posted[v], d)
                                 /\ In(posted[v], d) => In(posted'[v], d) \/ (v = w /\ d = e)
    BY <1>0, <1>4, <2>1, <2>2, InQueue DEF ScreensTyped
  <2>5. \A v \in Window : Before(posted[v], A, D) => Before(posted'[v], A, D)
    BY <1>0, <1>4, <2>1, <2>2, BeforeQueue DEF ScreensTyped
  <2>6. e = A /\ Before(posted[w], A, D) => In(posted'[w], D)
    BY <1>0, <1>4, <2>1, <2>2, BeforeQueue DEF ScreensTyped
  <2>7. \A v \in Window : bubbles'[v] = IF v = w THEN Applied(bubbles[w], e) ELSE bubbles[v]
    BY <1>0, <2>2 DEF ScreensTyped
  <2> HIDE DEF e
  <2>8. /\ n \in bubbles'[w] => n \in bubbles[w] \/ e = A
        /\ n \in bubbles'[w] => e # D
    <3>1. CASE e = Removed
      BY <1>3, <2>7, <3>1, EventKinds
    <3>2. ASSUME NEW m \in Note, e = Append1(m)
          PROVE  (n \in bubbles'[w] => n \in bubbles[w] \/ e = A) /\ e # D
      BY <2>7, <3>2, EventKinds DEF A, D
    <3>3. ASSUME NEW m \in Note, e = Delete1(m)
          PROVE  n \in bubbles'[w] => n \in bubbles[w] /\ e # D
      BY <2>7, <3>3, EventKinds DEF D
    <3> QED
      BY <2>1, <3>1, <3>2, <3>3, EventKinds
  <2>9. n \in bubbles'[w] => In(posted'[w], D) \/ \E x \in Window : In(telling'[x], D)
    BY <1>5, <2>2, <2>3, <2>4, <2>6, <2>8
  <2> QED
    BY <1>5, <2>2, <2>3, <2>4, <2>5, <2>7, <2>9 DEF A, D
<1>13. CASE DropConversation(w)
  <2>1. /\ posted' = Posted(w, Removed) /\ bubbles' = [bubbles EXCEPT ![w] = {}]
        /\ crossed \subseteq crossed' /\ UNCHANGED <<entombed, telling>>
    BY <1>13 DEF DropConversation
  <2>2. n \in entombed \ crossed
    BY <1>2, <2>1
  <2>3. \A v \in Window : \A d : /\ In(posted[v], d) => In(posted'[v], d)
                                 /\ In(posted'[v], d) => In(posted[v], d) \/ d = Removed
    BY <1>0, <2>1, PostedIs, EventKinds
  <2>4. \A v \in Window : posted'[v] \in {posted[v], Append(posted[v], Removed)}
    BY ZenonT(60), <1>0, <2>1, PostedIs, EventKinds
  <2>5. \A v \in Window : Before(posted[v], A, D) => Before(posted'[v], A, D)
    <3>1. Removed \in Event /\ Removed # A
      BY <1>3, EventKinds
    <3>2. \A v \in Window : Before(posted[v], A, D) => Before(Append(posted[v], Removed), A, D)
      BY <1>4, <3>1, BeforeQueue
    <3> QED
      BY <2>4, <3>2
  <2>6. \A v \in Window : n \in bubbles'[v] => n \in bubbles[v]
    BY <1>0, <2>1 DEF ScreensTyped
  <2> QED
    BY <1>3, <1>5, <2>1, <2>2, <2>3, <2>5, <2>6 DEF A, D
<1>14. CASE Leave(w)
  <2>1. /\ posted' = [posted EXCEPT ![w] = <<>>] /\ bubbles' = [bubbles EXCEPT ![w] = {}]
        /\ crossed \subseteq crossed' /\ UNCHANGED entombed
    BY <1>14 DEF Leave
  <2>2. telling' = telling \/ (telling' = [telling EXCEPT ![w] = <<>>] /\ ~In(telling[w], A) /\ ~In(telling[w], D))
    BY <1>2, <1>14 DEF Leave, Append1, Delete1, A, D
  <2>3. n \in entombed \ crossed
    BY <1>2, <2>1
  <2>4. \A d : ~In(<<>>, d)
    BY DEF In
  <2>5. Before(<<>>, A, D)
    BY DEF Before
  <2>6. \A v \in Window : /\ In(telling'[v], D) <=> In(telling[v], D)
                          /\ Before(telling'[v], A, D)
    BY SMTT(60), <1>0, <1>5, <2>2, <2>3, <2>4, <2>5 DEF ScreensTyped
  <2>7. \A v \in Window : posted'[v] = IF v = w THEN <<>> ELSE posted[v]
    BY <1>0, <2>1 DEF ScreensTyped
  <2>8. \A v \in Window : n \in bubbles'[v] => v # w /\ n \in bubbles[v]
    BY <1>0, <2>1 DEF ScreensTyped
  <2> QED
    BY <1>5, <2>3, <2>4, <2>5, <2>6, <2>7, <2>8 DEF A, D
<1> QED
  BY <1>1, <1>7, <1>8, <1>9, <1>10, <1>11, <1>12, <1>13, <1>14

\* The invariant of the windows and what they were told holds in every reachable state.
LEMMA ScreensInductive == ScreensSpec => []ScreensInv
<1>1. ASSUME ScreensInit PROVE ScreensInv
  <2>1. <<>> \in Seq(Event) /\ \A d : ~In(<<>>, d)
    BY DEF In
  <2>2. ScreensTyped
    BY <1>1, <2>1 DEF ScreensInit, ScreensTyped, Stages, Up
  <2> QED
    BY <1>1, <2>2 DEF ScreensInit, ScreensInv, TextsShown, DeletesFollow, OffShowsCrossed
<1>2. ASSUME ScreensInv, [ScreensNext]_screenVars PROVE ScreensInv'
  <2>1. CASE ScreensNext
    BY <1>2, <2>1, ScreensTypedKept, TextsShownKept, DeletesFollowKept, OffShowsCrossedKept
       DEF ScreensInv
  <2>2. CASE UNCHANGED screenVars
    BY <1>2, <2>2 DEF screenVars, ScreensInv, ScreensTyped, TextsShown, DeletesFollow,
       OffShowsCrossed,
                      Up, Shown, ToCome
  <2> QED
    BY <1>2, <2>1, <2>2
<1> QED
  BY <1>1, <1>2, PTL DEF ScreensSpec

\* What is saved, told and shown of received texts is what the code can leave.
LEMMA ScreensTypesHold == ScreensSpec => []ScreensTypeOK
<1>1. ASSUME ScreensInv PROVE ScreensTypeOK
  <2>1. \A w \in Window : /\ telling[w] \in Seq(Event) /\ posted[w] \in Seq(Event)
                          /\ ~In(telling[w], Removed)
    BY <1>1 DEF ScreensInv, ScreensTyped
  <2>2. \A w \in Window : /\ \A i \in DOMAIN telling[w] : telling[w][i] \in Event \ {Removed}
                          /\ \A i \in DOMAIN posted[w] : posted[w][i] \in Event
    BY <2>1 DEF In
  <2> QED
    BY <1>1, <2>2 DEF ScreensInv, ScreensTyped, ScreensTypeOK, Stages
<1> QED
  BY <1>1, ScreensInductive, PTL

\* Windows that were told everything show the received texts that are saved
\* (useNightjar.ts).
LEMMA ScreensAgreeHolds == ScreensSpec => []ScreensAgree
<1>1. ASSUME ScreensInv PROVE ScreensAgree
  <2> SUFFICES ASSUME Told, NEW w \in Window, stage[w] = "ready"
               PROVE  /\ saved \ crossed \subseteq bubbles[w]
                      /\ bubbles[w] \intersect (entombed \ crossed) = {}
    BY DEF ScreensAgree
  <2>1. \A x \in Window : \A d : ~In(telling[x], d) /\ ~In(posted[x], d)
    BY DEF Told, In
  <2>2. \A d : ~ToCome(w, d)
    BY <2>1 DEF ToCome
  <2> QED
    BY <1>1, <2>2 DEF ScreensInv, TextsShown, DeletesFollow, Shown
<1> QED
  BY <1>1, ScreensInductive, PTL

-----------------------------------------------------------------------------
(* The user's own message: the row, and what every window makes of it.     *)

Steps == {<<>>, <<"tell", "mark", "drop">>, <<"mark", "drop">>, <<"drop">>,
          <<"mark", "drop", "tell">>, <<"drop", "tell">>, <<"tell">>}
Removals == {<<>>, <<"row">>, <<"row", "outbox">>, <<"outbox">>}
Marks == [by : Page, to : {"sent", "delivered"}, read : OwnRow, written : BOOLEAN]

BubblesTyped ==
  /\ own \in OwnRow \union {NoOwn} /\ {queued, pressed, kept, removed, missed} \subseteq BOOLEAN
  /\ relay \in {"none", "stored", "refused", "taken"}
  /\ marking \subseteq Marks /\ composing \subseteq Page
  /\ failing \in [Page -> Steps] /\ removing \in [Page -> Removals]
  /\ starting \in [Page -> {"off", "connecting", "loading", "ready"}]
  /\ snapshot \in [Page -> OwnRow \union {NoOwn}] /\ bubble \in [Page -> OwnRow \union {NoOwn}]
  /\ mailbox \in [Page -> Seq(Render)]
  /\ \A w \in Page :
       /\ snapshot[w] # NoOwn => starting[w] = "loading"
       /\ ~Running(w) => /\ bubble[w] = NoOwn /\ mailbox[w] = <<>> /\ w \notin composing
                         /\ failing[w] = <<>> /\ removing[w] = <<>>

\* One run writes the row, and it has read what the row still says.
OneWriter ==
  /\ \A k1, k2 \in marking : ~k1.written /\ ~k2.written => k1 = k2
  /\ \A k \in marking : ~k.written =>
       /\ k.read.status \notin {k.to, "delivered"}
       /\ own # NoOwn => k.read.status = own.status /\ (k.read.failed => own.failed)

\* Before it is saved a message is a bubble, and nothing is known of it.
Unsaved ==
  /\ kept => pressed /\ (own = NoOwn <=> removed)
  /\ ~kept => /\ own = NoOwn /\ ~queued /\ relay = "none" /\ marking = {} /\ ~removed
              /\ \A w \in Page : failing[w] = <<>> /\ snapshot[w] = NoOwn
  /\ ~pressed => /\ composing = {}
                 /\ \A w \in Page : bubble[w] = NoOwn /\ mailbox[w] = <<>> /\ removing[w] = <<>>
  /\ composing # {} =>
       /\ pressed /\ ~kept
       /\ ~missed => \A w \in Page : /\ removing[w] = <<>> /\ bubble[w] \in {NoOwn, Fresh}
                                     /\ \A e \in Render : In(mailbox[w], e) => e = AppendedNow

\* What a window shows, or will once it has shown the history it read.
Showing(w) == IF starting[w] = "loading" /\ snapshot[w] # NoOwn THEN snapshot[w] ELSE bubble[w]
HasRead(w) == starting[w] \in {"loading", "ready"}
Deleted == removed \/ \E x \in Page : removing[x] # <<>>

\* A deleted message is shown only where its delete is still to be heard.
GoneEverywhere ==
  /\ \A w \in Page : /\ removing[w] = <<"outbox">> => removed
                     /\ ~In(mailbox[w], AppendedNow)
                     /\ Showing(w) # NoOwn => In(mailbox[w], DeletedNow)

FailureHeard(w) == Showing(w).failed \/ In(mailbox[w], FailedNow)

\* What the row says a window shows, or will be told.
ToldIn(w) ==
  /\ Showing(w) # NoOwn \/ In(mailbox[w], AppendedNow)
  /\ own.failed => FailureHeard(w) \/ \E x \in Page : In(failing[x], "tell")
  /\ (\E x \in Page : failing[x] = <<"mark", "drop">>) => FailureHeard(w)
  /\ own.status # "none" /\ ~own.failed =>
       \/ Showing(w).failed \/ Showing(w).status = own.status
       \/ In(mailbox[w], MovedTo(own.status))
       \/ \E k \in marking : k.written /\ k.to = own.status
RowIsShown == \A w \in Page : HasRead(w) => ToldIn(w)

\* What a window shows or is told the row says, or will.
TrueIn(w) ==
  /\ ~In(mailbox[w], DeletedNow)
  /\ failing[w] \in {<<"drop", "tell">>, <<"tell">>} => own.failed
  /\ FailureHeard(w) => own.failed \/ \E x \in Page : In(failing[x], "mark")
  /\ \A s \in {"sent", "delivered"} :
       Showing(w).status = s \/ In(mailbox[w], MovedTo(s)) => Rank(own.status) >= Rank(s)
ShownIsTrue ==
  /\ \A k \in marking : k.written => Rank(own.status) >= Rank(k.to)
  /\ \A w \in Page : TrueIn(w)

Agreeing ==
  kept /\ ~missed => IF Deleted THEN GoneEverywhere ELSE RowIsShown /\ ShownIsTrue

BubblesInv == BubblesTyped /\ OneWriter /\ Unsaved /\ Agreeing

\* The order of the delivery statuses.
LEMMA Ranks ==
  /\ \A r, s \in Mark : Rank(r) >= Rank(s) <=> r = s \/ s = "none" \/ r = "delivered"
  /\ \A s \in Mark : Rank(s) \in {0, 1, 2}
<1>1. Rank("none") = 0 /\ Rank("sent") = 1 /\ Rank("delivered") = 2
  BY DEF Rank
<1> QED
  BY <1>1 DEF Mark

\* The events of a bubble are distinct, and no bubble is not a row.
LEMMA RenderEvents ==
  /\ {AppendedNow, DeletedNow, FailedNow} \subseteq Render
  /\ \A s \in {"sent", "delivered"} :
       /\ MovedTo(s) \in Render
       /\ MovedTo(s) \notin {AppendedNow, DeletedNow, FailedNow}
       /\ \A r \in {"sent", "delivered"} : MovedTo(r) = MovedTo(s) => r = s
  /\ AppendedNow # DeletedNow /\ AppendedNow # FailedNow /\ DeletedNow # FailedNow
  /\ \A e \in Render : \/ e \in {AppendedNow, DeletedNow, FailedNow}
                       \/ \E s \in {"sent", "delivered"} : e = MovedTo(s)
  /\ \A s : MovedTo(s).status = s
  /\ Fresh \in OwnRow /\ NoOwn \notin OwnRow /\ NoOwn.failed = FALSE /\ NoOwn.status = "absent"
  /\ Fresh.failed = FALSE /\ Fresh.status = "none"
<1>1. /\ AppendedNow.kind = "append" /\ DeletedNow.kind = "delete" /\ FailedNow.kind = "failed"
      /\ \A s : MovedTo(s).kind = "status" /\ MovedTo(s).status = s
  BY DEF AppendedNow, DeletedNow, FailedNow, MovedTo
<1>2. /\ Fresh \in OwnRow /\ NoOwn \notin OwnRow /\ NoOwn.failed = FALSE /\ NoOwn.status = "absent"
      /\ Fresh.failed = FALSE /\ Fresh.status = "none"
  BY DEF Fresh, NoOwn, OwnRow, Mark
<1> QED
  BY <1>1, <1>2 DEF Render

\* What a bubble is after each event.
LEMMA RenderedIs ==
  ASSUME NEW b \in OwnRow \union {NoOwn}
  PROVE  /\ \A e \in Render : Rendered(b, e) \in OwnRow \union {NoOwn}
         /\ Rendered(b, AppendedNow) = (IF b = NoOwn THEN Fresh ELSE b)
         /\ Rendered(b, DeletedNow) = NoOwn
         /\ \A e \in Render : e # AppendedNow /\ b = NoOwn => Rendered(b, e) = NoOwn
         /\ b # NoOwn => /\ Rendered(b, FailedNow) # NoOwn
                         /\ Rendered(b, FailedNow).failed = TRUE
                         /\ Rendered(b, FailedNow).status = b.status
         /\ \A s \in {"sent", "delivered"} : b # NoOwn =>
              /\ Rendered(b, MovedTo(s)) # NoOwn /\ Rendered(b, MovedTo(s)).failed = b.failed
              /\ Rendered(b, MovedTo(s)).status = b.status \/ Rendered(b, MovedTo(s)).status = s
              /\ b.failed \/ b.status = "delivered" \/ Rendered(b, MovedTo(s)).status = s
              /\ b.status = "delivered" => Rendered(b, MovedTo(s)).status = "delivered"
<1>1. Rendered(b, AppendedNow) = (IF b = NoOwn THEN Fresh ELSE b)
  BY DEF Rendered, AppendedNow
<1>2. Rendered(b, DeletedNow) = NoOwn
  BY DEF Rendered, DeletedNow
<1>3. ASSUME NEW e \in Render, e # AppendedNow, b = NoOwn PROVE Rendered(b, e) = NoOwn
  BY <1>3 DEF Rendered, Render, AppendedNow, DeletedNow, FailedNow, MovedTo
<1>4. ASSUME b # NoOwn
      PROVE  /\ Rendered(b, FailedNow) \in OwnRow
             /\ Rendered(b, FailedNow).failed = TRUE
             /\ Rendered(b, FailedNow).status = b.status
  <2>1. Rendered(b, FailedNow) = [b EXCEPT !.failed = TRUE]
    BY <1>4 DEF Rendered, FailedNow
  <2> QED
    BY <1>4, <2>1 DEF OwnRow
<1>5. ASSUME NEW s \in {"sent", "delivered"}, b # NoOwn
      PROVE  /\ Rendered(b, MovedTo(s)) \in OwnRow /\ Rendered(b, MovedTo(s)).failed = b.failed
             /\ Rendered(b, MovedTo(s)).status = b.status \/ Rendered(b, MovedTo(s)).status = s
             /\ b.failed \/ b.status = "delivered" \/ Rendered(b, MovedTo(s)).status = s
             /\ b.status = "delivered" => Rendered(b, MovedTo(s)).status = "delivered"
  <2>1. Rendered(b, MovedTo(s)) =
          IF b.failed \/ b.status = "delivered" THEN b ELSE [b EXCEPT !.status = s]
    BY <1>5 DEF Rendered, MovedTo
  <2>2. b \in OwnRow
    BY <1>5
  <2> QED
    BY <2>1, <2>2 DEF OwnRow, Mark
<1>6. ASSUME NEW e \in Render PROVE Rendered(b, e) \in OwnRow \union {NoOwn}
  <2>1. CASE e = AppendedNow
    BY <1>1, <2>1, RenderEvents
  <2>2. CASE e = DeletedNow
    BY <1>2, <2>2
  <2>3. CASE e # AppendedNow /\ b = NoOwn
    BY <1>3, <2>3
  <2>4. CASE e = FailedNow /\ b # NoOwn
    BY <1>4, <2>4
  <2>5. ASSUME b # NoOwn, NEW s \in {"sent", "delivered"}, e = MovedTo(s)
        PROVE  Rendered(b, e) \in OwnRow \union {NoOwn}
    BY <1>5, <2>5
  <2> QED
    BY <2>1, <2>2, <2>3, <2>4, <2>5, RenderEvents
<1> QED
  BY <1>1, <1>2, <1>3, <1>4, <1>5, <1>6, RenderEvents

\* The window that tells renders at once, every other that runs has the event to hear.
LEMMA TellAllIs ==
  ASSUME BubblesTyped, NEW w \in Page, NEW e \in Render, TellAll(w, e)
  PROVE  /\ bubble' \in [Page -> OwnRow \union {NoOwn}] /\ mailbox' \in [Page -> Seq(Render)]
         /\ bubble'[w] = Rendered(bubble[w], e)
         /\ \A x \in Page : x # w => bubble'[x] = bubble[x]
         /\ \A x \in Page : x = w \/ ~Running(x) => mailbox'[x] = mailbox[x]
         /\ \A x \in Page : \A d : In(mailbox[x], d) => In(mailbox'[x], d)
         /\ \A x \in Page : \A d : In(mailbox'[x], d) => In(mailbox[x], d) \/ (d = e /\ x # w)
         /\ \A x \in Page : x # w /\ Running(x) => In(mailbox'[x], e)
         /\ UNCHANGED <<starting, snapshot>>
<1>1. \A x \in Page : bubble[x] \in OwnRow \union {NoOwn} /\ mailbox[x] \in Seq(Render)
  BY DEF BubblesTyped
<1>2. /\ bubble' = [x \in Page |-> IF x \in {w} THEN Rendered(bubble[x], e) ELSE bubble[x]]
      /\ mailbox' = [x \in Page |-> IF x # w /\ Running(x) THEN Append(mailbox[x], e) ELSE mailbox[x]]
      /\ UNCHANGED <<starting, snapshot>>
  BY DEF TellAll, ShownIn, Cast
<1>3. bubble' \in [Page -> OwnRow \union {NoOwn}]
  BY <1>1, <1>2, RenderedIs
<1>4. \A x \in Page : /\ Append(mailbox[x], e) \in Seq(Render)
                      /\ \A d : In(Append(mailbox[x], e), d) <=> In(mailbox[x], d) \/ d = e
  BY <1>1, InQueue
<1>5. mailbox' \in [Page -> Seq(Render)]
  BY <1>1, <1>2, <1>4
<1> QED
  BY <1>2, <1>3, <1>4, <1>5

\* What is left of giving up, and of deleting, after a step of it.
LEMMA StepsLeft ==
  /\ \A s \in Steps : s # <<>> =>
       /\ Tail(s) \in Steps
       /\ Head(s) = "tell" => (s = <<"tell", "mark", "drop">> /\ Tail(s) = <<"mark", "drop">>)
                             \/ (s = <<"tell">> /\ Tail(s) = <<>>)
       /\ Head(s) = "mark" => (s = <<"mark", "drop">> /\ Tail(s) = <<"drop">>)
                             \/ (s = <<"mark", "drop", "tell">> /\ Tail(s) = <<"drop", "tell">>)
       /\ Head(s) = "drop" => (s = <<"drop">> /\ Tail(s) = <<>>)
                             \/ (s = <<"drop", "tell">> /\ Tail(s) = <<"tell">>)
  /\ \A s \in Removals : s # <<>> =>
       /\ Tail(s) \in Removals /\ Tail(s) \in {<<>>, <<"outbox">>}
       /\ Head(s) # "row" => s = <<"outbox">> /\ Tail(s) = <<>>
<1>1. /\ Tail(<<"tell", "mark", "drop">>) = <<"mark", "drop">> /\ Head(<<"tell", "mark", "drop">>) = "tell"
      /\ Tail(<<"mark", "drop">>) = <<"drop">> /\ Head(<<"mark", "drop">>) = "mark"
  OBVIOUS
<1>2. /\ Tail(<<"mark", "drop", "tell">>) = <<"drop", "tell">> /\ Head(<<"mark", "drop", "tell">>) = "mark"
      /\ Tail(<<"drop", "tell">>) = <<"tell">> /\ Head(<<"drop", "tell">>) = "drop"
  OBVIOUS
<1>3. /\ Tail(<<"tell">>) = <<>> /\ Head(<<"tell">>) = "tell"
      /\ Tail(<<"drop">>) = <<>> /\ Head(<<"drop">>) = "drop"
  OBVIOUS
<1>4. /\ Tail(<<"row">>) = <<>> /\ Head(<<"row">>) = "row"
      /\ Tail(<<"outbox">>) = <<>> /\ Head(<<"outbox">>) = "outbox"
      /\ Tail(<<"row", "outbox">>) = <<"outbox">> /\ Head(<<"row", "outbox">>) = "row"
  OBVIOUS
<1>5. ASSUME NEW s \in Steps, s # <<>>
      PROVE  \/ s = <<"tell", "mark", "drop">> \/ s = <<"mark", "drop">> \/ s = <<"drop">>
             \/ s = <<"mark", "drop", "tell">> \/ s = <<"drop", "tell">> \/ s = <<"tell">>
  BY <1>5 DEF Steps
<1>6. ASSUME NEW s \in Removals, s # <<>>
      PROVE  s = <<"row">> \/ s = <<"row", "outbox">> \/ s = <<"outbox">>
  BY <1>6 DEF Removals
<1>7. /\ {<<"mark", "drop">>, <<"drop">>, <<>>, <<"drop", "tell">>, <<"tell">>} \subseteq Steps
      /\ {<<>>, <<"outbox">>} \subseteq Removals
  BY DEF Steps, Removals
<1>8. ASSUME NEW s \in Steps, s # <<>>
      PROVE  /\ Tail(s) \in Steps
             /\ Head(s) = "tell" => (s = <<"tell", "mark", "drop">> /\ Tail(s) = <<"mark", "drop">>)
                                   \/ (s = <<"tell">> /\ Tail(s) = <<>>)
             /\ Head(s) = "mark" => (s = <<"mark", "drop">> /\ Tail(s) = <<"drop">>)
                                   \/ (s = <<"mark", "drop", "tell">> /\ Tail(s) = <<"drop", "tell">>)
             /\ Head(s) = "drop" => (s = <<"drop">> /\ Tail(s) = <<>>)
                                   \/ (s = <<"drop", "tell">> /\ Tail(s) = <<"tell">>)
  <2>1. CASE s = <<"tell", "mark", "drop">>
    BY <1>1, <1>7, <2>1
  <2>2. CASE s = <<"mark", "drop">>
    BY <1>1, <1>7, <2>2
  <2>3. CASE s = <<"mark", "drop", "tell">>
    BY <1>2, <1>7, <2>3
  <2>4. CASE s = <<"drop", "tell">>
    BY <1>2, <1>7, <2>4
  <2>5. CASE s = <<"tell">>
    BY <1>3, <1>7, <2>5
  <2>6. CASE s = <<"drop">>
    BY <1>3, <1>7, <2>6
  <2> QED
    BY <1>5, <1>8, <2>1, <2>2, <2>3, <2>4, <2>5, <2>6
<1>9. ASSUME NEW s \in Removals, s # <<>>
      PROVE  /\ Tail(s) \in Removals /\ Tail(s) \in {<<>>, <<"outbox">>}
             /\ Head(s) # "row" => s = <<"outbox">> /\ Tail(s) = <<>>
  BY <1>4, <1>6, <1>7, <1>9
<1> QED
  BY <1>8, <1>9

\* Every step keeps the message, its tasks and its bubbles in the states the code can leave.
LEMMA BubblesTypedKept ==
  ASSUME BubblesTyped, BubblesNext PROVE BubblesTyped'
<1> USE DEF BubblesTyped, Running
<1>0. Fresh \in OwnRow /\ <<>> \in Steps /\ <<>> \in Removals /\ <<>> \in Seq(Render)
  BY RenderEvents DEF Steps, Removals
<1>1. ASSUME NEW w \in Page, StartPage(w) PROVE BubblesTyped'
  BY <1>1 DEF StartPage, ownVars, taskVars, bubblePast
<1>2. ASSUME NEW w \in Page, ReadHistory(w) PROVE BubblesTyped'
  <2>1. missed' \in BOOLEAN
    BY <1>2 DEF ReadHistory, ToldUnwritten
  <2> QED
    BY <1>2, <2>1 DEF ReadHistory, ownVars, taskVars
<1>3. ASSUME NEW w \in Page, ShowHistory(w) PROVE BubblesTyped'
  BY <1>3 DEF ShowHistory, ownVars, taskVars, bubblePast
<1>4. ASSUME NEW w \in Page, HearRender(w) PROVE BubblesTyped'
  <2>1. mailbox[w] # <<>> /\ Tail(mailbox[w]) \in Seq(Render) /\ Head(mailbox[w]) \in Render
    BY <1>4, InQueue DEF HearRender
  <2>2. bubble' = [bubble EXCEPT ![w] = Rendered(bubble[w], Head(mailbox[w]))]
    BY <1>4 DEF HearRender, ShownIn
  <2>3. Rendered(bubble[w], Head(mailbox[w])) \in OwnRow \union {NoOwn}
    BY <2>1, RenderedIs
  <2>4. missed' \in BOOLEAN /\ mailbox' = [mailbox EXCEPT ![w] = Tail(mailbox[w])]
    BY <1>4 DEF HearRender, Misses
  <2>5. UNCHANGED <<own, queued, relay, marking, failing, removing, composing, starting, snapshot, pressed, kept, removed>>
    BY <1>4 DEF HearRender, ownVars, taskVars
  <2> QED
    BY <2>1, <2>2, <2>3, <2>4, <2>5
<1>5. ASSUME NEW w \in Page, NEW e \in Render, TellAll(w, e), Running(w),
             UNCHANGED <<own, queued, relay>>, marking' \subseteq Marks,
             {kept', removed', missed', pressed'} \subseteq BOOLEAN, composing' \subseteq composing \union {w},
             failing' \in [Page -> Steps], removing' \in [Page -> Removals],
             \A x \in Page \ {w} : failing'[x] = failing[x] /\ removing'[x] = removing[x]
      PROVE  BubblesTyped'
  <2>1. /\ bubble' \in [Page -> OwnRow \union {NoOwn}] /\ mailbox' \in [Page -> Seq(Render)]
        /\ \A x \in Page : x # w => bubble'[x] = bubble[x]
        /\ \A x \in Page : x = w \/ ~Running(x) => mailbox'[x] = mailbox[x]
        /\ UNCHANGED <<starting, snapshot>>
    BY <1>5, TellAllIs
  <2> QED
    BY <1>5, <2>1
<1>6. ASSUME NEW w \in Page, Press(w) PROVE BubblesTyped'
  <2>1. UNCHANGED <<own, queued, relay, marking, failing, removing, kept, removed, missed>> /\ TellAll(w, AppendedNow)
        /\ pressed' \in BOOLEAN /\ composing' \subseteq composing \union {w} /\ Running(w)
    BY <1>6 DEF Press, ownVars
  <2> QED
    BY <2>1, <1>5, RenderEvents
<1>7. ASSUME NEW w \in Page, SaveOwn(w) PROVE BubblesTyped'
  <2>1. missed' \in BOOLEAN
    BY <1>7 DEF SaveOwn
  <2> QED
    BY <1>0, <1>7, <2>1 DEF SaveOwn, windowVars
<1>8. ASSUME NEW w \in Page, SendFails(w) PROVE BubblesTyped'
  <2>1. UNCHANGED <<own, queued, relay, marking, failing, removing, pressed, kept, removed, missed>> /\ TellAll(w, FailedNow)
        /\ composing' \subseteq composing \union {w} /\ Running(w)
    BY <1>8 DEF SendFails, ownVars, bubblePast
  <2> QED
    BY <2>1, <1>5, RenderEvents
<1>9. ASSUME NEW w \in Page, NEW s \in {"sent", "delivered"}, ReadMark(w, s) PROVE BubblesTyped'
  <2>1. [by |-> w, to |-> s, read |-> own, written |-> FALSE] \in Marks
    BY <1>9 DEF ReadMark, Marks
  <2> QED
    BY <1>9, <2>1 DEF ReadMark, ownVars, windowVars, bubblePast
<1>10. ASSUME NEW w \in Page, GivesUp(w) PROVE BubblesTyped'
  BY <1>10 DEF GivesUp, Steps, ownVars, windowVars, bubblePast
<1>11. \A s \in Steps : s # <<>> => Tail(s) \in Steps
  BY StepsLeft
<1>12. ASSUME NEW w \in Page, HistoryMarkFailed(w) PROVE BubblesTyped'
  <2>1. failing' \in [Page -> Steps] /\ \A x \in Page \ {w} : failing'[x] = failing[x]
    BY <1>11, <1>12 DEF HistoryMarkFailed, GivingUp
  <2>2. failing[w] # <<>>
    BY <1>12 DEF HistoryMarkFailed, GivingUp
  <2>3. own' \in OwnRow \union {NoOwn}
    BY <1>12 DEF HistoryMarkFailed, OwnRow
  <2> QED
    BY <1>12, <2>1, <2>2, <2>3 DEF HistoryMarkFailed, GivingUp, windowVars
<1>13. ASSUME NEW w \in Page, DropOutbox(w) PROVE BubblesTyped'
  <2>1. failing' \in [Page -> Steps] /\ \A x \in Page \ {w} : failing'[x] = failing[x]
    BY <1>11, <1>13 DEF DropOutbox, GivingUp
  <2>2. failing[w] # <<>>
    BY <1>13 DEF DropOutbox, GivingUp
  <2> QED
    BY <1>13, <2>1, <2>2 DEF DropOutbox, GivingUp, windowVars
<1>14. ASSUME NEW w \in Page, TellFailed(w) PROVE BubblesTyped'
  <2>1. failing' \in [Page -> Steps] /\ \A x \in Page \ {w} : failing'[x] = failing[x]
    BY <1>11, <1>14 DEF TellFailed, GivingUp
  <2>2. failing[w] # <<>> /\ UNCHANGED <<own, queued, relay, marking, removing, composing, pressed, kept, removed>>
        /\ TellAll(w, FailedNow) /\ missed' \in BOOLEAN
    BY <1>14 DEF TellFailed, GivingUp, ownVars, Misses
  <2> QED
    BY <2>1, <2>2, <1>5, RenderEvents
<1>15. ASSUME NEW w \in Page, DeleteMessage(w) PROVE BubblesTyped'
  <2>1. removing' \in [Page -> Removals] /\ \A x \in Page \ {w} : removing'[x] = removing[x]
    BY <1>15 DEF DeleteMessage, Removals
  <2>2. Running(w) /\ UNCHANGED <<own, queued, relay, marking, failing, composing, pressed, kept, removed>>
        /\ TellAll(w, DeletedNow) /\ missed' \in BOOLEAN
    BY <1>15 DEF DeleteMessage, ownVars
  <2> QED
    BY <2>1, <2>2, <1>5, RenderEvents
<1>16. ASSUME NEW w \in Page, RemoveStep(w) PROVE BubblesTyped'
  <2>1. removing' \in [Page -> Removals] /\ \A x \in Page \ {w} : removing'[x] = removing[x]
    BY <1>16, StepsLeft DEF RemoveStep
  <2>2. removing[w] # <<>>
    BY <1>16 DEF RemoveStep
  <2>3. own' \in {own, NoOwn} /\ queued' \in {queued, FALSE} /\ removed' \in BOOLEAN
    BY <1>16 DEF RemoveStep
  <2> QED
    BY <1>16, <2>1, <2>2, <2>3 DEF RemoveStep, windowVars
<1>17. ASSUME NEW w \in Page, ClosePage(w) PROVE BubblesTyped'
  BY <1>0, <1>17 DEF ClosePage, ownVars
<1>18. ASSUME NEW k \in marking, WriteMark(k) PROVE BubblesTyped'
  <2>1. k \in Marks
    OBVIOUS
  <2>2. [k EXCEPT !.written = TRUE] \in Marks
    BY <2>1 DEF Marks
  <2>3. [k.read EXCEPT !.status = k.to] \in OwnRow
    BY <2>1 DEF Marks, OwnRow, Mark
  <2> DEFINE n == [k.read EXCEPT !.status = k.to]
  <2> HIDE DEF n
  <2>4. own' = HistoryUpdate(own, n) /\ n \in OwnRow
    BY <1>18, <2>3 DEF WriteMark, n
  <2>5. own' \in OwnRow \union {NoOwn}
    BY <2>4 DEF HistoryUpdate, OwnRow
  <2> QED
    BY <1>18, <2>2, <2>5 DEF WriteMark, windowVars, bubblePast
<1>19. ASSUME NEW k \in marking, TellMark(k) PROVE BubblesTyped'
  <2>1. k \in Marks
    OBVIOUS
  <2>2. k.by \in Page /\ MovedTo(k.to) \in Render
    BY <2>1, RenderEvents DEF Marks
  <2>3. /\ bubble' \in [Page -> OwnRow \union {NoOwn}] /\ mailbox' \in [Page -> Seq(Render)]
        /\ bubble'[k.by] = Rendered(bubble[k.by], MovedTo(k.to))
        /\ \A x \in Page : x # k.by => bubble'[x] = bubble[x]
        /\ \A x \in Page : x = k.by \/ ~Running(x) => mailbox'[x] = mailbox[x]
        /\ UNCHANGED <<starting, snapshot>>
    BY <1>19, <2>2, TellAllIs DEF TellMark
  <2>4. bubble[k.by] = NoOwn => bubble'[k.by] = NoOwn
    <3>1. PICK e \in Render : e = MovedTo(k.to)
      BY <2>2
    <3>2. e # AppendedNow
      BY <2>1, <3>1, RenderEvents DEF Marks
    <3>3. Rendered(NoOwn, e) = NoOwn
      BY <3>2, RenderedIs
    <3> QED
      BY <2>3, <3>1, <3>3
  <2>5. missed' \in BOOLEAN
    BY <1>19 DEF TellMark, Misses
  <2>6. UNCHANGED <<own, queued, relay, failing, removing, composing, pressed, kept, removed>> /\ marking' \subseteq marking
    BY <1>19 DEF TellMark, ownVars
  <2> QED
    BY <2>2, <2>3, <2>4, <2>5, <2>6
<1>20. CASE RelayAnswers
  BY <1>20 DEF RelayAnswers, ownVars, taskVars, windowVars, bubblePast
<1>21. CASE RemoveOutbox
  BY <1>21 DEF RemoveOutbox, taskVars, windowVars, bubblePast
<1> QED
  BY <1>1, <1>2, <1>3, <1>4, <1>6, <1>7, <1>8, <1>9, <1>10, <1>12, <1>13, <1>14, <1>15, <1>16,
     <1>17, <1>18, <1>19, <1>20, <1>21 DEF BubblesNext

\* Every step keeps the lock: one run writes, and the row still has the status it read.
LEMMA OneWriterKept ==
  ASSUME BubblesTyped, OneWriter, Unsaved, BubblesNext PROVE OneWriter'
<1>1. ASSUME marking' \subseteq marking, own' = NoOwn \/ UNCHANGED own PROVE OneWriter'
  BY <1>1 DEF OneWriter
<1>2. ASSUME marking = {}, marking' = {} PROVE OneWriter'
  BY <1>2 DEF OneWriter
<1>3. ASSUME NEW w \in Page, NEW s \in {"sent", "delivered"}, ReadMark(w, s) PROVE OneWriter'
  <2> DEFINE m == [by |-> w, to |-> s, read |-> own, written |-> FALSE]
  <2>1. /\ marking' = marking \union {m}
        /\ own' = own /\ own.status \notin {s, "delivered"} /\ \A k \in marking : k.written
    BY <1>3 DEF ReadMark, ConversationFree, ownVars
  <2>2. m.to = s /\ m.read = own
    OBVIOUS
  <2> HIDE DEF m
  <2>3. \A k \in marking' : ~k.written => k = m
    BY <2>1
  <2> QED
    BY <2>1, <2>2, <2>3 DEF OneWriter
<1>4. ASSUME NEW w \in Page, HistoryMarkFailed(w) PROVE OneWriter'
  <2>1. UNCHANGED marking /\ own' = IF own = NoOwn THEN NoOwn ELSE [own EXCEPT !.failed = TRUE]
    BY <1>4 DEF HistoryMarkFailed, GivingUp
  <2>2. own # NoOwn => own'.failed = TRUE /\ own'.status = own.status
    BY <2>1 DEF BubblesTyped, OwnRow
  <2> QED
    BY <2>1, <2>2 DEF OneWriter
<1>5. ASSUME NEW k \in marking, WriteMark(k) PROVE OneWriter'
  <2>1. k \in Marks
    BY DEF BubblesTyped
  <2>2. [k EXCEPT !.written = TRUE].written = TRUE
    BY <2>1 DEF Marks
  <2>3. ~k.written /\ marking' = (marking \ {k}) \union {[k EXCEPT !.written = TRUE]}
    BY <1>5 DEF WriteMark
  <2>4. \A j \in marking : ~j.written => j = k
    BY <2>3 DEF OneWriter
  <2>5. \A j \in marking' : j.written
    BY <2>2, <2>3, <2>4
  <2>6. \A j \in marking' : ~j.written => FALSE
    BY <2>5
  <2> QED
    BY <2>6, Zenon DEF OneWriter
<1>6. ASSUME NEW w \in Page, SaveOwn(w) PROVE OneWriter'
  BY <1>2, <1>6 DEF SaveOwn, Unsaved
<1>7. ASSUME NEW w \in Page, RemoveStep(w) PROVE OneWriter'
  BY <1>1, <1>7 DEF RemoveStep
<1>8. ASSUME NEW w \in Page, ClosePage(w) PROVE OneWriter'
  BY <1>1, <1>8 DEF ClosePage, ownVars
<1>9. ASSUME NEW w \in Page, \/ StartPage(w) \/ ReadHistory(w) \/ ShowHistory(w) \/ HearRender(w)
                             \/ Press(w) \/ SendFails(w) \/ GivesUp(w) \/ DropOutbox(w) \/ TellFailed(w)
                             \/ DeleteMessage(w)
      PROVE  OneWriter'
  <2>1. UNCHANGED <<own, marking>>
    BY <1>9 DEF StartPage, ReadHistory, ShowHistory, HearRender, Press, SendFails, GivesUp,
       DropOutbox,
                TellFailed, DeleteMessage, GivingUp, ownVars, taskVars
  <2> QED
    BY <1>1, <2>1
<1>10. ASSUME NEW k \in marking, TellMark(k) PROVE OneWriter'
  BY <1>1, <1>10 DEF TellMark, ownVars
<1>11. CASE RelayAnswers \/ RemoveOutbox
  BY <1>1, <1>11 DEF RelayAnswers, RemoveOutbox, ownVars, taskVars
<1> QED
  BY <1>3, <1>4, <1>5, <1>6, <1>7, <1>8, <1>9, <1>10, <1>11 DEF BubblesNext

\* Every step keeps a message that is not saved free of status, marks and failures.
LEMMA UnsavedKept ==
  ASSUME BubblesTyped, OneWriter, Unsaved, BubblesNext PROVE Unsaved'
<1> USE DEF BubblesTyped
<1>0. BubblesTyped'
  BY BubblesTypedKept
<1>1. ASSUME NEW w \in Page, StartPage(w) PROVE Unsaved'
  BY <1>1 DEF StartPage, Unsaved, ownVars, taskVars, bubblePast
<1>2. ASSUME NEW w \in Page, ReadHistory(w) PROVE Unsaved'
  BY <1>2 DEF ReadHistory, Unsaved, ownVars, taskVars
<1>3. ASSUME NEW w \in Page, ShowHistory(w) PROVE Unsaved'
  BY <1>3 DEF ShowHistory, Unsaved, ownVars, taskVars, bubblePast
<1>4. ASSUME NEW w \in Page, HearRender(w) PROVE Unsaved'
  <2> DEFINE e == Head(mailbox[w])
  <2>1. /\ mailbox[w] # <<>> /\ e \in Render /\ In(mailbox[w], e)
        /\ \A d : In(Tail(mailbox[w]), d) => In(mailbox[w], d)
    BY <1>4, InQueue DEF HearRender
  <2>2. /\ bubble' = [bubble EXCEPT ![w] = Rendered(bubble[w], e)]
        /\ mailbox' = [mailbox EXCEPT ![w] = Tail(mailbox[w])]
        /\ missed' = (missed \/ Misses(w, e))
        /\ UNCHANGED <<own, queued, relay, marking, failing, removing, composing, snapshot, pressed, kept, removed>>
    BY <1>4 DEF HearRender, ShownIn, ownVars, taskVars
  <2> HIDE DEF e
  <2>3. pressed
    BY <2>1 DEF Unsaved
  <2>4. ASSUME composing # {}, ~missed' PROVE \A x \in Page : bubble'[x] \in {NoOwn, Fresh}
    <3>1. e = AppendedNow /\ bubble[w] \in {NoOwn, Fresh}
      BY <2>1, <2>2, <2>4 DEF Unsaved, Misses
    <3>2. Rendered(bubble[w], e) = IF bubble[w] = NoOwn THEN Fresh ELSE bubble[w]
      BY <3>1, RenderedIs
    <3> QED
      BY <2>2, <2>4, <3>1, <3>2 DEF Unsaved, Misses
  <2>5. ASSUME composing # {}, ~missed' 
        PROVE  \A x \in Page : \A d \in Render : In(mailbox'[x], d) => d = AppendedNow
    BY <2>1, <2>2, <2>5 DEF Unsaved, Misses
  <2>6. ~missed' => ~missed
    BY <2>2 DEF Misses
  <2> QED
    BY <2>2, <2>3, <2>4, <2>5, <2>6 DEF Unsaved
<1>5. ASSUME NEW w \in Page, Press(w) PROVE Unsaved'
  <2>1. TellAll(w, AppendedNow) /\ AppendedNow \in Render
    BY <1>5, RenderEvents DEF Press
  <2>2. /\ ~pressed /\ pressed' = TRUE
        /\ UNCHANGED <<own, queued, relay, marking, failing, removing, kept, removed, missed, snapshot>>
    BY <1>5 DEF Press, ownVars, TellAll
  <2>3. ~kept /\ \A x \in Page : bubble[x] = NoOwn /\ mailbox[x] = <<>> /\ removing[x] = <<>>
    BY <2>2 DEF Unsaved
  <2>6. /\ bubble'[w] = Rendered(bubble[w], AppendedNow)
        /\ \A x \in Page : x # w => bubble'[x] = bubble[x]
        /\ \A x \in Page : \A d : In(mailbox'[x], d) => In(mailbox[x], d) \/ d = AppendedNow
    BY <2>1, TellAllIs
  <2>7. Rendered(NoOwn, AppendedNow) = Fresh
    BY RenderedIs
  <2>4. bubble'[w] = Fresh /\ \A x \in Page : x # w => bubble'[x] = NoOwn
    BY <2>3, <2>6, <2>7
  <2>5. \A x \in Page : \A d : In(mailbox'[x], d) => d = AppendedNow
    <3>1. \A d : ~In(<<>>, d)
      BY DEF In
    <3> QED
      BY <2>3, <2>6, <3>1
  <2> QED
    BY <2>2, <2>3, <2>4, <2>5 DEF Unsaved
<1>6. ASSUME NEW w \in Page, SaveOwn(w) PROVE Unsaved'
  BY <1>6, RenderEvents DEF SaveOwn, Unsaved, windowVars
<1>7. ASSUME NEW w \in Page, NEW e \in Render, TellAll(w, e), pressed', kept' = kept,
             UNCHANGED <<own, queued, relay, failing, removed>>,
             marking' \subseteq marking, composing' = {}
      PROVE  Unsaved'
  <2>1. UNCHANGED snapshot
    BY <1>7 DEF TellAll
  <2> QED
    BY <1>7, <2>1 DEF Unsaved
<1>8. ASSUME NEW w \in Page, SendFails(w) PROVE Unsaved'
  <2>1. TellAll(w, FailedNow) /\ composing' = {} /\ kept' = kept /\ pressed'
        /\ UNCHANGED <<own, queued, relay, marking, failing, removed>>
    BY <1>8 DEF SendFails, ownVars, bubblePast, Unsaved
  <2> QED
    BY <2>1, <1>7, RenderEvents
<1>9. ASSUME NEW w \in Page, NEW s \in {"sent", "delivered"}, ReadMark(w, s) PROVE Unsaved'
  <2>1. own # NoOwn /\ UNCHANGED <<own, queued, relay, failing, removing, composing, starting, snapshot,
                                   bubble, mailbox, pressed, kept, removed, missed>>
    BY <1>9 DEF ReadMark, ownVars, windowVars, bubblePast
  <2>2. kept
    BY <2>1 DEF Unsaved
  <2> QED
    BY <2>1, <2>2 DEF Unsaved
<1>10. ASSUME NEW w \in Page, kept, UNCHANGED <<removing, pressed, kept, removed, composing>>,
              own' = NoOwn <=> own = NoOwn PROVE Unsaved'
  BY <1>10 DEF Unsaved
<1>11. ASSUME NEW w \in Page, GivesUp(w) PROVE Unsaved'
  <2>1. queued /\ UNCHANGED <<removing, pressed, kept, removed, composing, own>>
    BY <1>11 DEF GivesUp, ownVars, bubblePast
  <2> QED
    BY <2>1, <1>10 DEF Unsaved
<1>12. ASSUME NEW w \in Page, HistoryMarkFailed(w) \/ DropOutbox(w) \/ TellFailed(w) PROVE Unsaved'
  <2>1. failing[w] # <<>> /\ UNCHANGED <<removing, pressed, kept, removed, composing>>
    BY <1>12 DEF HistoryMarkFailed, DropOutbox, TellFailed, GivingUp
  <2>2. own' = IF own = NoOwn \/ own' = own THEN own ELSE [own EXCEPT !.failed = TRUE]
    BY <1>12 DEF HistoryMarkFailed, DropOutbox, TellFailed, ownVars
  <2>3. own' = NoOwn <=> own = NoOwn
    <3>1. own # NoOwn => [own EXCEPT !.failed = TRUE] \in OwnRow
      BY DEF OwnRow
    <3> QED
      BY <2>2, <3>1, RenderEvents
  <2> QED
    BY <2>1, <2>3, <1>10 DEF Unsaved
<1>13. ASSUME NEW w \in Page, DeleteMessage(w) PROVE Unsaved'
  <2>1. /\ UNCHANGED <<own, queued, relay, marking, failing, composing, pressed, kept, removed>>
        /\ bubble[w] # NoOwn /\ (composing # {} => missed') /\ UNCHANGED snapshot
    BY <1>13 DEF DeleteMessage, ownVars, TellAll
  <2>2. pressed
    BY <2>1 DEF Unsaved
  <2> QED
    BY <2>1, <2>2 DEF Unsaved
<1>14. ASSUME NEW w \in Page, RemoveStep(w) PROVE Unsaved'
  <2>1. /\ removing[w] # <<>> /\ UNCHANGED <<relay, marking, failing, composing, starting, snapshot, bubble, mailbox,
                                             pressed, kept, missed>>
        /\ \/ own' = NoOwn /\ removed' = (removed \/ kept) /\ queued' = queued
           \/ queued' = FALSE /\ UNCHANGED <<own, removed>>
    BY <1>14 DEF RemoveStep, windowVars
  <2>2. pressed /\ (composing # {} => missed)
    BY <2>1 DEF Unsaved
  <2> QED
    BY <2>1, <2>2 DEF Unsaved
<1>15. ASSUME NEW w \in Page, ClosePage(w) PROVE Unsaved'
  <2>1. /\ UNCHANGED <<own, queued, relay, pressed, kept, removed>> /\ marking' \subseteq marking
        /\ composing' \subseteq composing /\ (missed => missed')
        /\ \A x \in Page : /\ bubble'[x] \in {bubble[x], NoOwn} /\ mailbox'[x] \in {mailbox[x], <<>>}
                           /\ failing'[x] \in {failing[x], <<>>} /\ removing'[x] \in {removing[x], <<>>}
                           /\ snapshot'[x] \in {snapshot[x], NoOwn}
    BY <1>15 DEF ClosePage, ownVars
  <2>8. \A d : ~In(<<>>, d)
    BY DEF In
  <2>2. \A x \in Page : \A d : In(mailbox'[x], d) => In(mailbox[x], d)
    BY <2>1, <2>8
  <2>3. ~kept => /\ own' = NoOwn /\ ~queued' /\ relay' = "none" /\ marking' = {} /\ ~removed'
                 /\ \A x \in Page : failing'[x] = <<>> /\ snapshot'[x] = NoOwn
    BY <2>1 DEF Unsaved
  <2>4. ~pressed => /\ composing' = {}
                    /\ \A x \in Page : bubble'[x] = NoOwn /\ mailbox'[x] = <<>> /\ removing'[x] = <<>>
    BY <2>1 DEF Unsaved
  <2>5. ASSUME composing' # {}, ~missed'
        PROVE  \A x \in Page : /\ removing'[x] = <<>> /\ bubble'[x] \in {NoOwn, Fresh}
                               /\ \A e \in Render : In(mailbox'[x], e) => e = AppendedNow
    BY <2>1, <2>2, <2>5 DEF Unsaved
  <2>6. composing' # {} => pressed /\ ~kept
    BY <2>1 DEF Unsaved
  <2>7. kept => pressed /\ (own = NoOwn <=> removed)
    BY DEF Unsaved
  <2> QED
    BY <2>1, <2>3, <2>4, <2>5, <2>6, <2>7 DEF Unsaved
<1>16. ASSUME NEW k \in marking, WriteMark(k) PROVE Unsaved'
  <2>1. kept
    BY DEF Unsaved
  <2>2. UNCHANGED <<removing, pressed, kept, removed, composing>>
    BY <1>16 DEF WriteMark, bubblePast
  <2> DEFINE n == [k.read EXCEPT !.status = k.to]
  <2>3. k \in Marks
    OBVIOUS
  <2>4. n \in OwnRow
    BY <2>3 DEF Marks, OwnRow, Mark
  <2> HIDE DEF n
  <2>5. own' = IF own = NoOwn THEN NoOwn ELSE [n EXCEPT !.failed = n.failed \/ own.failed]
    BY <1>16 DEF WriteMark, HistoryUpdate, n
  <2>6. own # NoOwn => [n EXCEPT !.failed = n.failed \/ own.failed] \in OwnRow
    BY <2>4 DEF OwnRow
  <2>7. own' = NoOwn <=> own = NoOwn
    BY <2>5, <2>6, RenderEvents
  <2>8. UNCHANGED <<queued, relay, failing, starting, snapshot, bubble, mailbox>> /\ composing = {}
    BY <1>16, <2>1 DEF WriteMark, windowVars, Unsaved
  <2> QED
    BY <2>1, <2>2, <2>7, <2>8 DEF Unsaved
<1>17. ASSUME NEW k \in marking, TellMark(k) PROVE Unsaved'
  <2>1. kept /\ composing = {} /\ pressed
    BY DEF Unsaved
  <2>2. UNCHANGED <<own, queued, relay, failing, removing, composing, pressed, kept, removed>>
    BY <1>17 DEF TellMark, ownVars
  <2> QED
    BY <2>1, <2>2 DEF Unsaved
<1>18. CASE RelayAnswers
  <2>1. kept
    BY <1>18 DEF RelayAnswers, Unsaved
  <2>2. UNCHANGED <<own, removing, pressed, kept, removed, composing>> /\ composing = {}
    BY <1>18, <2>1 DEF RelayAnswers, ownVars, taskVars, bubblePast, Unsaved
  <2> QED
    BY <2>1, <2>2 DEF Unsaved
<1>19. CASE RemoveOutbox
  <2>1. kept
    BY <1>19 DEF RemoveOutbox, Unsaved
  <2>2. UNCHANGED <<own, removing, pressed, kept, removed, composing>> /\ composing = {}
    BY <1>19, <2>1 DEF RemoveOutbox, ownVars, taskVars, bubblePast, Unsaved
  <2> QED
    BY <2>1, <2>2 DEF Unsaved
<1> QED
  BY <1>1, <1>2, <1>3, <1>4, <1>5, <1>6, <1>8, <1>9, <1>11, <1>12, <1>13, <1>14, <1>15, <1>16,
     <1>17, <1>18, <1>19 DEF BubblesNext

\* Once its deletion began a message is shown only where the delete is still to be heard.
LEMMA GoneKept ==
  ASSUME BubblesTyped, OneWriter, Unsaved, Agreeing, BubblesNext, kept', ~missed', Deleted \/ Deleted'
  PROVE  Deleted' /\ GoneEverywhere'
<1>0. /\ \A x \in Page : bubble[x] \in OwnRow \union {NoOwn} /\ mailbox[x] \in Seq(Render)
      /\ removing \in [Page -> Removals] /\ starting \in [Page -> {"off", "connecting", "loading", "ready"}]
      /\ bubble \in [Page -> OwnRow \union {NoOwn}] /\ snapshot \in [Page -> OwnRow \union {NoOwn}]
      /\ mailbox \in [Page -> Seq(Render)]
      /\ \A x \in Page : /\ snapshot[x] # NoOwn => starting[x] = "loading"
                         /\ ~Running(x) => bubble[x] = NoOwn /\ mailbox[x] = <<>>
  BY DEF BubblesTyped
<1>1. ASSUME ~missed, kept, Deleted
      PROVE  /\ \A x \in Page : /\ removing[x] = <<"outbox">> => removed
                                /\ ~In(mailbox[x], AppendedNow)
                                /\ Showing(x) # NoOwn => In(mailbox[x], DeletedNow)
             /\ removed \/ \E x \in Page : removing[x] # <<>>
  BY <1>1 DEF Agreeing, GoneEverywhere, Deleted
<1>2. ASSUME ~missed, kept, Deleted, UNCHANGED <<removed, removing>>,
             \A x \in Page : /\ ~In(mailbox'[x], AppendedNow)
                             /\ (Showing(x))' # NoOwn => In(mailbox'[x], DeletedNow)
      PROVE  Deleted' /\ GoneEverywhere'
  BY <1>1, <1>2 DEF GoneEverywhere, Deleted
<1>3. ASSUME UNCHANGED <<removed, removing>> PROVE Deleted
  BY <1>3 DEF Deleted
<1>4. ASSUME UNCHANGED <<starting, snapshot, bubble, mailbox, removed, removing, kept, missed>>
      PROVE  Deleted' /\ GoneEverywhere'
  <2>1. ~missed /\ kept /\ Deleted
    BY <1>3, <1>4
  <2>2. \A x \in Page : (Showing(x))' = Showing(x)
    BY <1>4 DEF Showing
  <2> QED
    BY <1>1, <1>2, <1>4, <2>1, <2>2
<1>5. ASSUME NEW w \in Page, StartPage(w) PROVE Deleted' /\ GoneEverywhere'
  <2>1. /\ UNCHANGED <<snapshot, bubble, mailbox, removed, removing, kept, missed>>
        /\ starting[w] = "off" /\ starting' = [starting EXCEPT ![w] = "connecting"]
    BY <1>5 DEF StartPage, taskVars, bubblePast
  <2>2. ~missed /\ kept /\ Deleted
    BY <1>3, <2>1
  <2>3. \A x \in Page : (Showing(x))' = Showing(x)
    BY <1>0, <2>1 DEF Showing
  <2> QED
    BY <1>1, <1>2, <2>1, <2>2, <2>3
<1>6. ASSUME NEW w \in Page, ReadHistory(w) PROVE Deleted' /\ GoneEverywhere'
  <2>1. /\ UNCHANGED <<bubble, mailbox, removed, removing, kept>> /\ missed' = (missed \/ ToldUnwritten)
        /\ starting[w] = "connecting" /\ starting' = [starting EXCEPT ![w] = "loading"]
        /\ snapshot' = [snapshot EXCEPT ![w] = own]
    BY <1>6 DEF ReadHistory, taskVars
  <2>2. ~missed /\ kept /\ Deleted /\ ~ToldUnwritten
    BY <1>3, <2>1
  <2>3. own = NoOwn
    BY <1>1, <2>2 DEF ToldUnwritten, Unsaved
  <2>4. \A x \in Page : (Showing(x))' = Showing(x)
    BY <1>0, <2>1, <2>3 DEF Showing
  <2> QED
    BY <1>1, <1>2, <2>1, <2>2, <2>4
<1>7. ASSUME NEW w \in Page, ShowHistory(w) PROVE Deleted' /\ GoneEverywhere'
  <2>1. /\ UNCHANGED <<mailbox, removed, removing, kept, missed>>
        /\ starting[w] = "loading" /\ starting' = [starting EXCEPT ![w] = "ready"]
        /\ bubble' = [bubble EXCEPT ![w] = IF snapshot[w] # NoOwn THEN snapshot[w] ELSE @]
        /\ snapshot' = [snapshot EXCEPT ![w] = NoOwn]
    BY <1>7 DEF ShowHistory, taskVars, bubblePast
  <2>2. ~missed /\ kept /\ Deleted
    BY <1>3, <2>1
  <2>3. \A x \in Page : (Showing(x))' = Showing(x)
    BY <1>0, <2>1 DEF Showing
  <2> QED
    BY <1>1, <1>2, <2>1, <2>2, <2>3
<1>8. ASSUME NEW w \in Page, HearRender(w) PROVE Deleted' /\ GoneEverywhere'
  <2> DEFINE e == Head(mailbox[w])
  <2>1. /\ mailbox[w] # <<>> /\ e \in Render /\ In(mailbox[w], e)
        /\ \A d : In(Tail(mailbox[w]), d) => In(mailbox[w], d)
        /\ \A d : In(mailbox[w], d) => d = e \/ In(Tail(mailbox[w]), d)
    BY <1>0, <1>8, InQueue DEF HearRender
  <2>2. /\ bubble' = [bubble EXCEPT ![w] = Rendered(bubble[w], e)]
        /\ mailbox' = [mailbox EXCEPT ![w] = Tail(mailbox[w])]
        /\ missed' = (missed \/ Misses(w, e))
        /\ UNCHANGED <<removing, starting, snapshot, kept, removed>>
    BY <1>0, <1>8 DEF HearRender, ShownIn, taskVars
  <2> HIDE DEF e
  <2>3. ~missed /\ kept /\ Deleted /\ ~Misses(w, e)
    BY <1>3, <2>2
  <2>4. e # AppendedNow
    BY <1>1, <2>1, <2>3
  <2>5. bubble[w] # NoOwn /\ starting[w] # "loading"
    BY <2>3, <2>4 DEF Misses
  <2>6. In(mailbox[w], DeletedNow)
    BY <1>1, <2>3, <2>5 DEF Showing
  <2>7. (Showing(w))' # NoOwn => In(mailbox'[w], DeletedNow)
    <3>1. CASE e = DeletedNow
      <4>0. Rendered(bubble[w], DeletedNow) = NoOwn
        BY <1>0, RenderedIs
      <4>1. bubble'[w] = NoOwn
        BY <1>0, <2>2, <3>1, <4>0
      <4> QED
        BY <2>2, <2>5, <4>1 DEF Showing
    <3>2. CASE e # DeletedNow
      BY <1>0, <2>1, <2>2, <2>6, <3>2
    <3> QED
      BY <3>1, <3>2
  <2>8. \A x \in Page : x # w => mailbox'[x] = mailbox[x] /\ (Showing(x))' = Showing(x)
    BY <1>0, <2>2 DEF Showing
  <2>9. ~In(mailbox'[w], AppendedNow)
    BY <1>0, <1>1, <2>1, <2>2, <2>3
  <2>10. \A x \in Page : /\ ~In(mailbox'[x], AppendedNow)
                         /\ (Showing(x))' # NoOwn => In(mailbox'[x], DeletedNow)
    BY <1>1, <2>3, <2>7, <2>8, <2>9
  <2>11. UNCHANGED <<removed, removing>>
    BY <2>2
  <2> QED
    BY <1>2, <2>3, <2>10, <2>11
<1>9. ASSUME NEW w \in Page, Press(w) \/ SendFails(w) PROVE Deleted' /\ GoneEverywhere'
  <2>1. ~kept
    BY <1>9 DEF Press, SendFails, Unsaved
  <2> QED
    BY <1>9, <2>1 DEF Press, SendFails, bubblePast
<1>10. ASSUME NEW w \in Page, SaveOwn(w) PROVE Deleted' /\ GoneEverywhere'
  <2>1. ~kept /\ ~missed /\ \A x \in Page : removing[x] = <<>>
    BY <1>10 DEF SaveOwn, Unsaved
  <2>2. ~removed /\ UNCHANGED <<removed, removing>>
    BY <1>10, <2>1 DEF SaveOwn, Unsaved
  <2> QED
    BY <2>1, <2>2 DEF Deleted
<1>11. ASSUME NEW w \in Page, NEW s \in {"sent", "delivered"}, ReadMark(w, s) PROVE Deleted' /\ GoneEverywhere'
  BY <1>4, <1>11 DEF ReadMark, windowVars, bubblePast
<1>12. ASSUME NEW w \in Page, GivesUp(w) \/ HistoryMarkFailed(w) \/ DropOutbox(w) PROVE Deleted' /\ GoneEverywhere'
  BY <1>4, <1>12 DEF GivesUp, HistoryMarkFailed, DropOutbox, GivingUp, windowVars, bubblePast
<1>13. ASSUME NEW w \in Page, NEW e \in Render, TellAll(w, e), UNCHANGED <<removed, removing, kept>>,
              e # AppendedNow, missed' = (missed \/ Misses(w, e))
       PROVE  Deleted' /\ GoneEverywhere'
  <2>1. ~missed /\ kept /\ Deleted /\ ~Misses(w, e)
    BY <1>3, <1>13
  <2>2. bubble[w] # NoOwn /\ starting[w] # "loading"
    BY <1>13, <2>1 DEF Misses
  <2>3. In(mailbox[w], DeletedNow)
    BY <1>1, <2>1, <2>2 DEF Showing
  <2>4. /\ \A x \in Page : x # w => bubble'[x] = bubble[x]
        /\ \A x \in Page : \A d : In(mailbox[x], d) => In(mailbox'[x], d)
        /\ \A x \in Page : \A d : In(mailbox'[x], d) => In(mailbox[x], d) \/ (d = e /\ x # w)
        /\ UNCHANGED <<starting, snapshot>>
    BY <1>13, TellAllIs
  <2>5. \A x \in Page : x # w => (Showing(x))' = Showing(x)
    BY <2>4 DEF Showing
  <2> QED
    BY <1>1, <1>2, <1>13, <2>1, <2>3, <2>4, <2>5
<1>14. ASSUME NEW w \in Page, TellFailed(w) PROVE Deleted' /\ GoneEverywhere'
  BY <1>13, <1>14, RenderEvents DEF TellFailed, GivingUp
<1>15. ASSUME NEW k \in marking, TellMark(k) PROVE Deleted' /\ GoneEverywhere'
  <2>1. k \in Marks
    BY DEF BubblesTyped
  <2>2. k.by \in Page /\ MovedTo(k.to) \in Render /\ MovedTo(k.to) # AppendedNow
    BY <2>1, RenderEvents DEF Marks
  <2> QED
    BY <1>13, <1>15, <2>2 DEF TellMark
<1>16. ASSUME NEW k \in marking, WriteMark(k) PROVE Deleted' /\ GoneEverywhere'
  BY <1>4, <1>16 DEF WriteMark, windowVars, bubblePast
<1>17. CASE RelayAnswers \/ RemoveOutbox
  BY <1>4, <1>17 DEF RelayAnswers, RemoveOutbox, taskVars, windowVars, bubblePast
<1>18. ASSUME NEW w \in Page, DeleteMessage(w) PROVE Deleted' /\ GoneEverywhere'
  <2>1. /\ starting[w] = "ready" /\ removing[w] = <<>> /\ kept' = kept /\ removed' = removed
        /\ removing' = [removing EXCEPT ![w] = IF bubble[w].failed THEN <<"row">> ELSE <<"row", "outbox">>]
        /\ TellAll(w, DeletedNow)
        /\ missed' = (missed \/ composing # {} \/ \E x \in Page : Contains(mailbox[x], AppendedNow))
    BY <1>18 DEF DeleteMessage
  <2>2. ~missed /\ kept /\ \A x \in Page : ~Contains(mailbox[x], AppendedNow)
    BY <2>1
  <2>3. \A x \in Page : ~In(mailbox[x], AppendedNow)
    BY <2>2 DEF Contains, In
  <2>4. removing'[w] # <<>> /\ removing'[w] # <<"outbox">> /\ \A x \in Page : x # w => removing'[x] = removing[x]
    <3>1. <<"row">> # <<"outbox">> /\ <<"row", "outbox">> # <<"outbox">> /\ <<"row">> # <<>> /\ <<"row", "outbox">> # <<>>
      OBVIOUS
    <3> QED
      BY <1>0, <2>1, <3>1
  <2>5. /\ bubble'[w] = Rendered(bubble[w], DeletedNow)
        /\ \A x \in Page : x # w => bubble'[x] = bubble[x]
        /\ \A x \in Page : \A d : In(mailbox'[x], d) => In(mailbox[x], d) \/ d = DeletedNow
        /\ \A x \in Page : x # w /\ Running(x) => In(mailbox'[x], DeletedNow)
        /\ UNCHANGED <<starting, snapshot>>
    <3>1. PICK e \in Render : e = DeletedNow
      BY RenderEvents
    <3>2. TellAll(w, e)
      BY <2>1, <3>1
    <3>3. /\ bubble'[w] = Rendered(bubble[w], e)
          /\ \A x \in Page : x # w => bubble'[x] = bubble[x]
          /\ \A x \in Page : \A d : In(mailbox'[x], d) => In(mailbox[x], d) \/ (d = e /\ x # w)
          /\ \A x \in Page : x # w /\ Running(x) => In(mailbox'[x], e)
          /\ UNCHANGED <<starting, snapshot>>
      BY <3>2, TellAllIs
    <3> QED
      BY <3>1, <3>3
  <2>6. bubble'[w] = NoOwn
    BY <1>0, <2>5, RenderedIs
  <2>7. (Showing(w))' = NoOwn
    BY <2>1, <2>5, <2>6 DEF Showing
  <2>8. \A x \in Page : x # w /\ ~Running(x) => (Showing(x))' = NoOwn
    BY <1>0, <2>5 DEF Showing, Running
  <2>9. \A x \in Page : removing[x] = <<"outbox">> => removed
    <3>1. CASE Deleted
      BY <1>1, <2>2, <3>1
    <3>2. CASE ~Deleted
      BY <3>2 DEF Deleted
    <3> QED
      BY <3>1, <3>2
  <2>10. \A x \in Page : removing'[x] = <<"outbox">> => removed'
    BY <2>1, <2>4, <2>9
  <2>11. \A x \in Page : ~In(mailbox'[x], AppendedNow)
    BY <2>3, <2>5, RenderEvents
  <2>12. \A x \in Page : (Showing(x))' # NoOwn => In(mailbox'[x], DeletedNow)
    BY <2>5, <2>7, <2>8
  <2>13. Deleted'
    BY <2>4 DEF Deleted
  <2> QED
    BY <2>10, <2>11, <2>12, <2>13 DEF GoneEverywhere
<1>19. ASSUME NEW w \in Page, RemoveStep(w) PROVE Deleted' /\ GoneEverywhere'
  <2>1. /\ removing[w] # <<>> /\ removing' = [removing EXCEPT ![w] = Tail(removing[w])]
        /\ UNCHANGED <<starting, snapshot, bubble, mailbox, kept, missed>>
        /\ IF Head(removing[w]) = "row" THEN removed' = (removed \/ kept) ELSE removed' = removed
    BY <1>19 DEF RemoveStep, windowVars
  <2>2. ~missed /\ kept /\ Deleted
    BY <2>1 DEF Deleted
  <2>3. removed'
    <3>1. CASE Head(removing[w]) = "row"
      BY <2>1, <2>2, <3>1
    <3>2. CASE Head(removing[w]) # "row"
      BY <1>0, <1>1, <2>1, <2>2, <3>2, StepsLeft
    <3> QED
      BY <3>1, <3>2
  <2>4. \A x \in Page : (Showing(x))' = Showing(x)
    BY <2>1 DEF Showing
  <2> QED
    BY <1>1, <2>1, <2>2, <2>3, <2>4 DEF Deleted, GoneEverywhere
<1>20. ASSUME NEW w \in Page, ClosePage(w) PROVE Deleted' /\ GoneEverywhere'
  <2>1. /\ removing' = [removing EXCEPT ![w] = <<>>] /\ starting' = [starting EXCEPT ![w] = "off"]
        /\ snapshot' = [snapshot EXCEPT ![w] = NoOwn] /\ bubble' = [bubble EXCEPT ![w] = NoOwn]
        /\ mailbox' = [mailbox EXCEPT ![w] = <<>>] /\ UNCHANGED <<kept, removed>>
        /\ missed' = (missed \/ marking # marking' \/ failing[w] # <<>> \/ removing[w] # <<>>)
    BY <1>20 DEF ClosePage
  <2>2. ~missed /\ kept /\ removing[w] = <<>>
    BY <2>1
  <2>3. removing' = removing /\ UNCHANGED removed
    BY <1>0, <2>1, <2>2
  <2>4. Deleted
    BY <1>3, <2>3
  <2>5. \A d : ~In(<<>>, d)
    BY DEF In
  <2>6. (Showing(w))' = NoOwn /\ mailbox'[w] = <<>>
    BY <1>0, <2>1 DEF Showing
  <2>7. \A x \in Page : x # w => (Showing(x))' = Showing(x) /\ mailbox'[x] = mailbox[x]
    BY <1>0, <2>1 DEF Showing
  <2>8. \A x \in Page : /\ ~In(mailbox'[x], AppendedNow)
                        /\ (Showing(x))' # NoOwn => In(mailbox'[x], DeletedNow)
    BY <1>1, <2>2, <2>4, <2>5, <2>6, <2>7
  <2> QED
    BY <1>2, <2>2, <2>3, <2>4, <2>8
<1> QED
  BY <1>5, <1>6, <1>7, <1>8, <1>9, <1>10, <1>11, <1>12, <1>14, <1>15, <1>16, <1>17, <1>18, <1>19,
     <1>20 DEF BubblesNext

\* A status that the row has reached does not make a bubble say more than the row.
LEMMA StatusMoves ==
  ASSUME NEW b \in OwnRow, NEW o \in OwnRow, NEW s \in {"sent", "delivered"},
         Rank(o.status) >= Rank(s),
         \A r \in {"sent", "delivered"} : b.status = r => Rank(o.status) >= Rank(r)
  PROVE  /\ Rendered(b, MovedTo(s)) # NoOwn /\ Rendered(b, MovedTo(s)).failed = b.failed
         /\ b.status = o.status => Rendered(b, MovedTo(s)).status = o.status
         /\ s = o.status => b.failed \/ Rendered(b, MovedTo(s)).status = o.status
         /\ \A r \in {"sent", "delivered"} :
              Rendered(b, MovedTo(s)).status = r => Rank(o.status) >= Rank(r)
<1> DEFINE c == Rendered(b, MovedTo(s))
<1>1. b # NoOwn
  BY RenderEvents
<1>2. /\ c # NoOwn /\ c.failed = b.failed
      /\ c.status = b.status \/ c.status = s
      /\ b.failed \/ b.status = "delivered" \/ c.status = s
      /\ b.status = "delivered" => c.status = "delivered"
  <2>1. c = IF b.failed \/ b.status = "delivered" THEN b ELSE [b EXCEPT !.status = s]
    BY <1>1 DEF Rendered, MovedTo
  <2>2. c \in OwnRow
    BY <2>1 DEF OwnRow, Mark
  <2>3. c # NoOwn
    BY <2>2, RenderEvents
  <2> QED
    BY <2>1, <2>3 DEF OwnRow
<1> HIDE DEF c
<1>3. b.status \in Mark /\ o.status \in Mark
  BY DEF OwnRow
<1>4. o.status = s \/ o.status = "delivered"
  BY <1>3, Ranks DEF Mark
<1>5. b.status = "delivered" => o.status = "delivered"
  BY <1>3, Ranks DEF Mark
<1>6. b.status = o.status => c.status = o.status
  BY <1>2, <1>4
<1>7. s = o.status => b.failed \/ c.status = o.status
  BY <1>2, <1>5
<1>8. \A r \in {"sent", "delivered"} : c.status = r => Rank(o.status) >= Rank(r)
  BY <1>2
<1> QED
  BY <1>2, <1>6, <1>7, <1>8 DEF c

\* While it is not deleted, row and bubbles keep up with each other.
LEMMA ShownKept ==
  ASSUME BubblesTyped, OneWriter, Unsaved, Agreeing, BubblesNext, kept', ~missed', ~Deleted, ~Deleted'
  PROVE  RowIsShown' /\ ShownIsTrue'
<1>0. /\ \A x \in Page : bubble[x] \in OwnRow \union {NoOwn} /\ mailbox[x] \in Seq(Render)
      /\ starting \in [Page -> {"off", "connecting", "loading", "ready"}]
      /\ bubble \in [Page -> OwnRow \union {NoOwn}] /\ snapshot \in [Page -> OwnRow \union {NoOwn}]
      /\ mailbox \in [Page -> Seq(Render)] /\ failing \in [Page -> Steps]
      /\ \A x \in Page : /\ snapshot[x] # NoOwn => starting[x] = "loading"
                         /\ ~Running(x) => bubble[x] = NoOwn /\ mailbox[x] = <<>>
      /\ marking \subseteq Marks
  BY DEF BubblesTyped
<1>1. ASSUME ~missed, kept
      PROVE  /\ \A x \in Page : (HasRead(x) => ToldIn(x)) /\ TrueIn(x)
             /\ \A k \in marking : k.written => Rank(own.status) >= Rank(k.to)
             /\ own \in OwnRow
             /\ \A x \in Page : removing[x] = <<>>
  BY <1>1 DEF Agreeing, RowIsShown, ShownIsTrue, Unsaved, Deleted, BubblesTyped
\* One window moves.
<1>2. ASSUME ~missed, kept, UNCHANGED <<own, marking, failing>>, NEW w \in Page,
             \A x \in Page : x # w => /\ (Showing(x))' = Showing(x) /\ mailbox'[x] = mailbox[x]
                                      /\ starting'[x] = starting[x],
             (HasRead(w))' => (ToldIn(w))', (TrueIn(w))'
      PROVE  RowIsShown' /\ ShownIsTrue'
  <2>1. \A x \in Page : x # w => ((HasRead(x))' => (ToldIn(x))') /\ (TrueIn(x))'
    BY <1>1, <1>2 DEF ToldIn, TrueIn, FailureHeard, HasRead
  <2> QED
    BY <1>1, <1>2, <2>1 DEF RowIsShown, ShownIsTrue
\* No window does.
<1>3. ASSUME UNCHANGED <<starting, snapshot, bubble, mailbox>>
      PROVE  \A x \in Page : (Showing(x))' = Showing(x) /\ (HasRead(x))' = HasRead(x)
  BY <1>3 DEF Showing, HasRead
<1>4. ASSUME UNCHANGED <<own, marking, failing, starting, snapshot, bubble, mailbox>>, kept, ~missed
      PROVE  RowIsShown' /\ ShownIsTrue'
  <2>1. \A x \in Page : ((HasRead(x))' => (ToldIn(x))') /\ (TrueIn(x))'
    BY <1>1, <1>3, <1>4 DEF ToldIn, TrueIn, FailureHeard
  <2> QED
    BY <1>1, <1>4, <2>1 DEF RowIsShown, ShownIsTrue
<1>5. ASSUME NEW w \in Page, StartPage(w) PROVE RowIsShown' /\ ShownIsTrue'
  <2>1. /\ UNCHANGED <<own, marking, failing, snapshot, bubble, mailbox>> /\ kept /\ ~missed
        /\ starting[w] = "off" /\ starting' = [starting EXCEPT ![w] = "connecting"]
    BY <1>5 DEF StartPage, taskVars, ownVars, bubblePast
  <2>2. \A x \in Page : (Showing(x))' = Showing(x)
    BY <1>0, <2>1 DEF Showing
  <2>3. ~(HasRead(w))'
    BY <1>0, <2>1 DEF HasRead
  <2>4. (TrueIn(w))'
    BY <1>1, <2>1, <2>2 DEF TrueIn, FailureHeard
  <2>5. \A x \in Page : x # w => starting'[x] = starting[x]
    BY <2>1
  <2> QED
    BY <1>2, <2>1, <2>2, <2>3, <2>4, <2>5
<1>6. ASSUME NEW w \in Page, ReadHistory(w) PROVE RowIsShown' /\ ShownIsTrue'
  <2>1. /\ UNCHANGED <<own, marking, failing, bubble, mailbox>> /\ kept /\ ~missed /\ ~ToldUnwritten
        /\ starting[w] = "connecting" /\ starting' = [starting EXCEPT ![w] = "loading"]
        /\ snapshot' = [snapshot EXCEPT ![w] = own]
    BY <1>6 DEF ReadHistory, taskVars, ownVars
  <2>2. own \in OwnRow /\ own # NoOwn
    BY <1>1, <2>1, RenderEvents
  <2>3. (Showing(w))' = own
    BY <1>0, <2>1, <2>2 DEF Showing
  <2>4. \A x \in Page : failing[x] # <<"mark", "drop">>
    <3>1. <<"mark", "drop">> # <<>> /\ Last(<<"mark", "drop">>) = "drop"
      BY DEF Last
    <3> QED
      BY <2>1, <3>1 DEF ToldUnwritten
  <2>5. (ToldIn(w))'
    BY <2>1, <2>2, <2>3, <2>4 DEF ToldIn, FailureHeard
  <2>6. \A s \in {"sent", "delivered"} : own.status = s => Rank(own.status) >= Rank(s)
    BY Ranks DEF Mark
  <2>7. (TrueIn(w))'
    BY <1>1, <2>1, <2>2, <2>3, <2>6 DEF TrueIn, FailureHeard
  <2>8. \A x \in Page : x # w => starting'[x] = starting[x] /\ (Showing(x))' = Showing(x)
    BY <1>0, <2>1 DEF Showing
  <2> QED
    BY <1>2, <2>1, <2>5, <2>7, <2>8
<1>7. ASSUME NEW w \in Page, ShowHistory(w) PROVE RowIsShown' /\ ShownIsTrue'
  <2>1. /\ UNCHANGED <<own, marking, failing, mailbox>> /\ kept /\ ~missed
        /\ starting[w] = "loading" /\ starting' = [starting EXCEPT ![w] = "ready"]
        /\ bubble' = [bubble EXCEPT ![w] = IF snapshot[w] # NoOwn THEN snapshot[w] ELSE @]
        /\ snapshot' = [snapshot EXCEPT ![w] = NoOwn]
    BY <1>7 DEF ShowHistory, taskVars, ownVars, bubblePast
  <2>2. \A x \in Page : (Showing(x))' = Showing(x)
    BY <1>0, <2>1 DEF Showing
  <2>3. HasRead(w)
    BY <2>1 DEF HasRead
  <2>4. (TrueIn(w))' /\ (ToldIn(w))'
    BY <1>1, <2>1, <2>2, <2>3 DEF TrueIn, ToldIn, FailureHeard
  <2>5. \A x \in Page : x # w => starting'[x] = starting[x]
    BY <2>1
  <2> QED
    BY <1>2, <2>1, <2>2, <2>4, <2>5
<1>8. ASSUME NEW w \in Page, HearRender(w) PROVE RowIsShown' /\ ShownIsTrue'
  <2> DEFINE e == Head(mailbox[w])
  <2>1. /\ mailbox[w] # <<>> /\ e \in Render /\ In(mailbox[w], e)
        /\ \A d : In(Tail(mailbox[w]), d) => In(mailbox[w], d)
        /\ \A d : In(mailbox[w], d) => d = e \/ In(Tail(mailbox[w]), d)
    BY <1>0, <1>8, InQueue DEF HearRender
  <2>2. /\ bubble' = [bubble EXCEPT ![w] = Rendered(bubble[w], e)]
        /\ mailbox' = [mailbox EXCEPT ![w] = Tail(mailbox[w])]
        /\ missed' = (missed \/ Misses(w, e))
        /\ UNCHANGED <<own, marking, failing, starting, snapshot, kept>>
    BY <1>0, <1>8 DEF HearRender, ShownIn, taskVars, ownVars
  <2> HIDE DEF e
  <2>3. kept /\ ~missed /\ ~Misses(w, e)
    BY <2>2
  <2>4. /\ bubble'[w] = Rendered(bubble[w], e) /\ mailbox'[w] = Tail(mailbox[w])
        /\ \A x \in Page : x # w => /\ (Showing(x))' = Showing(x) /\ mailbox'[x] = mailbox[x]
                                    /\ starting'[x] = starting[x]
    BY <1>0, <2>2 DEF Showing
  <2>5. own \in OwnRow /\ (HasRead(w) => ToldIn(w)) /\ TrueIn(w) /\ ((HasRead(w))' <=> HasRead(w))
    BY <1>1, <2>2, <2>3 DEF HasRead
  <2>6. e # DeletedNow /\ \A d : In(mailbox'[w], d) => In(mailbox[w], d)
    BY <2>1, <2>4, <2>5 DEF TrueIn
  <2>7. CASE e = AppendedNow
    <3>0. Rendered(bubble[w], AppendedNow) = (IF bubble[w] = NoOwn THEN Fresh ELSE bubble[w])
      BY <1>0, RenderedIs
    <3>1. bubble'[w] = IF bubble[w] = NoOwn THEN Fresh ELSE bubble[w]
      BY <2>4, <2>7, <3>0
    <3>2. (Showing(w))' = Showing(w) \/ (Showing(w) = NoOwn /\ (Showing(w))' = Fresh)
      BY <2>2, <3>1 DEF Showing
    <3>3. (Showing(w))' # NoOwn
      BY <2>2, <3>1, RenderEvents DEF Showing
    <3>4. /\ (Showing(w))'.failed = Showing(w).failed
          /\ \A s \in {"sent", "delivered"} : (Showing(w))'.status = s <=> Showing(w).status = s
      BY <3>2, RenderEvents
    <3>5. /\ In(mailbox[w], FailedNow) => In(mailbox'[w], FailedNow)
          /\ \A s \in {"sent", "delivered"} : In(mailbox[w], MovedTo(s)) => In(mailbox'[w], MovedTo(s))
      BY <2>1, <2>4, <2>7, RenderEvents
    <3>6. own.status \in {"none", "sent", "delivered"}
      BY <2>5 DEF OwnRow, Mark
    <3>7. HasRead(w) => (ToldIn(w))'
      BY <2>2, <2>5, <3>3, <3>4, <3>5, <3>6 DEF ToldIn, FailureHeard
    <3>8. (TrueIn(w))'
      BY <2>2, <2>5, <2>6, <3>4 DEF TrueIn, FailureHeard
    <3> QED
      BY <1>2, <2>2, <2>3, <2>4, <2>5, <3>7, <3>8
  <2>8. ASSUME e # AppendedNow
        PROVE  /\ bubble[w] \in OwnRow /\ Showing(w) = bubble[w] /\ (Showing(w))' = bubble'[w]
    <3>1. bubble[w] # NoOwn /\ starting[w] # "loading"
      BY <2>3, <2>8 DEF Misses
    <3> QED
      BY <1>0, <2>2, <3>1 DEF Showing
  <2>9. CASE e = FailedNow
    <3>1. Showing(w) = bubble[w] /\ (Showing(w))' = bubble'[w] /\ bubble[w] \in OwnRow
      BY <2>8, <2>9, RenderEvents
    <3>2. bubble[w] # NoOwn
      BY <3>1, RenderEvents
    <3>7. PICK b \in OwnRow \union {NoOwn} : b = bubble[w] /\ b # NoOwn
      BY <3>1, <3>2
    <3>8. /\ Rendered(b, FailedNow) # NoOwn /\ Rendered(b, FailedNow).failed = TRUE
          /\ Rendered(b, FailedNow).status = b.status
      BY <3>7, RenderedIs
    <3>3. bubble'[w] # NoOwn /\ bubble'[w].failed = TRUE /\ bubble'[w].status = bubble[w].status
      BY <2>4, <2>9, <3>7, <3>8
    <3>4. HasRead(w) => (ToldIn(w))'
      BY <2>2, <2>5, <3>1, <3>3 DEF ToldIn, FailureHeard
    <3>5. FailureHeard(w)
      BY <2>1, <2>9 DEF FailureHeard
    <3>6. (TrueIn(w))'
      BY <2>2, <2>5, <2>6, <3>1, <3>3, <3>5 DEF TrueIn
    <3> QED
      BY <1>2, <2>2, <2>3, <2>4, <2>5, <3>4, <3>6
  <2>10. ASSUME NEW s \in {"sent", "delivered"}, e = MovedTo(s) PROVE RowIsShown' /\ ShownIsTrue'
    <3>1. Showing(w) = bubble[w] /\ (Showing(w))' = bubble'[w] /\ bubble[w] \in OwnRow
      BY <2>8, <2>10, RenderEvents
    <3>2. /\ Rank(own.status) >= Rank(s)
          /\ \A r \in {"sent", "delivered"} : bubble[w].status = r => Rank(own.status) >= Rank(r)
      BY <2>1, <2>5, <2>10, <3>1 DEF TrueIn
    <3>3. /\ bubble'[w] # NoOwn /\ bubble'[w].failed = bubble[w].failed
          /\ bubble[w].status = own.status => bubble'[w].status = own.status
          /\ s = own.status => bubble[w].failed \/ bubble'[w].status = own.status
          /\ \A r \in {"sent", "delivered"} : bubble'[w].status = r => Rank(own.status) >= Rank(r)
      BY <2>4, <2>5, <2>10, <3>1, <3>2, StatusMoves
    <3>4. /\ In(mailbox[w], FailedNow) => In(mailbox'[w], FailedNow)
          /\ \A r \in {"sent", "delivered"} : r # s /\ In(mailbox[w], MovedTo(r)) => In(mailbox'[w], MovedTo(r))
      BY <2>1, <2>4, <2>10, RenderEvents
    <3>5. own.status \in {"none", "sent", "delivered"}
      BY <2>5 DEF OwnRow, Mark
    <3>6. HasRead(w) => (ToldIn(w))'
      BY <2>2, <2>5, <3>1, <3>3, <3>4, <3>5 DEF ToldIn, FailureHeard
    <3>7. (TrueIn(w))'
      BY <2>2, <2>5, <2>6, <3>1, <3>3 DEF TrueIn, FailureHeard
    <3> QED
      BY <1>2, <2>2, <2>3, <2>4, <2>5, <3>6, <3>7
  <2> QED
    BY <2>1, <2>6, <2>7, <2>9, <2>10, RenderEvents
<1>9. ASSUME NEW w \in Page, Press(w) \/ SendFails(w) PROVE RowIsShown' /\ ShownIsTrue'
  <2>1. ~kept
    BY <1>9 DEF Press, SendFails, Unsaved
  <2> QED
    BY <1>9, <2>1 DEF Press, SendFails, bubblePast
<1>10. ASSUME NEW w \in Page, DeleteMessage(w) \/ RemoveStep(w) PROVE RowIsShown' /\ ShownIsTrue'
  <2>1. removing[w] # <<>> \/ removing'[w] # <<>>
    <3>1. <<"row">> # <<>> /\ <<"row", "outbox">> # <<>> /\ w \in DOMAIN removing
      BY DEF BubblesTyped
    <3> QED
      BY <1>10, <3>1 DEF DeleteMessage, RemoveStep
  <2> QED
    BY <2>1 DEF Deleted
<1>11. ASSUME NEW w \in Page, SaveOwn(w) PROVE RowIsShown' /\ ShownIsTrue'
  <2>1. /\ w \in composing /\ own' = Fresh /\ UNCHANGED <<marking, failing, starting, snapshot, bubble, mailbox>>
        /\ missed' = (missed \/ \E x \in Page : starting[x] \in {"loading", "ready"}
                                  /\ bubble[x] = NoOwn /\ mailbox[x] = <<>>)
    BY <1>11 DEF SaveOwn, windowVars
  <2>2. /\ ~kept /\ marking = {} /\ ~missed
        /\ \A x \in Page : /\ failing[x] = <<>> /\ snapshot[x] = NoOwn
                           /\ bubble[x] \in {NoOwn, Fresh}
                           /\ \A e \in Render : In(mailbox[x], e) => e = AppendedNow
    BY <2>1 DEF Unsaved
  <2>3. \A x \in Page : Showing(x) = bubble[x] /\ (Showing(x))' = bubble[x]
    BY <2>1, <2>2 DEF Showing
  <2>4. /\ \A d : ~In(<<>>, d)
        /\ Fresh.failed = FALSE /\ NoOwn.failed = FALSE /\ Fresh # NoOwn
        /\ Fresh.status = "none" /\ NoOwn.status = "absent"
    BY RenderEvents DEF In
  <2>5. \A x \in Page : ~In(mailbox[x], DeletedNow) /\ ~In(mailbox[x], FailedNow)
    BY <2>2, RenderEvents
  <2>6. \A x \in Page : \A s \in {"sent", "delivered"} : ~In(mailbox[x], MovedTo(s)) /\ bubble[x].status # s
    BY <2>2, <2>4, RenderEvents
  <2>7. \A x \in Page : HasRead(x) => bubble[x] # NoOwn \/ In(mailbox[x], AppendedNow)
    <3> SUFFICES ASSUME NEW x \in Page, HasRead(x), bubble[x] = NoOwn PROVE In(mailbox[x], AppendedNow)
      OBVIOUS
    <3>1. mailbox[x] # <<>> /\ mailbox[x] \in Seq(Render)
      BY <1>0, <2>1 DEF HasRead
    <3>2. In(mailbox[x], Head(mailbox[x])) /\ Head(mailbox[x]) \in Render
      BY <3>1, InQueue
    <3> QED
      BY <2>2, <3>2
  <2>8. \A x \in Page : ~(FailureHeard(x))' /\ failing'[x] # <<"mark", "drop">>
                        /\ failing'[x] \notin {<<"drop", "tell">>, <<"tell">>}
    <3>1. \A x \in Page : ~bubble[x].failed
      BY <2>2, <2>4
    <3>2. <<>> # <<"mark", "drop">> /\ <<>> \notin {<<"drop", "tell">>, <<"tell">>}
      OBVIOUS
    <3> QED
      BY <2>1, <2>2, <2>3, <2>5, <3>1, <3>2 DEF FailureHeard
  <2>9. \A x \in Page : (HasRead(x))' => (ToldIn(x))'
    BY <2>1, <2>3, <2>4, <2>7, <2>8 DEF ToldIn, HasRead
  <2>10. \A x \in Page : (TrueIn(x))'
    BY <2>1, <2>3, <2>5, <2>6, <2>8 DEF TrueIn
  <2> QED
    BY <2>1, <2>2, <2>9, <2>10 DEF RowIsShown, ShownIsTrue
<1>12. ASSUME NEW w \in Page, NEW s \in {"sent", "delivered"}, ReadMark(w, s) PROVE RowIsShown' /\ ShownIsTrue'
  <2> DEFINE m == [by |-> w, to |-> s, read |-> own, written |-> FALSE]
  <2>1. /\ UNCHANGED <<own, failing, starting, snapshot, bubble, mailbox>> /\ kept /\ ~missed
        /\ marking' = marking \union {m}
    BY <1>12 DEF ReadMark, windowVars, bubblePast, ownVars
  <2>2. ~m.written
    OBVIOUS
  <2> HIDE DEF m
  <2>3. \A x \in Page : ((HasRead(x))' => (ToldIn(x))') /\ (TrueIn(x))'
    BY <1>1, <1>3, <2>1 DEF ToldIn, TrueIn, FailureHeard
  <2> QED
    BY <1>1, <2>1, <2>2, <2>3 DEF RowIsShown, ShownIsTrue
<1>13. CASE RelayAnswers \/ RemoveOutbox
  BY <1>4, <1>13 DEF RelayAnswers, RemoveOutbox, taskVars, windowVars, bubblePast, ownVars
<1>14. ASSUME NEW w \in Page, ClosePage(w) PROVE RowIsShown' /\ ShownIsTrue'
  <2>1. /\ starting' = [starting EXCEPT ![w] = "off"]
        /\ snapshot' = [snapshot EXCEPT ![w] = NoOwn] /\ bubble' = [bubble EXCEPT ![w] = NoOwn]
        /\ mailbox' = [mailbox EXCEPT ![w] = <<>>] /\ UNCHANGED <<kept, own>>
        /\ missed' = (missed \/ marking # marking' \/ failing[w] # <<>> \/ removing[w] # <<>>)
        /\ failing' = [failing EXCEPT ![w] = <<>>]
    BY <1>14 DEF ClosePage, ownVars
  <2>2. ~missed /\ kept /\ failing[w] = <<>> /\ marking' = marking
    BY <2>1
  <2>3. failing' = failing
    BY <1>0, <2>1, <2>2
  <2>4. (Showing(w))' = NoOwn /\ mailbox'[w] = <<>> /\ ~(HasRead(w))'
    BY <1>0, <2>1 DEF Showing, HasRead
  <2>5. \A x \in Page : x # w => /\ (Showing(x))' = Showing(x) /\ mailbox'[x] = mailbox[x]
                                 /\ starting'[x] = starting[x]
    BY <1>0, <2>1 DEF Showing
  <2>6. /\ \A d : ~In(<<>>, d)
        /\ NoOwn.failed = FALSE /\ NoOwn.status = "absent"
    BY RenderEvents DEF In
  <2>7. TrueIn(w)
    BY <1>1, <2>2
  <2>8. (TrueIn(w))'
    BY <2>1, <2>3, <2>4, <2>6, <2>7 DEF TrueIn, FailureHeard
  <2> QED
    BY <1>2, <2>1, <2>2, <2>3, <2>4, <2>5, <2>8
<1>15. ASSUME NEW w \in Page, GivesUp(w) PROVE RowIsShown' /\ ShownIsTrue'
  <2>1. /\ UNCHANGED <<own, marking, starting, snapshot, bubble, mailbox>> /\ kept /\ ~missed /\ failing[w] = <<>>
        /\ \A x \in Page : x # w => failing'[x] = failing[x]
        /\ failing'[w] \in {<<"tell", "mark", "drop">>, <<"mark", "drop", "tell">>}
    BY <1>0, <1>15 DEF GivesUp, windowVars, bubblePast, ownVars
  <2>2. /\ \A d : ~In(<<>>, d)
        /\ \A s \in {<<"tell", "mark", "drop">>, <<"mark", "drop", "tell">>} :
             s # <<"mark", "drop">> /\ s # <<"drop", "tell">> /\ s # <<"tell">>
    BY DEF In
  <2>3. \A x \in Page : \A d : In(failing[x], d) => In(failing'[x], d)
    BY <2>1, <2>2
  <2>4. \A x \in Page : /\ failing'[x] = <<"mark", "drop">> => failing[x] = <<"mark", "drop">>
                        /\ failing'[x] \in {<<"drop", "tell">>, <<"tell">>} => failing[x] = failing'[x]
    BY <2>1, <2>2
  <2>5. \A x \in Page : ((HasRead(x))' => (ToldIn(x))') /\ (TrueIn(x))'
    BY <1>1, <1>3, <2>1, <2>3, <2>4 DEF ToldIn, TrueIn, FailureHeard
  <2> QED
    BY <1>1, <2>1, <2>5 DEF RowIsShown, ShownIsTrue
<1>16. ASSUME NEW w \in Page, DropOutbox(w) PROVE RowIsShown' /\ ShownIsTrue'
  <2>1. /\ UNCHANGED <<own, marking, starting, snapshot, bubble, mailbox>> /\ kept /\ ~missed
        /\ \A x \in Page : x # w => failing'[x] = failing[x]
        /\ \/ failing[w] = <<"drop">> /\ failing'[w] = <<>>
           \/ failing[w] = <<"drop", "tell">> /\ failing'[w] = <<"tell">>
    BY <1>0, <1>16, StepsLeft DEF DropOutbox, GivingUp, windowVars
  <2>2. /\ ~In(<<"drop">>, "mark") /\ ~In(<<"drop">>, "tell")
        /\ ~In(<<"drop", "tell">>, "mark") /\ In(<<"tell">>, "tell")
        /\ <<>> # <<"mark", "drop">> /\ <<"tell">> # <<"mark", "drop">> /\ <<>> # <<"tell">> /\ <<>> # <<"drop", "tell">>
    BY DEF In
  <2>3. \A x \in Page : \A d \in {"tell", "mark"} : In(failing[x], d) => In(failing'[x], d)
    BY <2>1, <2>2
  <2>4. \A x \in Page : /\ failing'[x] = <<"mark", "drop">> => failing[x] = <<"mark", "drop">>
                        /\ failing'[x] \in {<<"drop", "tell">>, <<"tell">>} => failing[x] \in {<<"drop", "tell">>, <<"tell">>}
    BY <2>1, <2>2
  <2>5. \A x \in Page : ((HasRead(x))' => (ToldIn(x))') /\ (TrueIn(x))'
    BY <1>1, <1>3, <2>1, <2>3, <2>4 DEF ToldIn, TrueIn, FailureHeard
  <2> QED
    BY <1>1, <2>1, <2>5 DEF RowIsShown, ShownIsTrue
<1>17. ASSUME NEW w \in Page, HistoryMarkFailed(w) PROVE RowIsShown' /\ ShownIsTrue'
  <2>1. /\ UNCHANGED <<marking, starting, snapshot, bubble, mailbox>> /\ kept /\ ~missed
        /\ \A x \in Page : x # w => failing'[x] = failing[x]
        /\ \/ failing[w] = <<"mark", "drop">> /\ failing'[w] = <<"drop">>
           \/ failing[w] = <<"mark", "drop", "tell">> /\ failing'[w] = <<"drop", "tell">>
    BY <1>0, <1>17, StepsLeft DEF HistoryMarkFailed, GivingUp, windowVars
  <2>2. own \in OwnRow /\ own # NoOwn
    BY <1>1, <2>1, RenderEvents
  <2>3. own'.failed = TRUE /\ own'.status = own.status
    BY <1>17, <2>2 DEF HistoryMarkFailed, OwnRow
  <2>4. /\ ~In(<<"mark", "drop">>, "tell") /\ In(<<"drop", "tell">>, "tell")
        /\ <<"drop">> # <<"mark", "drop">> /\ <<"drop", "tell">> # <<"mark", "drop">>
    BY DEF In
  <2>5. \A x \in Page : HasRead(x) => FailureHeard(x) \/ \E y \in Page : In(failing'[y], "tell")
    <3>1. CASE failing[w] = <<"mark", "drop">>
      BY <1>1, <2>1, <3>1 DEF ToldIn
    <3>2. CASE failing[w] # <<"mark", "drop">>
      BY <2>1, <2>4, <3>2
    <3> QED
      BY <3>1, <3>2
  <2>6. \A x \in Page : failing'[x] = <<"mark", "drop">> => failing[x] = <<"mark", "drop">>
    BY <2>1, <2>4
  <2>7. \A x \in Page : HasRead(x) => (ToldIn(x))'
    BY <1>1, <1>3, <2>1, <2>3, <2>5, <2>6 DEF ToldIn, FailureHeard
  <2>8. \A x \in Page : (TrueIn(x))'
    BY <1>1, <1>3, <2>1, <2>3 DEF TrueIn
  <2> QED
    BY <1>1, <1>3, <2>1, <2>3, <2>7, <2>8 DEF RowIsShown, ShownIsTrue
<1>18. ASSUME NEW k \in marking, WriteMark(k) PROVE RowIsShown' /\ ShownIsTrue'
  <2>1. /\ UNCHANGED <<failing, starting, snapshot, bubble, mailbox>> /\ kept /\ ~missed /\ ~k.written
        /\ marking' = (marking \ {k}) \union {[k EXCEPT !.written = TRUE]}
        /\ own' = HistoryUpdate(own, [k.read EXCEPT !.status = k.to])
    BY <1>18 DEF WriteMark, windowVars, bubblePast
  <2>2. own \in OwnRow /\ own # NoOwn /\ k \in Marks
    BY <1>0, <1>1, <2>1, RenderEvents
  <2> DEFINE m == [k EXCEPT !.written = TRUE]
  <2>3. /\ k.to \in {"sent", "delivered"} /\ k.read \in OwnRow
        /\ m.written = TRUE /\ m.to = k.to
    BY <2>2 DEF Marks
  <2>4. own' = [[k.read EXCEPT !.status = k.to] EXCEPT !.failed = k.read.failed \/ own.failed]
    BY <2>1, <2>2, <2>3 DEF HistoryUpdate, OwnRow
  <2>5. own'.status = k.to /\ own'.failed = (k.read.failed \/ own.failed)
    BY <2>3, <2>4 DEF OwnRow
  <2>6. k.read.status \notin {k.to, "delivered"} /\ k.read.status = own.status /\ (k.read.failed => own.failed)
    BY <2>1, <2>2 DEF OneWriter
  <2>7. own'.failed <=> own.failed
    BY <2>5, <2>6
  <2>8. \A s \in Mark : Rank(own.status) >= Rank(s) => Rank(own'.status) >= Rank(s)
    BY <2>2, <2>3, <2>5, <2>6, Ranks DEF OwnRow, Mark
  <2> HIDE DEF m
  <2>9. m \in marking' /\ m.written /\ m.to = own'.status
    BY <2>1, <2>3, <2>5 DEF m
  <2>10. \A x \in Page : HasRead(x) => (ToldIn(x))'
    BY <1>1, <1>3, <2>1, <2>7, <2>9 DEF ToldIn, FailureHeard
  <2>11. \A x \in Page : (TrueIn(x))'
    BY <1>1, <1>3, <2>1, <2>7, <2>8 DEF TrueIn, FailureHeard, Mark
  <2>12. \A j \in marking' : j.written => Rank(own'.status) >= Rank(j.to)
    <3> SUFFICES ASSUME NEW j \in marking', j.written PROVE Rank(own'.status) >= Rank(j.to)
      OBVIOUS
    <3>1. CASE j = m
      BY <2>3, <2>5, <3>1, Ranks DEF Mark
    <3>2. CASE j # m
      <4>1. j \in marking /\ j \in Marks
        BY <1>0, <2>1, <3>2 DEF m
      <4> QED
        BY <1>1, <2>1, <2>8, <4>1 DEF Marks, Mark
    <3> QED
      BY <3>1, <3>2
  <2> QED
    BY <1>3, <2>1, <2>10, <2>11, <2>12 DEF RowIsShown, ShownIsTrue
\* A window that has the bubble renders an event.
<1>19. ASSUME ~missed, kept, NEW w \in Page, NEW e \in Render, TellAll(w, e), e # AppendedNow, ~Misses(w, e)
       PROVE  /\ bubble[w] \in OwnRow /\ Showing(w) = bubble[w] /\ (Showing(w))' = bubble'[w]
              /\ bubble'[w] = Rendered(bubble[w], e) /\ mailbox'[w] = mailbox[w]
              /\ \A x \in Page : x # w => (Showing(x))' = Showing(x)
              /\ \A x \in Page : (HasRead(x))' = HasRead(x)
              /\ \A x \in Page : \A d : In(mailbox[x], d) => In(mailbox'[x], d)
              /\ \A x \in Page : \A d : In(mailbox'[x], d) => In(mailbox[x], d) \/ (d = e /\ x # w)
              /\ \A x \in Page : x # w /\ HasRead(x) => In(mailbox'[x], e)
  <2>1. /\ bubble'[w] = Rendered(bubble[w], e)
        /\ \A x \in Page : x # w => bubble'[x] = bubble[x]
        /\ \A x \in Page : x = w \/ ~Running(x) => mailbox'[x] = mailbox[x]
        /\ \A x \in Page : \A d : In(mailbox[x], d) => In(mailbox'[x], d)
        /\ \A x \in Page : \A d : In(mailbox'[x], d) => In(mailbox[x], d) \/ (d = e /\ x # w)
        /\ \A x \in Page : x # w /\ Running(x) => In(mailbox'[x], e)
        /\ UNCHANGED <<starting, snapshot>>
    BY <1>19, TellAllIs
  <2>2. bubble[w] # NoOwn /\ starting[w] # "loading"
    BY <1>19 DEF Misses
  <2>3. \A x \in Page : HasRead(x) => Running(x)
    BY DEF HasRead, Running
  <2> QED
    BY <1>0, <2>1, <2>2, <2>3 DEF Showing, HasRead
<1>20. ASSUME NEW w \in Page, TellFailed(w) PROVE RowIsShown' /\ ShownIsTrue'
  <2>1. /\ UNCHANGED <<own, marking>> /\ kept /\ ~missed /\ TellAll(w, FailedNow) /\ ~Misses(w, FailedNow)
        /\ \A x \in Page : x # w => failing'[x] = failing[x]
        /\ \/ failing[w] = <<"tell", "mark", "drop">> /\ failing'[w] = <<"mark", "drop">>
           \/ failing[w] = <<"tell">> /\ failing'[w] = <<>>
    BY <1>0, <1>20, StepsLeft DEF TellFailed, GivingUp, ownVars
  <2>2. PICK e \in Render : e = FailedNow /\ e # AppendedNow
    BY RenderEvents
  <2>3. /\ bubble[w] \in OwnRow /\ Showing(w) = bubble[w] /\ (Showing(w))' = bubble'[w]
        /\ bubble'[w] = Rendered(bubble[w], e) /\ mailbox'[w] = mailbox[w]
        /\ \A x \in Page : x # w => (Showing(x))' = Showing(x)
        /\ \A x \in Page : (HasRead(x))' = HasRead(x)
        /\ \A x \in Page : \A d : In(mailbox[x], d) => In(mailbox'[x], d)
        /\ \A x \in Page : \A d : In(mailbox'[x], d) => In(mailbox[x], d) \/ (d = e /\ x # w)
        /\ \A x \in Page : x # w /\ HasRead(x) => In(mailbox'[x], e)
    BY <1>19, <2>1, <2>2
  <2>4. bubble'[w] # NoOwn /\ bubble'[w].failed = TRUE /\ bubble'[w].status = bubble[w].status
    <3>1. PICK b \in OwnRow \union {NoOwn} : b = bubble[w] /\ b # NoOwn
      BY <2>3, RenderEvents
    <3>2. /\ Rendered(b, FailedNow) # NoOwn /\ Rendered(b, FailedNow).failed = TRUE
          /\ Rendered(b, FailedNow).status = b.status
      BY <3>1, RenderedIs
    <3> QED
      BY <2>2, <2>3, <3>1, <3>2
  <2>5. \A x \in Page : HasRead(x) => (FailureHeard(x))'
    BY <2>2, <2>3, <2>4 DEF FailureHeard
  <2>6. /\ ~In(<<"tell">>, "mark") /\ In(<<"mark", "drop">>, "mark")
        /\ \A s \in {<<"mark", "drop">>, <<>>} : s \notin {<<"drop", "tell">>, <<"tell">>}
    BY DEF In
  <2>7. \A x \in Page : failing'[x] \in {<<"drop", "tell">>, <<"tell">>} => failing[x] = failing'[x]
    BY <2>1, <2>6
  <2>8. own.failed \/ \E x \in Page : In(failing'[x], "mark")
    <3>1. CASE failing[w] = <<"tell">>
      BY <1>1, <2>1, <3>1 DEF TrueIn
    <3>2. CASE failing[w] # <<"tell">>
      BY <2>1, <2>6, <3>2
    <3> QED
      BY <3>1, <3>2
  <2>9. own \in OwnRow /\ own.status \in {"none", "sent", "delivered"}
    BY <1>1, <2>1 DEF OwnRow, Mark
  <2>10. \A x \in Page : HasRead(x) => (ToldIn(x))'
    <3> SUFFICES ASSUME NEW x \in Page, HasRead(x) PROVE (ToldIn(x))'
      OBVIOUS
    <3>1. ToldIn(x) /\ (FailureHeard(x))'
      BY <1>1, <2>1, <2>5
    <3>2. (Showing(x))' # NoOwn \/ In(mailbox'[x], AppendedNow)
      BY <2>3, <2>4, <3>1 DEF ToldIn
    <3>3. own.status # "none" /\ ~own.failed =>
            \/ (Showing(x))'.failed \/ (Showing(x))'.status = own.status
            \/ In(mailbox'[x], MovedTo(own.status))
            \/ \E k \in marking : k.written /\ k.to = own.status
      <4>1. CASE x = w
        BY <2>3, <2>4, <4>1
      <4>2. CASE x # w
        BY <2>3, <3>1, <4>2 DEF ToldIn
      <4> QED
        BY <4>1, <4>2
    <3> QED
      BY <2>1, <3>1, <3>2, <3>3 DEF ToldIn
  <2>11. \A x \in Page : (TrueIn(x))'
    <3> SUFFICES ASSUME NEW x \in Page PROVE (TrueIn(x))'
      OBVIOUS
    <3>1. TrueIn(x)
      BY <1>1, <2>1
    <3>2. ~In(mailbox'[x], DeletedNow)
      BY <2>2, <2>3, <3>1, RenderEvents DEF TrueIn
    <3>3. \A s \in {"sent", "delivered"} :
            (Showing(x))'.status = s \/ In(mailbox'[x], MovedTo(s)) => Rank(own.status) >= Rank(s)
      <4> SUFFICES ASSUME NEW s \in {"sent", "delivered"}
                   PROVE  (Showing(x))'.status = s \/ In(mailbox'[x], MovedTo(s)) => Rank(own.status) >= Rank(s)
        OBVIOUS
      <4>1. In(mailbox'[x], MovedTo(s)) => In(mailbox[x], MovedTo(s))
        BY <2>2, <2>3, RenderEvents
      <4>2. (Showing(x))'.status = Showing(x).status
        BY <2>3, <2>4
      <4> QED
        BY <3>1, <4>1, <4>2 DEF TrueIn
    <3> QED
      BY <2>1, <2>7, <2>8, <3>1, <3>2, <3>3 DEF TrueIn
  <2> QED
    BY <1>1, <2>1, <2>3, <2>10, <2>11 DEF RowIsShown, ShownIsTrue
<1>21. ASSUME NEW k \in marking, TellMark(k) PROVE RowIsShown' /\ ShownIsTrue'
  <2>1. k \in Marks
    BY <1>0
  <2> DEFINE w == k.by
             s == k.to
  <2>2. w \in Page /\ s \in {"sent", "delivered"}
    BY <2>1 DEF Marks
  <2>3. /\ UNCHANGED <<own, failing>> /\ kept /\ ~missed /\ TellAll(w, MovedTo(s)) /\ ~Misses(w, MovedTo(s))
        /\ marking' = marking \ {k} /\ k.written
    BY <1>21 DEF TellMark, ownVars
  <2> HIDE DEF w, s
  <2>4. PICK e \in Render : e = MovedTo(s) /\ e # AppendedNow /\ e # DeletedNow /\ e # FailedNow
    BY <2>2, RenderEvents
  <2>5. /\ bubble[w] \in OwnRow /\ Showing(w) = bubble[w] /\ (Showing(w))' = bubble'[w]
        /\ bubble'[w] = Rendered(bubble[w], e) /\ mailbox'[w] = mailbox[w]
        /\ \A x \in Page : x # w => (Showing(x))' = Showing(x)
        /\ \A x \in Page : (HasRead(x))' = HasRead(x)
        /\ \A x \in Page : \A d : In(mailbox[x], d) => In(mailbox'[x], d)
        /\ \A x \in Page : \A d : In(mailbox'[x], d) => In(mailbox[x], d) \/ (d = e /\ x # w)
        /\ \A x \in Page : x # w /\ HasRead(x) => In(mailbox'[x], e)
    BY <1>19, <2>2, <2>3, <2>4
  <2>6. own \in OwnRow /\ own.status \in {"none", "sent", "delivered"}
    BY <1>1, <2>3 DEF OwnRow, Mark
  <2>7. Rank(own.status) >= Rank(s)
    BY <1>1, <2>3 DEF s
  <2>8. \A r \in {"sent", "delivered"} : bubble[w].status = r => Rank(own.status) >= Rank(r)
    BY <1>1, <2>2, <2>3, <2>5 DEF TrueIn
  <2>9. /\ bubble'[w] # NoOwn /\ bubble'[w].failed = bubble[w].failed
        /\ bubble[w].status = own.status => bubble'[w].status = own.status
        /\ s = own.status => bubble[w].failed \/ bubble'[w].status = own.status
        /\ \A r \in {"sent", "delivered"} : bubble'[w].status = r => Rank(own.status) >= Rank(r)
    BY <2>2, <2>4, <2>5, <2>6, <2>7, <2>8, StatusMoves
  <2>10. \A x \in Page : (FailureHeard(x))' <=> FailureHeard(x)
    BY <2>4, <2>5, <2>9 DEF FailureHeard
  <2>11. \A x \in Page : HasRead(x) => (ToldIn(x))'
    <3> SUFFICES ASSUME NEW x \in Page, HasRead(x) PROVE (ToldIn(x))'
      OBVIOUS
    <3>1. ToldIn(x)
      BY <1>1, <2>3
    <3>2. (Showing(x))' # NoOwn \/ In(mailbox'[x], AppendedNow)
      BY <2>5, <2>9, <3>1 DEF ToldIn
    <3>3. own.status # "none" /\ ~own.failed =>
            \/ (Showing(x))'.failed \/ (Showing(x))'.status = own.status
            \/ In(mailbox'[x], MovedTo(own.status))
            \/ \E j \in marking' : j.written /\ j.to = own.status
      <4> SUFFICES ASSUME own.status # "none", ~own.failed, ~\E j \in marking' : j.written /\ j.to = own.status,
                          ~In(mailbox'[x], MovedTo(own.status))
                   PROVE  (Showing(x))'.failed \/ (Showing(x))'.status = own.status
        OBVIOUS
      <4>1. \/ Showing(x).failed \/ Showing(x).status = own.status
            \/ \E j \in marking : j.written /\ j.to = own.status
        BY <2>5, <3>1 DEF ToldIn
      <4>2. (\E j \in marking : j.written /\ j.to = own.status) => s = own.status
        BY <2>3 DEF s
      <4>3. CASE x = w
        BY <2>5, <2>9, <4>1, <4>2, <4>3
      <4>4. CASE x # w
        <5>1. s # own.status
          BY <2>4, <2>5, <4>4
        <5> QED
          BY <2>5, <4>1, <4>2, <4>4, <5>1
      <4> QED
        BY <4>3, <4>4
    <3> QED
      BY <2>3, <2>10, <3>1, <3>2, <3>3 DEF ToldIn
  <2>12. \A x \in Page : (TrueIn(x))'
    <3> SUFFICES ASSUME NEW x \in Page PROVE (TrueIn(x))'
      OBVIOUS
    <3>1. TrueIn(x)
      BY <1>1, <2>3
    <3>2. ~In(mailbox'[x], DeletedNow)
      BY <2>4, <2>5, <3>1 DEF TrueIn
    <3>3. \A r \in {"sent", "delivered"} :
            (Showing(x))'.status = r \/ In(mailbox'[x], MovedTo(r)) => Rank(own.status) >= Rank(r)
      <4> SUFFICES ASSUME NEW r \in {"sent", "delivered"}
                   PROVE  (Showing(x))'.status = r \/ In(mailbox'[x], MovedTo(r)) => Rank(own.status) >= Rank(r)
        OBVIOUS
      <4>1. In(mailbox'[x], MovedTo(r)) => In(mailbox[x], MovedTo(r)) \/ r = s
        BY <2>2, <2>4, <2>5, RenderEvents
      <4>2. (Showing(x))'.status = r => Showing(x).status = r \/ Rank(own.status) >= Rank(r)
        BY <2>5, <2>9
      <4> QED
        BY <2>7, <3>1, <4>1, <4>2 DEF TrueIn
    <3> QED
      BY <2>3, <2>10, <3>1, <3>2, <3>3 DEF TrueIn
  <2> QED
    BY <1>1, <2>3, <2>5, <2>11, <2>12 DEF RowIsShown, ShownIsTrue
<1> QED
  BY <1>5, <1>6, <1>7, <1>8, <1>9, <1>10, <1>11, <1>12, <1>13, <1>14, <1>15, <1>16, <1>17, <1>18,
     <1>20, <1>21 DEF BubblesNext

\* The invariant of the row and its bubbles holds in every reachable state.
LEMMA BubblesInductive == BubblesSpec => []BubblesInv
<1>1. ASSUME BubblesInit PROVE BubblesInv
  <2>1. /\ <<>> \in Seq(Render) /\ <<>> \in Steps /\ <<>> \in Removals
        /\ marking = {} /\ composing = {} /\ relay = "none" /\ starting = [w \in Page |-> "off"]
        /\ failing = [w \in Page |-> <<>>] /\ removing = failing /\ mailbox = failing
        /\ snapshot = [w \in Page |-> NoOwn] /\ bubble = snapshot /\ own = NoOwn
        /\ queued = FALSE /\ pressed = FALSE /\ kept = FALSE /\ removed = FALSE /\ missed = FALSE
    BY <1>1 DEF BubblesInit, Steps, Removals
  <2>2. BubblesTyped
    BY <2>1 DEF BubblesTyped
  <2>3. OneWriter /\ Agreeing /\ Unsaved
    BY <2>1 DEF OneWriter, Agreeing, Unsaved
  <2> QED
    BY <2>2, <2>3 DEF BubblesInv
<1>2. ASSUME BubblesInv, [BubblesNext]_bubbleVars PROVE BubblesInv'
  <2>1. CASE BubblesNext
    <3>1. BubblesTyped' /\ OneWriter' /\ Unsaved'
      BY <1>2, <2>1, BubblesTypedKept, OneWriterKept, UnsavedKept DEF BubblesInv
    <3>2. ASSUME kept', ~missed' PROVE IF Deleted' THEN GoneEverywhere' ELSE RowIsShown' /\ ShownIsTrue'
      <4>1. CASE Deleted \/ Deleted'
        BY <1>2, <2>1, <3>2, <4>1, GoneKept DEF BubblesInv
      <4>2. CASE ~Deleted /\ ~Deleted'
        BY <1>2, <2>1, <3>2, <4>2, ShownKept DEF BubblesInv
      <4> QED
        BY <4>1, <4>2
    <3> QED
      BY <3>1, <3>2 DEF BubblesInv, Agreeing
  <2>2. CASE UNCHANGED bubbleVars
    <3>1. UNCHANGED <<own, queued, relay, marking, failing, removing, composing, starting, snapshot, bubble, mailbox,
                      pressed, kept, removed, missed>>
      BY <2>2 DEF bubbleVars, ownVars, taskVars, windowVars, bubblePast
    <3>2. BubblesTyped' /\ OneWriter' /\ Unsaved'
      BY <1>2, <3>1 DEF BubblesInv, BubblesTyped, OneWriter, Unsaved, Running
    <3>3. Agreeing'
      BY <1>2, <3>1 DEF BubblesInv, Agreeing, Deleted, GoneEverywhere, RowIsShown, ShownIsTrue,
         ToldIn, TrueIn,
                        FailureHeard, Showing, HasRead
    <3> QED
      BY <3>2, <3>3 DEF BubblesInv
  <2> QED
    BY <1>2, <2>1, <2>2
<1> QED
  BY <1>1, <1>2, PTL DEF BubblesSpec

\* The saved message, its tasks and its bubbles are what the code can leave.
LEMMA BubblesTypesHold == BubblesSpec => []BubblesTypeOK
<1>1. ASSUME BubblesInv PROVE BubblesTypeOK
  <2>1. BubblesTyped /\ OneWriter /\ Unsaved
    BY <1>1 DEF BubblesInv
  <2>2. Cardinality({k \in marking : ~k.written}) <= 1
    <3>1. CASE {k \in marking : ~k.written} = {}
      BY <3>1, FS_EmptySet
    <3>2. CASE {k \in marking : ~k.written} # {}
      <4>1. PICK m \in marking : ~m.written
        BY <3>2
      <4>2. {k \in marking : ~k.written} = {m}
        BY <2>1, <4>1 DEF OneWriter
      <4> QED
        BY <4>2, FS_Singleton
    <3> QED
      BY <3>1, <3>2
  <2>3. marking \subseteq [by : Page, to : Mark, read : OwnRow, written : BOOLEAN]
    BY <2>1 DEF BubblesTyped, Marks, Mark
  <2>4. \A w \in Page : \A i \in DOMAIN mailbox[w] : mailbox[w][i] \in Render
    BY <2>1 DEF BubblesTyped
  <2> QED
    BY <2>1, <2>2, <2>3, <2>4 DEF BubblesTyped, BubblesTypeOK, Unsaved
<1> QED
  BY <1>1, BubblesInductive, PTL

\* Windows that heard everything show the user's own message as it is saved
\* (useNightjar.ts, markDelivery).
LEMMA BubblesAgreeHolds == BubblesSpec => []BubblesAgree
<1>1. ASSUME BubblesInv PROVE BubblesAgree
  <2> SUFFICES ASSUME kept, AllTold, ~missed, NEW w \in Page, starting[w] = "ready"
               PROVE  IF own = NoOwn THEN bubble[w] = NoOwn
                      ELSE /\ bubble[w] # NoOwn /\ bubble[w].failed = own.failed
                           /\ own.failed \/ bubble[w].status = own.status
    BY DEF BubblesAgree
  <2>1. /\ marking = {} /\ \A d : ~In(<<>>, d)
        /\ \A x \in Page : failing[x] = <<>> /\ removing[x] = <<>> /\ mailbox[x] = <<>>
    BY DEF AllTold, In
  <2>2. Showing(w) = bubble[w] /\ HasRead(w) /\ (own = NoOwn <=> removed) /\ (Deleted <=> removed)
    BY <1>1, <2>1 DEF Showing, HasRead, BubblesInv, Unsaved, Deleted
  <2>3. CASE removed
    BY <1>1, <2>1, <2>2, <2>3 DEF BubblesInv, Agreeing, GoneEverywhere
  <2>4. CASE ~removed
    <3>1. ToldIn(w) /\ TrueIn(w)
      BY <1>1, <2>2, <2>4 DEF BubblesInv, Agreeing, RowIsShown, ShownIsTrue
    <3>2. own \in OwnRow /\ own # NoOwn /\ bubble[w] \in OwnRow \union {NoOwn}
      BY <1>1, <2>2, <2>4 DEF BubblesInv, BubblesTyped
    <3>3. \A x \in Page : failing[x] # <<"mark", "drop">>
      BY <2>1
    <3>4. bubble[w] # NoOwn /\ bubble[w] \in OwnRow
      BY <2>1, <2>2, <3>1, <3>2 DEF ToldIn
    <3>5. own.failed <=> bubble[w].failed
      BY <2>1, <2>2, <3>1 DEF ToldIn, TrueIn, FailureHeard
    <3>6. bubble[w].failed = own.failed
      BY <3>2, <3>4, <3>5 DEF OwnRow
    <3>7. ASSUME ~own.failed PROVE bubble[w].status = own.status
      <4>1. CASE own.status = "none"
        BY <2>2, <3>1, <3>4, <4>1, Ranks DEF TrueIn, OwnRow, Mark
      <4>2. CASE own.status # "none"
        BY <2>1, <2>2, <3>1, <3>5, <3>7, <4>2 DEF ToldIn
      <4> QED
        BY <4>1, <4>2
    <3> QED
      BY <3>2, <3>4, <3>6, <3>7
  <2> QED
    BY <2>3, <2>4
<1> QED
  BY <1>1, BubblesInductive, PTL

\* The saved status never goes back, and neither a failure nor a removal is undone
\* (sessionStore.ts historyUpdate).
LEMMA RowKeepsMoreHolds == BubblesSpec => RowKeepsMore
<1>1. ASSUME BubblesInv, [BubblesNext]_bubbleVars
      PROVE  /\ own # NoOwn /\ own' # NoOwn => /\ Rank(own'.status) >= Rank(own.status)
                                               /\ own.failed => own'.failed
             /\ removed => own' = NoOwn
  <2>0. /\ own \in OwnRow \union {NoOwn} /\ marking \subseteq Marks
        /\ removed => kept /\ own = NoOwn
        /\ ~kept => own = NoOwn
        /\ composing # {} => ~kept
    BY <1>1 DEF BubblesInv, BubblesTyped, Unsaved
  <2>1. ASSUME own' \in {own, NoOwn} PROVE own # NoOwn /\ own' # NoOwn => Rank(own'.status) >= Rank(own.status)
    BY <2>0, <2>1, Ranks DEF OwnRow
  <2>2. CASE own' \in {own, NoOwn}
    BY <2>0, <2>1, <2>2
  <2>3. ASSUME NEW w \in Page, SaveOwn(w), ~kept
        PROVE own = NoOwn /\ ~removed
    BY <2>0, <2>3
  <2>4. ASSUME NEW w \in Page, HistoryMarkFailed(w), own # NoOwn
        PROVE Rank(own'.status) >= Rank(own.status) /\ own'.failed
    <3>1. own'.status = own.status /\ own'.failed = TRUE
      BY <2>0, <2>4 DEF HistoryMarkFailed, OwnRow
    <3> QED
      BY <2>0, <2>4, <3>1, Ranks DEF OwnRow
  <2>5. ASSUME NEW k \in marking, WriteMark(k), own # NoOwn
        PROVE Rank(own'.status) >= Rank(own.status) /\ (own.failed => own'.failed)
    <3>1. /\ k.to \in {"sent", "delivered"} /\ k.read \in OwnRow /\ ~k.written /\ k \in Marks
          /\ own' = [[k.read EXCEPT !.status = k.to] EXCEPT !.failed = @ \/ own.failed]
      BY <2>0, <2>5 DEF Marks, WriteMark, HistoryUpdate
    <3>2. own'.status = k.to /\ own'.failed = (k.read.failed \/ own.failed)
      BY <3>1 DEF OwnRow
    <3>3. k.read.status \notin {k.to, "delivered"} /\ k.read.status = own.status
      BY <1>1, <2>5, <3>1 DEF BubblesInv, OneWriter
    <3> QED
      BY <2>0, <3>1, <3>2, <3>3, Ranks DEF OwnRow, Mark
  <2>6. \/ own' \in {own, NoOwn}
        \/ \E w \in Page : SaveOwn(w) \/ HistoryMarkFailed(w)
        \/ \E k \in marking : WriteMark(k)
    BY <1>1 DEF BubblesNext, bubbleVars, ownVars, taskVars, StartPage, ReadHistory,
       ShowHistory, HearRender, Press, SendFails, ReadMark,
                GivesUp, DropOutbox, TellFailed, DeleteMessage, RemoveStep, ClosePage, TellMark, RelayAnswers,
                RemoveOutbox
  <2>7. ASSUME removed, (\E w \in Page : HistoryMarkFailed(w)) \/ (\E k \in marking : WriteMark(k)) PROVE own' = NoOwn
    BY <2>0, <2>7 DEF HistoryMarkFailed, WriteMark, HistoryUpdate
  <2>8. ASSUME NEW w \in Page, SaveOwn(w) PROVE ~kept
    BY <2>0, <2>8 DEF SaveOwn
  <2> QED
    BY <2>2, <2>3, <2>4, <2>5, <2>6, <2>7, <2>8
<1> QED
  BY <1>1, BubblesInductive, PTL DEF BubblesSpec, RowKeepsMore

-----------------------------------------------------------------------------
(* The three together, in whatever order their steps come.                 *)

\* A behaviour of the three layers, of which a run lets one move, is one of each.
THEOREM LayersMoveAlone == MCContactsSpec => ContactsSpec /\ ScreensSpec /\ BubblesSpec
<1>1. MCContactsInit => ContactsInit /\ ScreensInit /\ BubblesInit
  BY DEF MCContactsInit
<1>2. [ContactsStep \/ ScreensStep \/ BubblesStep]_<<contactsVars, screenVars, bubbleVars, layer>>
        => [ContactsNext]_contactsVars /\ [ScreensNext]_screenVars /\ [BubblesNext]_bubbleVars
  BY DEF ContactsStep, ScreensStep, BubblesStep
<1> QED
  BY <1>1, <1>2, PTL DEF MCContactsSpec, ContactsSpec, ScreensSpec, BubblesSpec

\* What is stored of a person and shown of a conversation are states the code can leave.
THEOREM ContactsAndScreensTypesHold ==
  ContactsSpec /\ ScreensSpec /\ BubblesSpec => []ContactsAndScreensTypeOK
<1>1. ContactsTypeOK /\ ScreensTypeOK /\ BubblesTypeOK => ContactsAndScreensTypeOK
  BY DEF ContactsAndScreensTypeOK
<1> QED
  BY <1>1, ContactsTypesHold, ScreensTypesHold, BubblesTypesHold, PTL

\* A rename or a delete that is over has moved or removed all it was asked for, however
\* often it was cut and resumed (client.ts applyRotation, deleteConversation).
THEOREM ChangesFinishHolds == ContactsSpec => []ChangesFinish
<1>1. DeleteFinishes /\ RenameFinishes => ChangesFinish
  BY DEF ChangesFinish
<1> QED
  BY <1>1, PlansFinish, PTL

\* Every window that has come to the end of what it was told shows the conversation as it
\* is saved, whichever window received, sent, marked or deleted (useNightjar.ts).
THEOREM WindowsAgreeHolds == ScreensSpec /\ BubblesSpec => []WindowsAgree
<1>1. ScreensAgree /\ BubblesAgree => WindowsAgree
  BY DEF WindowsAgree
<1> QED
  BY <1>1, ScreensAgreeHolds, BubblesAgreeHolds, PTL

\* Neither a deleted person, nor a superseded device list, nor a removed message or the
\* status it had before comes back (contactStore.ts, sessionStore.ts historyUpdate).
THEOREM NothingComesBackHolds == ContactsSpec /\ BubblesSpec => NothingComesBack
BY NotRelearned, NeverGoBack, RowKeepsMoreHolds DEF NothingComesBack

\* What is safe of contacts and of what is shown stays so in the behaviours the run
\* checks, whatever the constants.
THEOREM ContactsAreSafe ==
  MCContactsSpec =>
    []ContactsAndScreensTypeOK /\ []ChangesFinish /\ []WindowsAgree /\ NothingComesBack
<1> QED
  BY LayersMoveAlone, ContactsAndScreensTypesHold, ChangesFinishHolds, WindowsAgreeHolds,
     NothingComesBackHolds, PTL
=============================================================================
