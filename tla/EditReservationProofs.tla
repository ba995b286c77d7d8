------------------------- MODULE EditReservationProofs -------------------------
(***************************************************************************)
(* Theorems about the edit dialog and the change integrator below it: no   *)
(* change waits without a wakeup, the form shows the version it edits, a   *)
(* save takes nothing back that others have stored, and a dialog that can  *)
(* be used offers what is stored.                                          *)
(*                                                                         *)
(* What the backend has told and the dialog does not know yet is in three  *)
(* queues, one behind the other: applying, changeList and outbox.          *)
(***************************************************************************)
EXTENDS EditReservation, BackendOperationsProofs

-----------------------------------------------------------------------------
(* The inductive invariant *)

\* The reservation as the dialog may hold it, and what the dialog is told.
Version == {item \in Item : item.type = "Reservation" /\ item.id = 1 /\ item.parts # << >>}

Versions == {{}} \cup {{v} : v \in Version}

Tidings == [kind : {"added", "updated"}, items : {{v} : v \in Version}] \cup {Removed({1}), Cleared, Initialized}

ResultMessage == [kind : {"result"}, result : Status]

Event == {ResultsAvailable, [kind |-> "delete"]} \cup ResultMessage

\* Types of the integrator and of the dialog; a reservation that is edited is one the storage can take.
QueueTypes ==
  /\ changeList \in Seq(Tidings) /\ applying \in Seq(Tidings) /\ outbox \in Seq(Tidings \cup ResultMessage)
  /\ events \in Seq(Event)
  /\ eventScheduled \in BOOLEAN
  /\ adder \in {"idle", "added", "posting"} /\ integrator \in {"idle", "apply"}

DialogTypes ==
  /\ storage \in Database
  /\ requests \in Seq(Version)
  /\ reference \in Versions /\ newest \in Versions
  /\ stream \in {"opened", "following", "closed"}
  /\ status \in {"NotInitialized", "Ready", "Removed", "Saving"}
  /\ ui \in [enabled : BOOLEAN, save : BOOLEAN, merge : BOOLEAN]
  /\ dialogPc \in {"idle", "saving", "asking"}
  /\ saveTask \in {"none", "queued", "continued"} \cup Status
  /\ edited \subseteq FieldNames /\ overtaken \in BOOLEAN /\ visible \in BOOLEAN
  /\ saves \in Nat

FormTypes ==
  /\ form \in Forms
  /\ (reference # {} \/ dialogPc = "asking") => form \in Fields
  /\ DOMAIN resolution = {"merged", "ours", "theirs", "conflicts"}
  /\ dialogPc = "asking" <=> resolution.conflicts # << >>
  /\ dialogPc = "asking" => /\ resolution.merged \in Fields /\ resolution.ours \in Fields /\ resolution.theirs \in Fields
                            /\ resolution.conflicts \in Seq(FieldNames)

\* The event that wakes up the main thread is posted once the flag is set, or is about to be.
FlagIsAnswered ==
  eventScheduled => adder = "posting" \/ \E i \in DOMAIN events : events[i] = ResultsAvailable

\* Which messages a queue has.
Has(queue, kind) == \E i \in DOMAIN queue : queue[i].kind = kind
Once(queue, kind) == \A i, j \in DOMAIN queue : queue[i].kind = kind /\ queue[j].kind = kind => i = j

Under(kind) == Has(applying, kind) \/ Has(changeList, kind) \/ Has(outbox, kind)

\* A change is handed over once, in one queue at a time.
AtMostOnce(kind) ==
  /\ Once(applying, kind) /\ Once(changeList, kind) /\ Once(outbox, kind)
  /\ Has(applying, kind) => ~Has(changeList, kind) /\ ~Has(outbox, kind)
  /\ Has(changeList, kind) => ~Has(outbox, kind)

\* The stream begins with the item, if it is there; nothing is told before.
Begins(queue) == \A i \in DOMAIN queue : queue[i].kind = "added" => i = 1

QueuesBegin ==
  /\ AtMostOnce("initialized")
  /\ Begins(applying) /\ Begins(changeList) /\ Begins(outbox)
  /\ Has(changeList, "added") => applying = << >>
  /\ Has(outbox, "added") => applying = << >> /\ changeList = << >>
  /\ stream = "opened" => applying = << >> /\ changeList = << >> /\ outbox = << >>

\* Until the stream has begun, the dialog can do nothing.
DialogBegins ==
  /\ (Under("added") \/ stream = "opened") =>
       status = "NotInitialized" /\ reference = {} /\ newest = {} /\ saves = 0
  /\ (Under("initialized") \/ stream = "opened") =>
       /\ status \in {"NotInitialized", "Removed"} /\ (status = "Removed" => reference = {})
       /\ ~ui.enabled /\ dialogPc = "idle" /\ saves = 0

StreamBegins == QueuesBegin /\ DialogBegins

\* What the main thread has in its hands while it does something else.
MainThreadPlaces ==
  /\ integrator = "apply" => applying = << >> /\ dialogPc # "saving"
  /\ dialogPc = "saving" => applying = << >> /\ status = "Saving" /\ saveTask \in {"queued"} \cup Status

\* Where the save is, of which there is one at a time.
SavePlaces == <<requests # << >>, Has(outbox, "result"), saveTask, Has(events, "result")>>

NoSave == SavePlaces = <<FALSE, FALSE, "none", FALSE>>

OneSave ==
  /\ requests # << >> => Len(requests) = 1
  /\ Once(outbox, "result") /\ Once(events, "result")
  /\ \/ NoSave
     \/ /\ saveTask = "continued" \/ (saveTask = "queued" /\ dialogPc = "saving")
        /\ ~Has(events, "result")
        /\ Has(outbox, "result") <=> requests = << >>
     \/ /\ saveTask \in Status /\ requests = << >> /\ ~Has(outbox, "result") /\ ~Has(events, "result")
        /\ dialogPc = "saving"
     \/ SavePlaces = <<FALSE, FALSE, "none", TRUE>>
  /\ (saves = 0 \/ status = "Ready" \/ dialogPc = "asking" \/ (status = "Removed" /\ reference # {})) => NoSave

\* What the user can use.
UiInv ==
  /\ ui.enabled => reference # {} /\ (status = "Ready" \/ dialogPc = "saving")
  /\ ui.merge => newest # {}
  /\ dialogPc = "asking" => newest # {} /\ (reference = {} => status = "Removed")

\* The form shows what is edited, and a merge, as far as it is, the newer version, but for what the
\* user has set.
SetByUser(fields, shown) == \A f \in FieldNames : fields[f] # Shown(shown)[f] => f \in edited

MergesNewest ==
  ~overtaken /\ dialogPc = "asking" =>
    /\ resolution.theirs = The(newest).fields
    /\ \A f \in FieldNames : /\ \A i \in DOMAIN resolution.conflicts : resolution.conflicts[i] # f
                             /\ Shown(resolution.merged)[f] # Shown(The(newest).fields)[f]
                             => f \in edited

FormInv == FormFollowsReference /\ MergesNewest

\* A version is the stored one, or an older one; a revision stands for what was stored under it.
Known(db, v) ==
  1 \in DOMAIN db["Reservation"] =>
    LET row == db["Reservation"][1]
    IN  v.revision <= row.revision /\ (v.revision = row.revision => v.fields = row.fields)

TellsKnown(db, m) == m.kind \in {"added", "updated"} => \A v \in m.items : Known(db, v)

KnownIn(db, queue) == \A i \in DOMAIN queue : TellsKnown(db, queue[i])

\* A save is of a version with what the user has set.
SavesKnown(request) ==
  \E base \in Version : /\ Known(storage, base) /\ request.revision = base.revision
                        /\ overtaken \/ SetByUser(request.fields, base.fields)

VersionsKnown ==
  /\ \A v \in reference \cup newest : Known(storage, v)
  /\ KnownIn(storage, applying) /\ KnownIn(storage, changeList) /\ KnownIn(storage, outbox)
  /\ \A i \in DOMAIN requests : SavesKnown(requests[i])

\* What the dialog has once it was told what waits in a queue: the last item there, or what it had.
IsNews(m) == m.kind \in {"added", "updated", "removed", "cleared"}
NewsOf(m) == IF m.kind \in {"added", "updated"} THEN m.items ELSE {}

Leaves(queue, before, after) ==
  \/ before = after /\ \A i \in DOMAIN queue : ~IsNews(queue[i])
  \/ \E k \in DOMAIN queue : /\ IsNews(queue[k]) /\ after = NewsOf(queue[k])
                             /\ \A i \in DOMAIN queue : i > k => ~IsNews(queue[i])

Shows == IF status = "Removed" \/ reference = {} THEN {} ELSE IF newest # {} THEN newest ELSE reference

\* The reservation is gone for the dialog, or will be.
Lost ==
  \/ Under("removed") \/ Under("cleared")
  \/ status = "Removed"
  \/ reference = {} /\ ~Under("added")

\* From what the dialog shows, through the queues, to what is stored.
Chain(shows, told, added, toTell, stored) ==
  \E first, second \in Versions :
    Leaves(told, shows, first) /\ Leaves(added, first, second) /\ Leaves(toTell, second, stored)

ShowsNewest ==
  stream = "following" => Lost \/ Chain(Shows, applying, changeList, outbox, Loaded(storage, ById))

DialogInv ==
  /\ QueueTypes /\ DialogTypes /\ FormTypes
  /\ FlagIsAnswered /\ NoChangeWaits
  /\ StreamBegins /\ MainThreadPlaces /\ OneSave /\ UiInv
  /\ FormInv /\ VersionsKnown /\ ShowsNewest

-----------------------------------------------------------------------------
(* Queues *)

\* What a queue holds after an element was put on it.
LEMMA Pushed ==
  ASSUME NEW S, NEW queue \in Seq(S), NEW e \in S
  PROVE  /\ Append(queue, e) \in Seq(S) /\ Len(queue) \in Nat
         /\ DOMAIN queue = 1 .. Len(queue) /\ DOMAIN Append(queue, e) = 1 .. Len(queue) + 1
         /\ \A i \in DOMAIN queue : Append(queue, e)[i] = queue[i]
         /\ Append(queue, e)[Len(queue) + 1] = e
<1>1. Append(queue, e) \in Seq(S) /\ Len(Append(queue, e)) = Len(queue) + 1
  BY AppendProperties
<1>2. /\ Len(queue) \in Nat /\ DOMAIN queue = 1 .. Len(queue)
      /\ DOMAIN Append(queue, e) = 1 .. Len(Append(queue, e))
  BY <1>1, LenProperties
<1>3. /\ \A i \in 1 .. Len(queue) : Append(queue, e)[i] = queue[i]
      /\ Append(queue, e)[Len(queue) + 1] = e
  BY AppendProperties
<1>. QED
  BY <1>1, <1>2, <1>3

\* What a queue holds after its first element was taken off.
LEMMA Popped ==
  ASSUME NEW S, NEW queue \in Seq(S), queue # << >>
  PROVE  /\ Tail(queue) \in Seq(S) /\ Head(queue) \in S
         /\ 1 \in DOMAIN queue /\ Head(queue) = queue[1]
         /\ \A i \in DOMAIN queue : i \in Nat \ {0} /\ (i # 1 => i - 1 \in DOMAIN Tail(queue))
         /\ \A i \in DOMAIN Tail(queue) : i \in Nat \ {0} /\ i + 1 \in DOMAIN queue /\ Tail(queue)[i] = queue[i + 1]
<1>1. /\ Len(queue) \in Nat \ {0} /\ Head(queue) = queue[1] /\ Len(Tail(queue)) = Len(queue) - 1
      /\ \A i \in 1 .. Len(queue) - 1 : Tail(queue)[i] = queue[i + 1]
  BY HeadAndRest
<1>2. Tail(queue) \in Seq(S) /\ Head(queue) \in S
  BY HeadTailProperties
<1>3. DOMAIN queue = 1 .. Len(queue) /\ DOMAIN Tail(queue) = 1 .. Len(queue) - 1
  BY <1>1, <1>2, LenProperties
<1>. QED
  BY <1>1, <1>2, <1>3

\* An empty queue has nothing.
LEMMA NothingQueued == \A kind : ~Has(<< >>, kind) /\ Once(<< >>, kind)
  BY DEF Has, Once

\* A message which was put on a queue is there, once if there was none of its kind.
LEMMA HasPushed ==
  ASSUME NEW S, NEW queue \in Seq(S), NEW e \in S, NEW kind
  PROVE  /\ Has(Append(queue, e), kind) <=> Has(queue, kind) \/ e.kind = kind
         /\ Once(queue, kind) /\ ~(Has(queue, kind) /\ e.kind = kind) => Once(Append(queue, e), kind)
<1>. DEFINE long == Append(queue, e)
            n == Len(queue) + 1
<1>1. /\ DOMAIN long = DOMAIN queue \cup {n} /\ n \notin DOMAIN queue
      /\ \A i \in DOMAIN queue : long[i] = queue[i]
      /\ long[n] = e
  BY Pushed
<1>. HIDE DEF long, n
<1>2. Has(long, kind) <=> Has(queue, kind) \/ e.kind = kind
  BY <1>1 DEF Has
<1>3. ASSUME Once(queue, kind), ~(Has(queue, kind) /\ e.kind = kind) PROVE Once(long, kind)
  BY <1>1, <1>3 DEF Has, Once
<1>. QED
  BY <1>2, <1>3 DEF long

\* A message of a queue is the first one or among the others.
LEMMA HasPopped ==
  ASSUME NEW S, NEW queue \in Seq(S), queue # << >>, NEW kind
  PROVE  /\ Has(queue, kind) <=> Head(queue).kind = kind \/ Has(Tail(queue), kind)
         /\ Once(queue, kind) => /\ Once(Tail(queue), kind)
                                 /\ Head(queue).kind = kind => ~Has(Tail(queue), kind)
<1>. DEFINE rest == Tail(queue)
            head == Head(queue)
<1>1. /\ 1 \in DOMAIN queue /\ head = queue[1]
      /\ \A i \in DOMAIN queue : i \in Nat \ {0} /\ (i # 1 => i - 1 \in DOMAIN rest)
      /\ \A i \in DOMAIN rest : i \in Nat \ {0} /\ i + 1 \in DOMAIN queue /\ rest[i] = queue[i + 1]
  BY Popped
<1>. HIDE DEF rest, head
<1>2. ASSUME Has(queue, kind) PROVE head.kind = kind \/ Has(rest, kind)
  <2>1. PICK i \in DOMAIN queue : queue[i].kind = kind
    BY <1>2 DEF Has
  <2>2. CASE i = 1
    BY <1>1, <2>1, <2>2
  <2>3. CASE i # 1
    <3>1. i - 1 \in DOMAIN rest /\ rest[i - 1] = queue[i - 1 + 1] /\ i - 1 + 1 = i
      BY <1>1, <2>3
    <3>. QED
      BY <2>1, <3>1 DEF Has
  <2>. QED
    BY <2>2, <2>3
<1>3. ASSUME head.kind = kind \/ Has(rest, kind) PROVE Has(queue, kind)
  BY <1>1, <1>3 DEF Has
<1>4. ASSUME Once(queue, kind) PROVE Once(rest, kind)
  <2>. SUFFICES ASSUME NEW i \in DOMAIN rest, NEW j \in DOMAIN rest, rest[i].kind = kind, rest[j].kind = kind PROVE i = j
    BY DEF Once
  <2>1. i \in Nat /\ j \in Nat /\ i + 1 = j + 1
    BY <1>1, <1>4 DEF Once
  <2>. QED
    BY <2>1
<1>5. ASSUME Once(queue, kind), head.kind = kind, Has(rest, kind) PROVE FALSE
  <2>1. PICK i \in DOMAIN rest : rest[i].kind = kind
    BY <1>5 DEF Has
  <2>2. i \in Nat \ {0} /\ i + 1 = 1
    BY <1>1, <1>5, <2>1 DEF Once
  <2>. QED
    BY <2>2
<1>. QED
  BY <1>2, <1>3, <1>4, <1>5 DEF rest, head

\* What waits in a queue to which a message is put leaves that one, if it is news.
LEMMA LeavesPushed ==
  ASSUME NEW S, NEW queue \in Seq(S), NEW e \in S, NEW before, NEW after
  PROVE  /\ IsNews(e) => Leaves(Append(queue, e), before, NewsOf(e))
         /\ ~IsNews(e) /\ Leaves(queue, before, after) => Leaves(Append(queue, e), before, after)
<1>. DEFINE long == Append(queue, e)
            n == Len(queue) + 1
<1>1. /\ DOMAIN long = DOMAIN queue \cup {n} /\ n \in Nat
      /\ \A i \in DOMAIN queue : long[i] = queue[i] /\ i \in Nat /\ i < n
      /\ long[n] = e
  BY Pushed
<1>. HIDE DEF long, n
<1>2. ASSUME IsNews(e) PROVE Leaves(long, before, NewsOf(e))
  <2>1. n \in DOMAIN long /\ \A i \in DOMAIN long : ~(i > n)
    BY <1>1
  <2>. QED
    BY <1>1, <1>2, <2>1 DEF Leaves
<1>3. ASSUME ~IsNews(e), Leaves(queue, before, after) PROVE Leaves(long, before, after)
  <2>1. CASE before = after /\ \A i \in DOMAIN queue : ~IsNews(queue[i])
    BY <1>1, <1>3, <2>1 DEF Leaves
  <2>2. ASSUME NEW k \in DOMAIN queue, IsNews(queue[k]), after = NewsOf(queue[k]),
               \A i \in DOMAIN queue : i > k => ~IsNews(queue[i])
        PROVE  Leaves(long, before, after)
    <3>1. k \in DOMAIN long /\ long[k] = queue[k] /\ \A i \in DOMAIN long : i > k => ~IsNews(long[i])
      BY <1>1, <1>3, <2>2
    <3>. QED
      BY <2>2, <3>1 DEF Leaves
  <2>. QED
    BY <1>3, <2>1, <2>2 DEF Leaves
<1>. QED
  BY <1>2, <1>3 DEF long

\* The first of a queue has been told: what is left is told after it.
LEMMA LeavesPopped ==
  ASSUME NEW S, NEW queue \in Seq(S), queue # << >>, NEW before, NEW after, Leaves(queue, before, after)
  PROVE  Leaves(Tail(queue), IF IsNews(Head(queue)) THEN NewsOf(Head(queue)) ELSE before, after)
<1>. DEFINE rest == Tail(queue)
            head == Head(queue)
<1>1. /\ 1 \in DOMAIN queue /\ head = queue[1]
      /\ \A i \in DOMAIN queue : i \in Nat \ {0} /\ (i # 1 => i - 1 \in DOMAIN rest)
      /\ \A i \in DOMAIN rest : i \in Nat \ {0} /\ i + 1 \in DOMAIN queue /\ rest[i] = queue[i + 1]
  BY Popped
<1>. HIDE DEF rest, head
<1>2. CASE before = after /\ \A i \in DOMAIN queue : ~IsNews(queue[i])
  BY <1>1, <1>2 DEF Leaves
<1>3. ASSUME NEW k \in DOMAIN queue, IsNews(queue[k]), after = NewsOf(queue[k]),
             \A i \in DOMAIN queue : i > k => ~IsNews(queue[i])
      PROVE  Leaves(rest, IF IsNews(head) THEN NewsOf(head) ELSE before, after)
  <2>1. CASE k = 1
    <3>1. \A i \in DOMAIN rest : ~IsNews(rest[i])
      BY <1>1, <1>3, <2>1
    <3>. QED
      BY <1>1, <1>3, <2>1, <3>1 DEF Leaves
  <2>2. CASE k # 1
    <3>1. k - 1 \in DOMAIN rest /\ rest[k - 1] = queue[k]
      <4>1. k - 1 \in DOMAIN rest /\ k - 1 + 1 = k
        BY <1>1, <2>2
      <4>. QED
        BY <1>1, <4>1
    <3>2. \A i \in DOMAIN rest : i > k - 1 => ~IsNews(rest[i])
      BY <1>1, <1>3
    <3>. QED
      BY <1>3, <3>1, <3>2 DEF Leaves
  <2>. QED
    BY <2>1, <2>2
<1>. QED
  BY <1>2, <1>3 DEF Leaves, rest, head

\* An empty queue changes nothing.
LEMMA LeavesNothing == \A before, after : Leaves(<< >>, before, after) <=> before = after
  BY DEF Leaves

-----------------------------------------------------------------------------
(* Versions, and what the backend tells of an operation *)

\* The endpoint of the dialog is one the backend handles.
LEMMA ByIdHandled == /\ ById \in Endpoint /\ ById.type \in Tables /\ HasHandler(ById)
                     /\ ById.type = "Reservation" /\ ById.service = "by_id" /\ ById.id = 1
  BY DEF ById, Endpoint, Tables, HasHandler

\* A version is the one element of the set that stands for an optional.
LEMMA TheVersion ==
  ASSUME NEW version \in Versions, version # {}
  PROVE  The(version) \in Version /\ version = {The(version)}
  BY DEF Versions, The

\* What a change has for an item.
LEMMA NewsType ==
  ASSUME NEW m \in Tidings
  PROVE  /\ NewsOf(m) \in Versions
         /\ m.kind \in {"added", "updated", "removed", "cleared", "initialized"}
         /\ m.kind \in {"added", "updated"} => m.items \in Versions /\ m.items # {}
  BY DEF Tidings, NewsOf, Versions, Removed, Cleared, Initialized

\* The item of the stream, as it is stored.
LEMMA LoadedVersion ==
  ASSUME NEW db \in Database
  PROVE  /\ Loaded(db, ById) \in Versions
         /\ \A v \in Loaded(db, ById) : /\ 1 \in DOMAIN db["Reservation"]
                                        /\ v.revision = db["Reservation"][1].revision
                                        /\ v.fields = db["Reservation"][1].fields
         /\ \A v \in Version : /\ 1 \in DOMAIN db["Reservation"] /\ v.revision = db["Reservation"][1].revision
                               /\ v.fields = db["Reservation"][1].fields /\ v.parts = db["Reservation"][1].parts
                               => Loaded(db, ById) = {v}
<1>. DEFINE rows == db["Reservation"]
            v1 == ItemAt(db, "Reservation", 1)
<1>1. Loaded(db, ById) = IF 1 \in DOMAIN rows /\ rows[1].parts # << >> THEN {v1} ELSE {}
  BY ByIdHandled DEF Loaded, LoadById, IsLoadable
<1>2. ASSUME 1 \in DOMAIN rows PROVE rows[1] \in Row /\ rows[1].revision \in Nat
  <2>1. rows \in Seq(Row)
    BY DEF Database, Tables
  <2>2. rows[1] \in Row
    BY <1>2, <2>1, ElementOfSeq, LenProperties
  <2>. QED
    BY <2>2 DEF Row
<1>3. /\ v1 = [type |-> "Reservation", id |-> 1, revision |-> rows[1].revision,
               fields |-> rows[1].fields, parts |-> rows[1].parts]
  BY DEF ItemAt
<1>4. ASSUME 1 \in DOMAIN rows, rows[1].parts # << >> PROVE v1 \in Version
  BY <1>2, <1>3, <1>4 DEF Version, Item, ItemTypes, Tables, Row
<1>5. ASSUME NEW v \in Version, 1 \in DOMAIN rows, v.revision = rows[1].revision,
             v.fields = rows[1].fields, v.parts = rows[1].parts
      PROVE  Loaded(db, ById) = {v}
  <2>1. v = v1
    BY <1>3, <1>5 DEF Version, Item
  <2>. QED
    BY <1>1, <1>5, <2>1 DEF Version
<1>. HIDE DEF v1, rows
<1>6. Loaded(db, ById) \in Versions
  BY <1>1, <1>4 DEF Versions
<1>7. \A v \in Loaded(db, ById) : 1 \in DOMAIN rows /\ v.revision = rows[1].revision /\ v.fields = rows[1].fields
  BY <1>1, <1>3
<1>. QED
  BY <1>5, <1>6, <1>7 DEF rows

\* What becomes of the storage, and what a stream is told of it: nothing, a new version of what is
\* stored, that the reservation was deleted, or that all was.
Becomes(db, after, told) ==
  LET old == db["Reservation"]
      new == after["Reservation"]
  IN  \/ told = << >> /\ after = db
      \/ \E v \in Version : /\ told = <<Updated({v})>> /\ 1 \in DOMAIN old /\ 1 \in DOMAIN new
                            /\ new[1].revision = old[1].revision + 1 /\ new[1].revision = v.revision
                            /\ new[1].fields = v.fields
                            /\ Loaded(after, ById) = {v}
      \/ /\ told = <<Removed({1})>>
         /\ 1 \in DOMAIN new => 1 \in DOMAIN old /\ new[1].revision = old[1].revision /\ new[1].fields = old[1].fields
      \/ told = <<Cleared>> /\ 1 \notin DOMAIN new

DialogOperation ==
  [op : {"Update"}, item : Version] \cup {[op |-> "Delete", type |-> "Reservation", id |-> 1], [op |-> "EraseAllData"]}

\* An operation which the dialog is exposed to makes of the storage what its stream is told.
LEMMA OperationBecomes ==
  ASSUME NEW db \in Database, NEW op \in DialogOperation
  PROVE  /\ op \in Operation /\ Effect(db, op) \in Database
         /\ Becomes(db, Effect(db, op), ChangesFor(db, op, ById))
<1>. DEFINE after == Effect(db, op)
            told == ChangesFor(db, op, ById)
            old == db["Reservation"]
            new == after["Reservation"]
<1>0. op \in Operation
  BY DEF DialogOperation, Operation, Version
<1>1. after \in Database
  BY <1>0, EffectType
<1>2. CASE op.op = "EraseAllData"
  <2>1. Succeeds(db, op)
    BY <1>2 DEF Succeeds
  <2>2. after = EmptyDatabase
    BY <1>2, <2>1 DEF Effect, DeleteAll
  <2>3. told = <<Cleared>>
    BY <1>2, <2>1, ByIdHandled DEF ChangesFor, ClearChanges
  <2>4. 1 \notin DOMAIN new
    BY <2>2 DEF EmptyDatabase, Tables
  <2>. QED
    BY <1>0, <1>1, <2>3, <2>4 DEF Becomes
<1>3. CASE op = [op |-> "Delete", type |-> "Reservation", id |-> 1]
  <2>1. Succeeds(db, op)
    BY <1>3 DEF Succeeds
  <2>2. after = DeleteReservationById(db, 1)
    BY <1>3, <2>1 DEF Effect
  <2>3. told = <<Removed({1})>>
    BY <1>3, <2>1, ByIdHandled DEF ChangesFor, RemoveChanges
  <2>4. ASSUME 1 \in DOMAIN new
        PROVE  1 \in DOMAIN old /\ new[1].revision = old[1].revision /\ new[1].fields = old[1].fields
    <3>1. DOMAIN db = Tables /\ "Reservation" \in Tables
      BY DEF Database, Tables
    <3>2. CASE 1 \in DOMAIN old
      <4>1. old[1] \in Row
        BY <3>2, ElementOfSeq, LenProperties DEF Database, Tables
      <4>2. new[1] = [old[1] EXCEPT !.parts = << >>]
        BY <2>2, <3>1, <3>2 DEF DeleteReservationById
      <4>. QED
        BY <3>2, <4>1, <4>2 DEF Row
    <3>3. CASE 1 \notin DOMAIN old
      BY <2>2, <2>4, <3>3 DEF DeleteReservationById
    <3>. QED
      BY <3>2, <3>3
  <2>. QED
    BY <1>0, <1>1, <2>3, <2>4 DEF Becomes
<1>4. ASSUME NEW item \in Version, op = [op |-> "Update", item |-> item]
      PROVE  Becomes(db, after, told)
  <2>0. item.type = "Reservation" /\ item.id = 1 /\ item.revision \in Nat /\ item \in Item /\ item.parts # << >>
    BY DEF Version, Item
  <2>1. Succeeds(db, op) <=> Matches(db, item)
    BY <1>4, <2>0 DEF Succeeds, Tables
  <2>2. CASE ~Succeeds(db, op)
    BY <2>2 DEF Effect, ChangesFor, Becomes
  <2>3. CASE Succeeds(db, op)
    <3>. DEFINE v == [item EXCEPT !.revision = @ + 1]
    <3>1. 1 \in DOMAIN old /\ old[1].revision = item.revision
      BY <2>0, <2>1, <2>3 DEF Matches
    <3>2. /\ v \in Version /\ v.type = "Reservation" /\ v.id = 1 /\ v.revision = item.revision + 1
          /\ v.fields = item.fields /\ v.parts = item.parts
      BY <2>0 DEF Version, Item
    <3>3. told = <<Updated({v})>>
      BY <1>4, <2>3, <3>2, ByIdHandled DEF ChangesFor, ItemChanges
    <3>4. after = UpdateItem(db, item)
      BY <1>4, <2>3 DEF Effect
    <3>5. /\ 1 \in DOMAIN new /\ new[1].revision = old[1].revision + 1
          /\ new[1].fields = item.fields /\ new[1].parts = item.parts
      <4>1. DOMAIN db = Tables /\ "Reservation" \in Tables
        BY DEF Database, Tables
      <4>. QED
        BY <2>0, <3>1, <3>4, <4>1 DEF UpdateItem
    <3>6. Loaded(after, ById) = {v}
      <4>1. v.revision = new[1].revision /\ v.fields = new[1].fields /\ v.parts = new[1].parts
        BY <3>1, <3>2, <3>5
      <4>. HIDE DEF v, after
      <4>. QED
        BY <1>1, <3>2, <3>5, <4>1, LoadedVersion
    <3>. HIDE DEF v, after, told
    <3>. QED
      BY <3>1, <3>2, <3>3, <3>5, <3>6 DEF Becomes
  <2>. QED
    BY <2>2, <2>3
<1>. QED
  BY <1>0, <1>1, <1>2, <1>3, <1>4 DEF DialogOperation

\* The operations of other clients and the saves are of this kind.
LEMMA OperationsOfOthers ==
  ASSUME DialogTypes
  PROVE  OtherOperations \subseteq DialogOperation
<1>1. ASSUME NEW item \in Loaded(storage, ById), NEW fields \in Theirs
      PROVE  [item EXCEPT !.fields = fields] \in Version
  <2>1. item \in Version
    BY LoadedVersion DEF DialogTypes, Versions
  <2>2. fields \in Fields
    BY EditReservationAssumption
  <2>. QED
    BY <2>1, <2>2 DEF Version, Item
<1>. QED
  BY <1>1 DEF OtherOperations, DialogOperation

\* A save is such an operation.
LEMMA OperationsOfSaves ==
  ASSUME NEW item \in Version
  PROVE  SaveOperation(item) \in DialogOperation
  BY DEF SaveOperation, DialogOperation

-----------------------------------------------------------------------------
(* Steps of the queues *)

QueuesStay == UNCHANGED <<applying, changeList, outbox>>

\* A change is handed over, the result of a save is, ...
Delivers ==
  /\ outbox # << >> /\ Head(outbox) \in Tidings
  /\ changeList' = Append(changeList, Head(outbox)) /\ outbox' = Tail(outbox) /\ applying' = applying

Answers ==
  /\ outbox # << >> /\ Head(outbox) \in ResultMessage
  /\ outbox' = Tail(outbox) /\ UNCHANGED <<applying, changeList>>

\* ... the changes are swapped out for the dialog, or for nobody, ...
Swaps == /\ integrator = "apply" /\ stream # "closed"
         /\ applying' = changeList /\ changeList' = << >> /\ outbox' = outbox

Drops == /\ integrator = "apply" /\ stream = "closed"
         /\ applying' = << >> /\ changeList' = << >> /\ outbox' = outbox

\* ... and the dialog is told the first of them.
Handles == applying # << >> /\ applying' = Tail(applying) /\ UNCHANGED <<changeList, outbox>>

Starts == /\ stream = "opened" /\ stream' = "following"
          /\ outbox' = outbox \o Append(InitialChanges(storage, ById), Initialized)
          /\ UNCHANGED <<applying, changeList, storage>>

\* The backend tells of an operation, and of the result if it is a save.
Tells(told, results) ==
  /\ Becomes(storage, storage', told)
  /\ LET more == outbox \o (IF stream = "following" THEN told ELSE << >>)
     IN  \/ results = {} /\ outbox' = more
         \/ \E m \in ResultMessage : results = {m} /\ outbox' = more \o <<m>>
  /\ UNCHANGED <<applying, changeList, stream>>

Moves == (QueuesStay \/ Delivers \/ Answers \/ Swaps \/ Drops \/ Handles) /\ UNCHANGED storage

\* The messages of the outbox are changes or results.
LEMMA HeadOfOutbox ==
  ASSUME QueueTypes, outbox # << >>
  PROVE  /\ Head(outbox) \in Tidings \cup ResultMessage /\ Tail(outbox) \in Seq(Tidings \cup ResultMessage)
         /\ Head(outbox).kind = "result" <=> Head(outbox) \in ResultMessage
         /\ Head(outbox).kind # "result" <=> Head(outbox) \in Tidings
<1>1. Head(outbox) \in Tidings \cup ResultMessage /\ Tail(outbox) \in Seq(Tidings \cup ResultMessage)
  BY Popped DEF QueueTypes
<1>2. \A m \in Tidings : m.kind # "result"
  BY NewsType
<1>3. \A m \in ResultMessage : m.kind = "result"
  BY DEF ResultMessage
<1>. QED
  BY <1>1, <1>2, <1>3

\* A save is executed, or an operation of another client.
LEMMA Executing ==
  ASSUME DialogTypes
  PROVE  /\ ExecuteSave => storage' \in Database /\ \E told, results : results # {} /\ Tells(told, results)
         /\ ExecuteOther => storage' \in Database /\ \E told : Tells(told, {})
<1>1. ASSUME ExecuteSave
      PROVE  storage' \in Database /\ \E told, results : results # {} /\ Tells(told, results)
  <2>. DEFINE op == SaveOperation(Head(requests))
              r == [kind |-> "result", result |-> IF Succeeds(storage, op) THEN "Successful" ELSE "Error"]
  <2>1. op \in DialogOperation
    BY <1>1, Popped, OperationsOfSaves DEF ExecuteSave, DialogTypes
  <2>2. /\ Effect(storage, op) \in Database
        /\ Becomes(storage, Effect(storage, op), ChangesFor(storage, op, ById))
    BY <2>1, OperationBecomes DEF DialogTypes
  <2>3. r \in ResultMessage
    BY DEF ResultMessage, Status
  <2>4. /\ storage' = Effect(storage, op)
        /\ outbox' = (outbox \o Following(op)) \o <<r>>
        /\ UNCHANGED <<applying, changeList, stream>>
    BY <1>1 DEF ExecuteSave, integratorVars
  <2>. HIDE DEF op, r
  <2>5. Tells(ChangesFor(storage, op, ById), {r})
    BY <2>2, <2>3, <2>4 DEF Tells, Following
  <2>. QED
    BY <2>2, <2>4, <2>5
<1>2. ASSUME ExecuteOther
      PROVE  storage' \in Database /\ \E told : Tells(told, {})
  <2>1. PICK op \in OtherOperations : storage' = Effect(storage, op) /\ outbox' = outbox \o Following(op)
    BY <1>2 DEF ExecuteOther
  <2>2. /\ Effect(storage, op) \in Database
        /\ Becomes(storage, Effect(storage, op), ChangesFor(storage, op, ById))
    BY <2>1, OperationsOfOthers, OperationBecomes DEF DialogTypes
  <2>3. UNCHANGED <<applying, changeList, stream>>
    BY <1>2 DEF ExecuteOther, integratorVars
  <2>4. PICK told : told = ChangesFor(storage, op, ById)
    OBVIOUS
  <2>6. Tells(told, {})
    BY <2>1, <2>2, <2>3, <2>4 DEF Tells, Following
  <2>. QED
    BY <2>1, <2>2, <2>6
<1>. QED
  BY <1>1, <1>2

\* Every step moves messages in one of these ways.
LEMMA StepsOfQueues ==
  ASSUME QueueTypes, [Next]_vars
  PROVE  Moves \/ Starts \/ ExecuteSave \/ ExecuteOther
<1>. USE DEF integratorVars, queueVars, backendVars
<1>1. CASE User
  <2>1. CASE UserEdits BY <2>1 DEF UserEdits, Moves, QueuesStay
  <2>2. CASE UserCloses BY <2>2 DEF UserCloses, Moves, QueuesStay
  <2>3. CASE SaveClicked BY <2>3 DEF SaveClicked, Moves, QueuesStay
  <2>4. CASE MergeChangesClicked BY <2>4 DEF MergeChangesClicked, Moves, QueuesStay
  <2>5. ASSUME NEW version \in {"base", "ours", "theirs"}, UserChooses(version) PROVE Moves
    BY <2>5 DEF UserChooses, Moves, QueuesStay
  <2>. QED
    BY <1>1, <2>1, <2>2, <2>3, <2>4, <2>5 DEF User
<1>2. CASE MainThread
  <2>1. CASE ThenSaveTaskUpdated BY <2>1 DEF ThenSaveTaskUpdated, Moves, QueuesStay
  <2>2. CASE RunSaveTaskUpdated BY <2>2 DEF RunSaveTaskUpdated, Moves, QueuesStay
  <2>3. CASE DeleteDialog BY <2>3 DEF DeleteDialog, Moves, QueuesStay
  <2>4. CASE ReservationsInitialized BY <2>4 DEF ReservationsInitialized, Handle, Moves, Handles
  <2>5. CASE ReservationsAdded BY <2>5 DEF ReservationsAdded, Handle, Moves, Handles
  <2>6. CASE ReservationsUpdated BY <2>6 DEF ReservationsUpdated, Handle, Moves, Handles
  <2>7. CASE ReservationsRemoved BY <2>7 DEF ReservationsRemoved, Handle, Moves, Handles
  <2>8. CASE ApplyChanges
    BY <2>8 DEF ApplyChanges, HandleAvailableResults, ApplyStreamChanges, Moves, QueuesStay, Swaps, Drops
  <2>. QED
    BY <1>2, <2>1, <2>2, <2>3, <2>4, <2>5, <2>6, <2>7, <2>8 DEF MainThread
<1>3. CASE Backend
  <2>1. CASE StartStream BY <2>1 DEF StartStream, Starts
  <2>2. CASE ExecuteSave BY <2>2
  <2>3. CASE DeliverChange BY <2>3, HeadOfOutbox DEF DeliverChange, AddStreamChange, Moves, Delivers
  <2>4. CASE DeliverResult BY <2>4, HeadOfOutbox DEF DeliverResult, Moves, Answers
  <2>5. CASE AddChanges BY <2>5 DEF AddChanges, EmitResultsAvailable, PostResultsAvailable, Moves, QueuesStay
  <2>. QED
    BY <1>3, <2>1, <2>2, <2>3, <2>4, <2>5 DEF Backend
<1>4. CASE Terminated \/ UNCHANGED vars
  BY <1>4 DEF Terminated, vars, Moves, QueuesStay
<1>. QED
  BY <1>1, <1>2, <1>3, <1>4 DEF Next

\* The queues after a step
LEMMA OutboxTold ==
  ASSUME QueueTypes, NEW told, NEW results, Tells(told, results)
  PROVE  \E more \in Seq(Tidings \cup ResultMessage) :
           /\ more = outbox \/ \E m \in Tidings : stream = "following" /\ told = <<m>> /\ more = Append(outbox, m)
           /\ told # << >> /\ stream = "following" => \E m \in Tidings : told = <<m>> /\ more = Append(outbox, m)
           /\ (outbox' = more /\ results = {}) \/ \E m \in ResultMessage : outbox' = Append(more, m) /\ results = {m}
<1>. DEFINE M == Tidings \cup ResultMessage
<1>1. outbox \in Seq(M)
  BY DEF QueueTypes
<1>2. told = << >> \/ \E m \in Tidings : told = <<m>>
  <2>1. \A v \in Version : Updated({v}) \in Tidings
    BY DEF Updated, Tidings
  <2>2. Removed({1}) \in Tidings /\ Cleared \in Tidings
    BY DEF Tidings
  <2>. QED
    BY <2>1, <2>2 DEF Tells, Becomes
<1>3. \A q \in Seq(M) : q \o << >> = q
  BY ConcatEmptySeq
<1>4. \A q \in Seq(M), m \in M : q \o <<m>> = Append(q, m) /\ Append(q, m) \in Seq(M)
  BY AppendIsConcat, AppendProperties
<1>. DEFINE more == outbox \o (IF stream = "following" THEN told ELSE << >>)
<1>5. /\ more = outbox \/ \E m \in Tidings : stream = "following" /\ told = <<m>> /\ more = Append(outbox, m)
      /\ told # << >> /\ stream = "following" => \E m \in Tidings : told = <<m>> /\ more = Append(outbox, m)
  <2>1. CASE stream = "following" /\ told # << >>
    <3>1. PICK m \in Tidings : told = <<m>>
      BY <1>2, <2>1
    <3>2. more = Append(outbox, m)
      BY <1>1, <1>4, <2>1, <3>1
    <3>. QED
      BY <2>1, <3>1, <3>2
  <2>2. CASE ~(stream = "following" /\ told # << >>)
    BY <1>1, <1>3, <2>2
  <2>. QED
    BY <2>1, <2>2
<1>6. more \in Seq(M)
  BY <1>1, <1>4, <1>5
<1>7. (outbox' = more /\ results = {}) \/ \E m \in ResultMessage : outbox' = Append(more, m) /\ results = {m}
  <2>1. (outbox' = more /\ results = {}) \/ \E m \in ResultMessage : outbox' = more \o <<m>> /\ results = {m}
    BY DEF Tells
  <2>. HIDE DEF more
  <2>. QED
    BY <1>4, <1>6, <2>1
<1>. QED
  BY <1>5, <1>6, <1>7

\* A stream that starts is told of the item, if it is stored, and that it has begun.
LEMMA OutboxStarted ==
  ASSUME QueueTypes, storage \in Database, Starts
  PROVE  \E more \in Seq(Tidings \cup ResultMessage) :
           /\ outbox' = Append(more, Initialized)
           /\ \/ more = outbox /\ Loaded(storage, ById) = {}
              \/ /\ Loaded(storage, ById) # {} /\ Added(Loaded(storage, ById)) \in Tidings
                 /\ more = Append(outbox, Added(Loaded(storage, ById)))
<1>. DEFINE M == Tidings \cup ResultMessage
            items == Loaded(storage, ById)
<1>1. outbox \in Seq(M) /\ Initialized \in Tidings
  BY DEF QueueTypes, Tidings
<1>2. items # {} => Added(items) \in Tidings
  BY LoadedVersion DEF Added, Tidings, Versions
<1>3. InitialChanges(storage, ById) = IF items = {} THEN << >> ELSE <<Added(items)>>
  BY ByIdHandled DEF InitialChanges
<1>4. \A q \in Seq(M), m \in M : q \o <<m>> = Append(q, m) /\ Append(q, m) \in Seq(M)
  BY AppendIsConcat, AppendProperties
<1>. HIDE DEF items
<1>5. CASE items = {}
  <2>1. Append(<< >>, Initialized) = <<Initialized>>
    OBVIOUS
  <2>. QED
    BY <1>1, <1>3, <1>4, <1>5, <2>1 DEF Starts, items
<1>6. CASE items # {}
  <2>1. Append(<<Added(items)>>, Initialized) = <<Added(items)>> \o <<Initialized>>
    BY <1>1, <1>2, <1>6, AppendIsConcat, EmptySeq
  <2>2. Associated(outbox, <<Added(items)>>, <<Initialized>>)
    <3>1. Added(items) \in M /\ Initialized \in M
      BY <1>1, <1>2, <1>6
    <3>. HIDE DEF M
    <3>2. <<Added(items)>> \in Seq(M) /\ <<Initialized>> \in Seq(M)
      BY <3>1
    <3>. QED
      BY <1>1, <3>2, Associate
  <2>3. outbox' = (outbox \o <<Added(items)>>) \o <<Initialized>>
    BY <1>3, <1>6, <2>1, <2>2 DEF Starts, Associated
  <2>. QED
    BY <1>1, <1>2, <1>4, <1>6, <2>3 DEF items
<1>. QED
  BY <1>5, <1>6

-----------------------------------------------------------------------------
(* Types *)

\* A step puts nothing but tidings into the queues, and results only into the outbox.
LEMMA NextQueues ==
  ASSUME QueueTypes, DialogTypes, [Next]_vars
  PROVE  changeList' \in Seq(Tidings) /\ applying' \in Seq(Tidings) /\ outbox' \in Seq(Tidings \cup ResultMessage)
<1>1. CASE Moves
  <2>1. CASE QueuesStay BY <2>1 DEF QueuesStay, QueueTypes
  <2>2. CASE Delivers
    BY <2>2, HeadOfOutbox, AppendProperties DEF Delivers, QueueTypes
  <2>3. CASE Answers
    BY <2>3, HeadOfOutbox DEF Answers, QueueTypes
  <2>4. CASE Swaps \/ Drops
    BY <2>4, EmptySeq DEF Swaps, Drops, QueueTypes
  <2>5. CASE Handles
    BY <2>5, Popped DEF Handles, QueueTypes
  <2>. QED
    BY <1>1, <2>1, <2>2, <2>3, <2>4, <2>5 DEF Moves
<1>2. CASE Starts
  <2>1. outbox' \in Seq(Tidings \cup ResultMessage)
    <3>1. Initialized \in Tidings
      BY DEF Tidings
    <3>. QED
      BY <1>2, <3>1, OutboxStarted, AppendProperties DEF DialogTypes
  <2>. QED
    BY <1>2, <2>1 DEF Starts, QueueTypes
<1>3. ASSUME NEW told, NEW results, Tells(told, results)
      PROVE  changeList' \in Seq(Tidings) /\ applying' \in Seq(Tidings) /\ outbox' \in Seq(Tidings \cup ResultMessage)
  <2>1. outbox' \in Seq(Tidings \cup ResultMessage)
    BY <1>3, OutboxTold, AppendProperties
  <2>. QED
    BY <1>3, <2>1 DEF Tells, QueueTypes
<1>. QED
  BY <1>1, <1>2, <1>3, StepsOfQueues, Executing

\* Every step keeps the types of the queues and of the integrator, ...
LEMMA NextQueueTypes ==
  ASSUME QueueTypes, DialogTypes, [Next]_vars
  PROVE  QueueTypes'
<1>. DEFINE Rest == /\ events' \in Seq(Event) /\ eventScheduled' \in BOOLEAN
                    /\ adder' \in {"idle", "added", "posting"} /\ integrator' \in {"idle", "apply"}
<1>. SUFFICES Rest
  BY NextQueues DEF QueueTypes
<1>0. /\ events \in Seq(Event) /\ eventScheduled \in BOOLEAN
      /\ adder \in {"idle", "added", "posting"} /\ integrator \in {"idle", "apply"}
  BY DEF QueueTypes
<1>. USE <1>0 DEF integratorVars, queueVars, backendVars
<1>a. \A e \in Event : Append(events, e) \in Seq(Event)
  BY AppendProperties
<1>b. events # << >> => Tail(events) \in Seq(Event)
  BY Popped
<1>c. ResultsAvailable \in Event /\ [kind |-> "delete"] \in Event
  BY DEF Event
<1>d. ASSUME NEW posted \in Seq(Event), Close(posted) PROVE events' \in Seq(Event)
  BY <1>c, <1>d, AppendProperties DEF Close
<1>1. CASE User
  <2>1. CASE UserEdits BY <2>1 DEF UserEdits
  <2>2. CASE UserCloses BY <2>2, <1>d DEF UserCloses
  <2>3. CASE SaveClicked BY <2>3 DEF SaveClicked
  <2>4. CASE MergeChangesClicked BY <2>4 DEF MergeChangesClicked
  <2>5. ASSUME NEW version \in {"base", "ours", "theirs"}, UserChooses(version) PROVE Rest
    BY <2>5 DEF UserChooses
  <2>. QED
    BY <1>1, <2>1, <2>2, <2>3, <2>4, <2>5 DEF User
<1>2. CASE MainThread
  <2>1. CASE ThenSaveTaskUpdated BY <2>1, <1>d DEF ThenSaveTaskUpdated, SaveTaskUpdated
  <2>2. CASE RunSaveTaskUpdated BY <2>2, <1>b, <1>d DEF RunSaveTaskUpdated, SaveTaskUpdated
  <2>3. CASE DeleteDialog BY <2>3, <1>b DEF DeleteDialog
  <2>4. CASE ReservationsInitialized BY <2>4 DEF ReservationsInitialized, Handle
  <2>5. CASE ReservationsAdded BY <2>5 DEF ReservationsAdded, Handle
  <2>6. CASE ReservationsUpdated BY <2>6 DEF ReservationsUpdated, Handle
  <2>7. CASE ReservationsRemoved BY <2>7 DEF ReservationsRemoved, Handle
  <2>8. CASE ApplyChanges
    BY <2>8, <1>b DEF ApplyChanges, HandleAvailableResults, ApplyStreamChanges
  <2>. QED
    BY <1>2, <2>1, <2>2, <2>3, <2>4, <2>5, <2>6, <2>7, <2>8 DEF MainThread
<1>3. CASE Backend
  <2>1. CASE StartStream BY <2>1 DEF StartStream
  <2>2. CASE ExecuteSave BY <2>2 DEF ExecuteSave
  <2>3. CASE DeliverChange BY <2>3 DEF DeliverChange, AddStreamChange
  <2>4. CASE DeliverResult
    <3>1. Head(outbox) \in Event
      BY <2>4, HeadOfOutbox DEF DeliverResult, Event
    <3>. QED
      BY <2>4, <3>1, <1>a DEF DeliverResult
  <2>5. CASE AddChanges BY <2>5, <1>a, <1>c DEF AddChanges, EmitResultsAvailable, PostResultsAvailable
  <2>. QED
    BY <1>3, <2>1, <2>2, <2>3, <2>4, <2>5 DEF Backend
<1>4. CASE ExecuteOther
  BY <1>4 DEF ExecuteOther
<1>5. CASE Terminated \/ UNCHANGED vars
  BY <1>5 DEF Terminated, vars
<1>. QED
  BY <1>1, <1>2, <1>3, <1>4, <1>5 DEF Next

-----------------------------------------------------------------------------
(* The values of a form *)

\* The fields of two values may be mixed, and a value is changed in one field.
LEMMA MixedFields ==
  ASSUME NEW f \in Fields, NEW g \in Fields
  PROVE  [description |-> f.description, adults |-> g.adults] \in Fields
<1>1. f = [description |-> f.description, adults |-> f.adults] /\ [f EXCEPT !.adults = g.adults] \in Fields
  BY EditReservationAssumption
<1>2. [f EXCEPT !.adults = g.adults] = [description |-> f.description, adults |-> g.adults]
  BY <1>1
<1>. QED
  BY <1>1, <1>2

\* A form shows a value of its own range, field by field.
LEMMA ShownForm ==
  ASSUME NEW f \in Fields
  PROVE  /\ Shown(f) \in Fields /\ Shown(f) \in Forms
         /\ f.adults \in Nat
         /\ Shown(f)["description"] = f["description"]
         /\ Shown(f)["adults"] = IF f["adults"] > FormMax THEN FormMax ELSE f["adults"]
<1>1. /\ f = [description |-> f.description, adults |-> f.adults] /\ f.adults \in Nat /\ FormMax \in Nat
      /\ f.adults > FormMax => [f EXCEPT !.adults = FormMax] \in Fields
  BY EditReservationAssumption
<1>2. [f EXCEPT !.adults = FormMax] = [description |-> f.description, adults |-> FormMax]
  BY <1>1
<1>3. Shown(f) \in Fields
  BY <1>1 DEF Shown
<1>4. /\ Shown(f) = [description |-> f.description, adults |-> IF f.adults > FormMax THEN FormMax ELSE f.adults]
  BY <1>1, <1>2 DEF Shown
<1>5. Shown(f) \in Forms
  <2>1. (IF f.adults > FormMax THEN FormMax ELSE f.adults) \in 0 .. FormMax
    BY <1>1
  <2>2. f.description \in {h.description : h \in Fields} \cup {""}
    OBVIOUS
  <2>. DEFINE D == {h.description : h \in Fields} \cup {""}
              N == 0 .. FormMax
  <2>3. Forms = [description : D, adults : N]
    BY DEF Forms
  <2>. HIDE DEF D, N
  <2>4. \A d \in D, n \in N : [description |-> d, adults |-> n] \in [description : D, adults : N]
    OBVIOUS
  <2>. QED
    BY <1>4, <2>1, <2>2, <2>3, <2>4 DEF D, N
<1>. QED
  BY <1>1, <1>3, <1>4, <1>5

\* A value of which each field is that of one of two others is a value, and can be shown if they can.
LEMMA ChangedForm ==
  ASSUME NEW f \in Fields, NEW g \in Fields, NEW field \in FieldNames
  PROVE  /\ [f EXCEPT ![field] = g[field]] \in Fields
         /\ f \in Forms /\ g \in Forms => [f EXCEPT ![field] = g[field]] \in Forms
<1>1. /\ f = [description |-> f.description, adults |-> f.adults]
      /\ g = [description |-> g.description, adults |-> g.adults]
  BY EditReservationAssumption
<1>2. CASE field = "description"
  <2>1. [f EXCEPT ![field] = g[field]] = [description |-> g.description, adults |-> f.adults]
    <3>1. PICK a, b : f = [description |-> a, adults |-> b]
      BY <1>1
    <3>2. g[field] = g.description /\ f.adults = b
      BY <1>2, <3>1
    <3>3. [[description |-> a, adults |-> b] EXCEPT !["description"] = g.description]
            = [description |-> g.description, adults |-> b]
      OBVIOUS
    <3>. QED
      BY <1>2, <3>1, <3>2, <3>3
  <2>. QED
    BY <1>1, <1>2, <2>1, MixedFields DEF Forms, FieldNames
<1>3. CASE field = "adults"
  <2>1. [f EXCEPT ![field] = g[field]] = [description |-> f.description, adults |-> g.adults]
    <3>1. PICK a, b : f = [description |-> a, adults |-> b]
      BY <1>1
    <3>2. g[field] = g.adults /\ f.description = a
      BY <1>3, <3>1
    <3>3. [[description |-> a, adults |-> b] EXCEPT !["adults"] = g.adults]
            = [description |-> a, adults |-> g.adults]
      OBVIOUS
    <3>. QED
      BY <1>3, <3>1, <3>2, <3>3
  <2>. QED
    BY <1>1, <1>3, <2>1, MixedFields DEF Forms, FieldNames
<1>. QED
  BY <1>2, <1>3 DEF FieldNames

\* Merging three values gives a value, and the fields in which they are in conflict.
LEMMA Merged ==
  ASSUME NEW base \in Fields, NEW ours \in Fields, NEW theirs \in Fields
  PROVE  /\ Merge(base, ours, theirs).merged \in Fields
         /\ \A f \in FieldNames :
              Merge(base, ours, theirs).merged[f] = IF ours[f] = theirs[f] \/ theirs[f] = base[f] THEN ours[f]
                                                    ELSE IF ours[f] = base[f] THEN theirs[f] ELSE base[f]
         /\ Merge(base, ours, theirs).conflicts \in Seq(FieldNames)
         /\ \A f \in FieldNames :
              ours[f] # base[f] /\ theirs[f] # base[f] /\ ours[f] # theirs[f]
              => \E i \in DOMAIN Merge(base, ours, theirs).conflicts : Merge(base, ours, theirs).conflicts[i] = f
<1>. DEFINE M == [f \in DOMAIN base |-> IF ours[f] = theirs[f] \/ theirs[f] = base[f] THEN ours[f]
                                        ELSE IF ours[f] = base[f] THEN theirs[f] ELSE base[f]]
            C(f) == Conflict(base, ours, theirs, f)
            D == C("description")
            A == C("adults")
<1>0. Merge(base, ours, theirs) = [merged |-> M, conflicts |-> D \o A]
  BY DEF Merge, Conflicts
<1>1. DOMAIN base = FieldNames
  BY EditReservationAssumption DEF FieldNames
<1>2. M = [description |-> M["description"], adults |-> M["adults"]]
  BY <1>1 DEF FieldNames
<1>3. \E a \in Fields : M["description"] = a.description
  BY <1>1 DEF FieldNames
<1>4. \E b \in Fields : M["adults"] = b.adults
  BY <1>1 DEF FieldNames
<1>5. M \in Fields
  BY <1>2, <1>3, <1>4, MixedFields
<1>6. \A f \in FieldNames : M[f] = IF ours[f] = theirs[f] \/ theirs[f] = base[f] THEN ours[f]
                                   ELSE IF ours[f] = base[f] THEN theirs[f] ELSE base[f]
  BY <1>1
<1>7. /\ D = << >> \/ D = <<"description">>
      /\ A = << >> \/ A = <<"adults">>
      /\ D \in Seq(FieldNames) /\ A \in Seq(FieldNames)
  <2>1. \A f \in FieldNames : C(f) = << >> \/ C(f) = <<f>>
    BY DEF Conflict
  <2>2. \A f \in FieldNames : <<f>> \in Seq(FieldNames)
    OBVIOUS
  <2>3. << >> \in Seq(FieldNames) /\ "description" \in FieldNames /\ "adults" \in FieldNames
    BY EmptySeq DEF FieldNames
  <2>. HIDE DEF C
  <2>. QED
    BY <2>1, <2>2, <2>3
<1>8. D \o A \in Seq(FieldNames)
  BY <1>7, ConcatProperties
<1>9. ASSUME NEW f \in FieldNames, ours[f] # base[f], theirs[f] # base[f], ours[f] # theirs[f]
      PROVE  \E i \in DOMAIN (D \o A) : (D \o A)[i] = f
  <2>. HIDE DEF D, A
  <2>1. /\ Len(D) \in Nat /\ Len(A) \in Nat /\ DOMAIN (D \o A) = 1 .. Len(D) + Len(A)
        /\ \A i \in 1 .. Len(D) : (D \o A)[i] = D[i]
        /\ \A i \in 1 .. Len(A) : (D \o A)[Len(D) + i] = A[i]
    <3>1. Len(D) \in Nat /\ Len(A) \in Nat
      BY <1>7, LenProperties
    <3>2. DOMAIN (D \o A) = 1 .. Len(D \o A) /\ Len(D \o A) = Len(D) + Len(A)
      BY <1>7, <1>8, ConcatProperties, LenProperties
    <3>3. \A i \in 1 .. Len(D) + Len(A) : (D \o A)[i] = IF i <= Len(D) THEN D[i] ELSE A[i - Len(D)]
      BY <1>7, ConcatProperties
    <3>4. ASSUME NEW i \in 1 .. Len(A) PROVE (D \o A)[Len(D) + i] = A[i]
      <4>1. Len(D) + i \in 1 .. Len(D) + Len(A) /\ ~(Len(D) + i <= Len(D)) /\ Len(D) + i - Len(D) = i
        BY <3>1
      <4>. QED
        BY <3>3, <4>1
    <3>. QED
      BY <3>1, <3>2, <3>3, <3>4
  <2>2. CASE f = "description"
    <3>1. D = <<"description">>
      BY <1>9, <2>2 DEF D, Conflict
    <3>2. 1 \in 1 .. Len(D) /\ D[1] = f
      BY <2>2, <3>1
    <3>. QED
      BY <2>1, <3>2
  <2>3. CASE f = "adults"
    <3>1. A = <<"adults">>
      BY <1>9, <2>3 DEF A, Conflict
    <3>2. 1 \in 1 .. Len(A) /\ A[1] = f
      BY <2>3, <3>1
    <3>3. Len(D) + 1 \in 1 .. Len(D) + Len(A)
      BY <2>1, <3>2
    <3>. QED
      BY <2>1, <3>2, <3>3
  <2>. QED
    BY <2>2, <2>3 DEF FieldNames
<1>. HIDE DEF M, D, A
<1>. QED
  BY <1>0, <1>5, <1>6, <1>8, <1>9

\* The version of a reservation and its fields
LEMMA FieldsOfVersion ==
  ASSUME NEW version \in Versions, version # {}
  PROVE  The(version).fields \in Fields
  BY TheVersion DEF Version, Item

\* ... every version the dialog holds a version of the reservation, ...
LEMMA NextVersions ==
  ASSUME QueueTypes, DialogTypes, FormTypes, UiInv, [Next]_vars
  PROVE  /\ storage' \in Database /\ requests' \in Seq(Version)
         /\ reference' \in Versions /\ newest' \in Versions
<1>. DEFINE Rest == requests' \in Seq(Version) /\ reference' \in Versions /\ newest' \in Versions
<1>1. storage' \in Database
  BY StepsOfQueues, Executing DEF DialogTypes, Moves, Starts
<1>. SUFFICES Rest
  BY <1>1
<1>2. requests \in Seq(Version) /\ reference \in Versions /\ newest \in Versions /\ {} \in Versions
  BY DEF DialogTypes, Versions
<1>. USE <1>2 DEF integratorVars, queueVars, backendVars, versionVars
<1>3. CASE User
  <2>1. CASE UserEdits BY <2>1 DEF UserEdits
  <2>2. CASE UserCloses BY <2>2 DEF UserCloses
  <2>3. CASE SaveClicked
    <3>1. reference # {} /\ form \in Fields
      BY <2>3 DEF SaveClicked, UiInv, FormTypes
    <3>2. [The(reference) EXCEPT !.fields = form] \in Version
      <4>1. PICK v \in Version : v = The(reference)
        BY <3>1, TheVersion
      <4>2. [v EXCEPT !.fields = form] \in Version
        BY <3>1 DEF Version, Item
      <4>. QED
        BY <4>1, <4>2
    <3>. QED
      BY <2>3, <3>2, AppendProperties DEF SaveClicked
  <2>4. CASE MergeChangesClicked BY <2>4 DEF MergeChangesClicked, FinishMerge
  <2>5. ASSUME NEW version \in {"base", "ours", "theirs"}, UserChooses(version) PROVE Rest
    BY <2>5 DEF UserChooses, FinishMerge
  <2>. QED
    BY <1>3, <2>1, <2>2, <2>3, <2>4, <2>5 DEF User
<1>4. CASE MainThread
  <2>1. CASE ThenSaveTaskUpdated BY <2>1 DEF ThenSaveTaskUpdated
  <2>2. CASE RunSaveTaskUpdated BY <2>2 DEF RunSaveTaskUpdated
  <2>3. CASE DeleteDialog BY <2>3 DEF DeleteDialog
  <2>4. CASE ReservationsInitialized BY <2>4 DEF ReservationsInitialized, Handle
  <2>5. CASE ReservationsAdded \/ ReservationsUpdated
    <3>1. applying # << >> /\ Head(applying).kind \in {"added", "updated"}
      BY <2>5 DEF ReservationsAdded, ReservationsUpdated, Handle
    <3>2. Head(applying).items \in Versions
      BY <3>1, Popped, NewsType DEF QueueTypes
    <3>. QED
      BY <2>5, <3>2 DEF ReservationsAdded, ReservationsUpdated, Handle
  <2>7. CASE ReservationsRemoved BY <2>7 DEF ReservationsRemoved, Handle
  <2>8. CASE ApplyChanges
    BY <2>8 DEF ApplyChanges
  <2>. QED
    BY <1>4, <2>1, <2>2, <2>3, <2>4, <2>5, <2>7, <2>8 DEF MainThread
<1>5. CASE Backend
  <2>1. CASE StartStream BY <2>1 DEF StartStream
  <2>2. CASE ExecuteSave BY <2>2, Popped DEF ExecuteSave
  <2>3. CASE DeliverChange BY <2>3 DEF DeliverChange
  <2>4. CASE DeliverResult BY <2>4 DEF DeliverResult
  <2>5. CASE AddChanges BY <2>5 DEF AddChanges
  <2>. QED
    BY <1>5, <2>1, <2>2, <2>3, <2>4, <2>5 DEF Backend
<1>6. CASE ExecuteOther
  BY <1>6 DEF ExecuteOther
<1>7. CASE Terminated \/ UNCHANGED vars
  BY <1>7 DEF Terminated, vars
<1>. QED
  BY <1>3, <1>4, <1>5, <1>6, <1>7 DEF Next

\* ... the types of the dialog and of the backend, ...
LEMMA NextDialogTypes ==
  ASSUME QueueTypes, DialogTypes, FormTypes, UiInv, [Next]_vars
  PROVE  DialogTypes'
<1>. DEFINE Rest == /\ stream' \in {"opened", "following", "closed"}
                    /\ status' \in {"NotInitialized", "Ready", "Removed", "Saving"}
                    /\ ui' \in [enabled : BOOLEAN, save : BOOLEAN, merge : BOOLEAN]
                    /\ dialogPc' \in {"idle", "saving", "asking"}
                    /\ saveTask' \in {"none", "queued", "continued"} \cup Status
                    /\ edited' \subseteq FieldNames /\ overtaken' \in BOOLEAN /\ visible' \in BOOLEAN
                    /\ saves' \in Nat
<1>. SUFFICES Rest
  BY NextVersions DEF DialogTypes
<1>1. /\ stream \in {"opened", "following", "closed"}
      /\ status \in {"NotInitialized", "Ready", "Removed", "Saving"}
      /\ ui \in [enabled : BOOLEAN, save : BOOLEAN, merge : BOOLEAN]
      /\ dialogPc \in {"idle", "saving", "asking"}
      /\ saveTask \in {"none", "queued", "continued"} \cup Status
      /\ edited \subseteq FieldNames /\ overtaken \in BOOLEAN /\ visible \in BOOLEAN
      /\ saves \in Nat
  BY DEF DialogTypes
<1>2. UpdateUI => ui' \in [enabled : BOOLEAN, save : BOOLEAN, merge : BOOLEAN]
  BY DEF UpdateUI
<1>3. \A posted : Close(posted) => visible' \in BOOLEAN
  BY DEF Close
<1>4. \A result, posted : SaveTaskUpdated(result, posted) =>
        visible' \in BOOLEAN /\ status' \in {"NotInitialized", "Ready", "Removed", "Saving"}
  BY <1>1, <1>3 DEF SaveTaskUpdated
<1>. USE <1>1 DEF integratorVars, queueVars, backendVars, versionVars, formVars, taskVars
<1>5. CASE User
  <2>1. CASE UserEdits BY <2>1 DEF UserEdits
  <2>2. CASE UserCloses BY <2>2, <1>3 DEF UserCloses
  <2>3. CASE SaveClicked BY <2>3 DEF SaveClicked
  <2>4. CASE MergeChangesClicked BY <2>4, <1>2 DEF MergeChangesClicked, FinishMerge
  <2>5. ASSUME NEW version \in {"base", "ours", "theirs"}, UserChooses(version) PROVE Rest
    <3>1. Head(resolution.conflicts) \in FieldNames
      <4>1. resolution.conflicts \in Seq(FieldNames) /\ resolution.conflicts # << >>
        BY <2>5 DEF UserChooses, FormTypes
      <4>. QED
        BY <4>1, Popped
    <3>2. edited' \subseteq FieldNames
      BY <2>5, <3>1 DEF UserChooses
    <3>. QED
      BY <2>5, <3>2, <1>2 DEF UserChooses, FinishMerge
  <2>. QED
    BY <1>5, <2>1, <2>2, <2>3, <2>4, <2>5 DEF User
<1>6. CASE MainThread
  <2>1. CASE ThenSaveTaskUpdated BY <2>1, <1>2, <1>4 DEF ThenSaveTaskUpdated
  <2>2. CASE RunSaveTaskUpdated BY <2>2, <1>2, <1>4 DEF RunSaveTaskUpdated
  <2>3. CASE DeleteDialog BY <2>3 DEF DeleteDialog
  <2>4. CASE ReservationsInitialized BY <2>4, <1>2 DEF ReservationsInitialized, Handle
  <2>5. CASE ReservationsAdded BY <2>5 DEF ReservationsAdded, Handle
  <2>6. CASE ReservationsUpdated BY <2>6, <1>2 DEF ReservationsUpdated, Handle
  <2>7. CASE ReservationsRemoved BY <2>7, <1>2 DEF ReservationsRemoved, Handle
  <2>8. CASE ApplyChanges
    BY <2>8 DEF ApplyChanges
  <2>. QED
    BY <1>6, <2>1, <2>2, <2>3, <2>4, <2>5, <2>6, <2>7, <2>8 DEF MainThread
<1>7. CASE Backend
  <2>1. CASE StartStream BY <2>1 DEF StartStream
  <2>2. CASE ExecuteSave BY <2>2 DEF ExecuteSave
  <2>3. CASE DeliverChange BY <2>3 DEF DeliverChange
  <2>4. CASE DeliverResult
    <3>1. Head(outbox).result \in Status
      BY <2>4, HeadOfOutbox DEF DeliverResult, ResultMessage
    <3>. QED
      BY <2>4, <3>1 DEF DeliverResult
  <2>5. CASE AddChanges BY <2>5 DEF AddChanges
  <2>. QED
    BY <1>7, <2>1, <2>2, <2>3, <2>4, <2>5 DEF Backend
<1>8. CASE ExecuteOther
  BY <1>8 DEF ExecuteOther
<1>9. CASE Terminated \/ UNCHANGED vars
  BY <1>9 DEF Terminated, vars
<1>. QED
  BY <1>5, <1>6, <1>7, <1>8, <1>9 DEF Next

\* ... and what is in the form and in a merge: while a version is edited, values that can be stored.
LEMMA NextFormTypes ==
  ASSUME QueueTypes, DialogTypes, FormTypes, UiInv, [Next]_vars
  PROVE  FormTypes'
<1>0. reference \in Versions /\ newest \in Versions /\ dialogPc \in {"idle", "saving", "asking"}
  BY DEF DialogTypes
<1>. USE DEF integratorVars, queueVars, backendVars, versionVars, formVars, taskVars
<1>a. ASSUME form' = form, UNCHANGED resolution, (dialogPc' = "asking") = (dialogPc = "asking"),
             reference' # {} => reference # {}
      PROVE  FormTypes'
  BY <1>a DEF FormTypes, Forms
<1>b. ASSUME NEW fields \in Fields, form' = Shown(fields), UNCHANGED resolution, (dialogPc' = "asking") = (dialogPc = "asking")
      PROVE  FormTypes'
  <2>1. form' \in Forms /\ form' \in Fields
    BY <1>b, ShownForm
  <2>. QED
    BY <1>b, <2>1 DEF FormTypes, Forms
<1>1. CASE User
  <2>1. CASE UserEdits
    <3>1. reference # {} /\ form \in Fields /\ form \in Forms /\ dialogPc = "idle"
      BY <2>1 DEF UserEdits, UiInv, FormTypes, Usable
    <3>2. PICK field \in FieldNames, fields \in Ours : form' = [form EXCEPT ![field] = Shown(fields)[field]]
      BY <2>1 DEF UserEdits
    <3>3. Shown(fields) \in Fields /\ Shown(fields) \in Forms
      BY ShownForm, EditReservationAssumption
    <3>4. form' \in Fields /\ form' \in Forms
      BY <3>1, <3>2, <3>3, ChangedForm
    <3>. QED
      BY <2>1, <3>4 DEF UserEdits, FormTypes, Forms
  <2>2. CASE UserCloses BY <2>2, <1>a DEF UserCloses
  <2>3. CASE SaveClicked BY <2>3, <1>a DEF SaveClicked, Usable
  <2>4. CASE MergeChangesClicked
    <3>1. reference # {} /\ newest # {} /\ form \in Fields /\ dialogPc = "idle"
      BY <2>4 DEF MergeChangesClicked, UiInv, FormTypes, Usable
    <3>. DEFINE base == The(reference).fields
                theirs == The(newest).fields
                merge == Merge(base, form, theirs)
    <3>2. base \in Fields /\ theirs \in Fields
      BY <1>0, <3>1, FieldsOfVersion
    <3>3. merge.merged \in Fields /\ merge.conflicts \in Seq(FieldNames)
      BY <3>1, <3>2, Merged
    <3>4. CASE merge.conflicts = << >>
      BY <2>4, <3>3, <3>4, <1>b DEF MergeChangesClicked, FinishMerge
    <3>5. CASE merge.conflicts # << >>
      <4>1. /\ resolution' = [merged |-> merge.merged, ours |-> form, theirs |-> theirs, conflicts |-> merge.conflicts]
            /\ dialogPc' = "asking" /\ UNCHANGED form
        BY <2>4, <3>5 DEF MergeChangesClicked
      <4>. HIDE DEF merge, theirs
      <4>2. /\ resolution'.merged = merge.merged /\ resolution'.ours = form /\ resolution'.theirs = theirs
            /\ resolution'.conflicts = merge.conflicts
            /\ DOMAIN resolution' = {"merged", "ours", "theirs", "conflicts"}
        BY <4>1
      <4>. QED
        BY <3>1, <3>2, <3>3, <3>5, <4>1, <4>2 DEF FormTypes, Forms
    <3>. QED
      BY <3>4, <3>5
  <2>5. ASSUME NEW version \in {"base", "ours", "theirs"}, UserChooses(version) PROVE FormTypes'
    <3>. DEFINE r == resolution
                field == Head(r.conflicts)
    <3>1. /\ dialogPc = "asking" /\ r.merged \in Fields /\ r.ours \in Fields /\ r.theirs \in Fields
          /\ r.conflicts \in Seq(FieldNames) /\ r.conflicts # << >>
      BY <2>5 DEF UserChooses, FormTypes
    <3>2. field \in FieldNames /\ Tail(r.conflicts) \in Seq(FieldNames)
      BY <3>1, Popped
    <3>3. PICK merged : /\ merged = CASE version = "base"   -> r.merged
                                      [] version = "ours"   -> [r.merged EXCEPT ![field] = r.ours[field]]
                                      [] version = "theirs" -> [r.merged EXCEPT ![field] = r.theirs[field]]
                        /\ IF Tail(r.conflicts) = << >>
                             THEN FinishMerge(merged) /\ resolution' = Resolved /\ dialogPc' = "idle"
                             ELSE /\ resolution' = [resolution EXCEPT !.merged = merged, !.conflicts = Tail(r.conflicts)]
                                  /\ UNCHANGED <<form, versionVars, dialogPc>>
      BY <2>5 DEF UserChooses
    <3>4. merged \in Fields
      BY <3>1, <3>2, <3>3, ChangedForm
    <3>5. CASE Tail(r.conflicts) = << >>
      <4>1. form' \in Forms /\ form' \in Fields
        BY <3>3, <3>4, <3>5, ShownForm DEF FinishMerge
      <4>2. /\ resolution'.conflicts = << >> /\ dialogPc' = "idle"
            /\ DOMAIN resolution' = {"merged", "ours", "theirs", "conflicts"}
        BY <3>3, <3>5 DEF Resolved
      <4>. QED
        BY <4>1, <4>2 DEF FormTypes, Forms
    <3>6. CASE Tail(r.conflicts) # << >>
      <4>1. resolution' = [resolution EXCEPT !.merged = merged, !.conflicts = Tail(r.conflicts)]
        BY <3>3, <3>6
      <4>. QED
        <5>1. DOMAIN resolution = {"merged", "ours", "theirs", "conflicts"}
          BY DEF FormTypes
        <5>2. /\ DOMAIN resolution' = DOMAIN resolution
              /\ resolution'.merged = merged /\ resolution'.ours = r.ours /\ resolution'.theirs = r.theirs
              /\ resolution'.conflicts = Tail(r.conflicts)
          BY <4>1, <5>1
        <5>3. UNCHANGED <<form, reference, dialogPc>>
          BY <3>3, <3>6
        <5>. QED
          BY <3>1, <3>2, <3>4, <3>6, <5>1, <5>2, <5>3 DEF FormTypes, Forms
    <3>. QED
      BY <3>5, <3>6
  <2>. QED
    BY <1>1, <2>1, <2>2, <2>3, <2>4, <2>5 DEF User
<1>2. CASE MainThread
  <2>1. CASE ThenSaveTaskUpdated BY <2>1, <1>a DEF ThenSaveTaskUpdated
  <2>2. CASE RunSaveTaskUpdated BY <2>2, <1>a DEF RunSaveTaskUpdated
  <2>3. CASE DeleteDialog BY <2>3, <1>a DEF DeleteDialog
  <2>4. CASE ReservationsInitialized BY <2>4, <1>a DEF ReservationsInitialized, Handle
  <2>5. CASE ReservationsAdded
    <3>1. applying # << >> /\ Head(applying).kind = "added"
      BY <2>5 DEF ReservationsAdded, Handle
    <3>2. Head(applying).items \in Versions /\ Head(applying).items # {}
      BY <3>1, Popped, NewsType DEF QueueTypes
    <3>3. form' = Shown(The(reference').fields) /\ reference' = Head(applying).items /\ UNCHANGED <<dialogPc, resolution>>
      BY <2>5 DEF ReservationsAdded, Handle
    <3>. QED
      BY <3>2, <3>3, FieldsOfVersion, <1>b
  <2>6. CASE ReservationsUpdated BY <2>6, <1>a DEF ReservationsUpdated, Handle
  <2>7. CASE ReservationsRemoved BY <2>7, <1>a DEF ReservationsRemoved, Handle
  <2>8. CASE ApplyChanges
    BY <2>8, <1>a DEF ApplyChanges
  <2>. QED
    BY <1>2, <2>1, <2>2, <2>3, <2>4, <2>5, <2>6, <2>7, <2>8 DEF MainThread
<1>3. CASE Backend
  <2>1. CASE StartStream BY <2>1, <1>a DEF StartStream
  <2>2. CASE ExecuteSave BY <2>2, <1>a DEF ExecuteSave
  <2>3. CASE DeliverChange BY <2>3, <1>a DEF DeliverChange
  <2>4. CASE DeliverResult BY <2>4, <1>a DEF DeliverResult
  <2>5. CASE AddChanges BY <2>5, <1>a DEF AddChanges
  <2>. QED
    BY <1>3, <2>1, <2>2, <2>3, <2>4, <2>5 DEF Backend
<1>4. CASE ExecuteOther
  BY <1>4, <1>a DEF ExecuteOther
<1>5. CASE Terminated \/ UNCHANGED vars
  BY <1>5, <1>a DEF Terminated, vars
<1>. QED
  BY <1>1, <1>2, <1>3, <1>4, <1>5 DEF Next

-----------------------------------------------------------------------------
(* Wakeups *)

Woken == \E i \in DOMAIN events : events[i] = ResultsAvailable

WakeupInv == FlagIsAnswered /\ NoChangeWaits

\* The wakeups posted stay posted, but for the one that is taken.
LEMMA WokenPushed ==
  ASSUME QueueTypes, NEW posted \in Seq(Event), NEW e \in Event, events' = Append(posted, e)
  PROVE  /\ (\E i \in DOMAIN posted : posted[i] = ResultsAvailable) => Woken'
         /\ e = ResultsAvailable => Woken'
<1>1. /\ DOMAIN posted = 1 .. Len(posted) /\ DOMAIN events' = 1 .. Len(posted) + 1 /\ Len(posted) \in Nat
      /\ \A i \in DOMAIN posted : events'[i] = posted[i]
      /\ events'[Len(posted) + 1] = e
  BY Pushed
<1>2. Len(posted) + 1 \in DOMAIN events' /\ DOMAIN posted \subseteq DOMAIN events'
  BY <1>1
<1>. QED
  BY <1>1, <1>2 DEF Woken

\* An event of another kind that is handled leaves the wakeup where it is.
LEMMA WokenPopped ==
  ASSUME QueueTypes, events # << >>, Head(events) # ResultsAvailable, Woken
  PROVE  /\ Tail(events) \in Seq(Event)
         /\ \E i \in DOMAIN Tail(events) : Tail(events)[i] = ResultsAvailable
<1>1. events \in Seq(Event)
  BY DEF QueueTypes
<1>2. /\ 1 \in DOMAIN events /\ Head(events) = events[1] /\ Tail(events) \in Seq(Event)
      /\ \A i \in DOMAIN events : i \in Nat \ {0} /\ (i # 1 => i - 1 \in DOMAIN Tail(events))
      /\ \A i \in DOMAIN Tail(events) : Tail(events)[i] = events[i + 1]
  BY <1>1, Popped
<1>3. PICK i \in DOMAIN events : events[i] = ResultsAvailable
  BY DEF Woken
<1>4. i - 1 \in DOMAIN Tail(events) /\ Tail(events)[i - 1] = events[i - 1 + 1] /\ i - 1 + 1 = i
  BY <1>2, <1>3
<1>. QED
  BY <1>2, <1>3, <1>4

\* Every step keeps the flag answered, and no change without a wakeup.
LEMMA NextWakeup ==
  ASSUME QueueTypes, WakeupInv, [Next]_vars
  PROVE  WakeupInv'
<1>0. /\ events \in Seq(Event) /\ [kind |-> "delete"] \in Event /\ ResultsAvailable \in Event
      /\ [kind |-> "delete"] # ResultsAvailable
      /\ adder \in {"idle", "added", "posting"} /\ integrator \in {"idle", "apply"}
  BY DEF QueueTypes, Event, ResultsAvailable
<1>. USE DEF integratorVars, queueVars
<1>a. ASSUME UNCHANGED <<changeList, eventScheduled, adder, integrator>>, Woken => Woken'
      PROVE  WakeupInv'
  BY <1>a DEF WakeupInv, FlagIsAnswered, NoChangeWaits, Woken
<1>b. UNCHANGED integratorVars => WakeupInv'
  BY <1>a DEF Woken
<1>c. ASSUME NEW posted \in Seq(Event), Close(posted),
             Woken => \E i \in DOMAIN posted : posted[i] = ResultsAvailable
      PROVE  Woken => Woken'
  <2>1. CASE visible
    BY <2>1, <1>0, <1>c, WokenPushed DEF Close
  <2>2. CASE ~visible
    BY <2>2, <1>c DEF Close, Woken
  <2>. QED
    BY <2>1, <2>2
<1>1. CASE User
  <2>1. CASE UserEdits BY <2>1, <1>b DEF UserEdits
  <2>2. CASE UserCloses BY <2>2, <1>0, <1>a, <1>c DEF UserCloses, Woken
  <2>3. CASE SaveClicked BY <2>3, <1>b DEF SaveClicked
  <2>4. CASE MergeChangesClicked BY <2>4, <1>b DEF MergeChangesClicked
  <2>5. ASSUME NEW version \in {"base", "ours", "theirs"}, UserChooses(version) PROVE WakeupInv'
    BY <2>5, <1>b DEF UserChooses
  <2>. QED
    BY <1>1, <2>1, <2>2, <2>3, <2>4, <2>5 DEF User
<1>2. CASE MainThread
  <2>1. CASE ThenSaveTaskUpdated
    BY <2>1, <1>0, <1>a, <1>b, <1>c DEF ThenSaveTaskUpdated, SaveTaskUpdated, Woken
  <2>2. CASE RunSaveTaskUpdated
    <3>1. events # << >> /\ Head(events) # ResultsAvailable
      BY <2>2 DEF RunSaveTaskUpdated, ResultsAvailable
    <3>2. Tail(events) \in Seq(Event)
      BY <1>0, <3>1, Popped
    <3>3. Woken => Woken'
      BY <2>2, <1>c, <3>1, <3>2, WokenPopped DEF RunSaveTaskUpdated, SaveTaskUpdated, Woken
    <3>. QED
      BY <2>2, <1>a, <3>3 DEF RunSaveTaskUpdated
  <2>3. CASE DeleteDialog
    <3>1. events # << >> /\ Head(events) # ResultsAvailable
      BY <2>3 DEF DeleteDialog, ResultsAvailable
    <3>2. Woken => Woken'
      BY <2>3, <3>1, WokenPopped DEF DeleteDialog, Woken
    <3>. QED
      BY <2>3, <1>a, <3>2 DEF DeleteDialog
  <2>4. CASE ReservationsInitialized BY <2>4, <1>a DEF ReservationsInitialized, Handle, Woken
  <2>5. CASE ReservationsAdded BY <2>5, <1>a DEF ReservationsAdded, Handle, Woken
  <2>6. CASE ReservationsUpdated BY <2>6, <1>a DEF ReservationsUpdated, Handle, Woken
  <2>7. CASE ReservationsRemoved BY <2>7, <1>a DEF ReservationsRemoved, Handle, Woken
  <2>8. CASE ApplyChanges
    <3>1. CASE HandleAvailableResults
      BY <3>1 DEF HandleAvailableResults, WakeupInv, FlagIsAnswered, NoChangeWaits
    <3>2. CASE ApplyStreamChanges(stream # "closed")
      BY <3>2 DEF ApplyStreamChanges, WakeupInv, FlagIsAnswered, NoChangeWaits
    <3>. QED
      BY <2>8, <3>1, <3>2 DEF ApplyChanges
  <2>. QED
    BY <1>2, <2>1, <2>2, <2>3, <2>4, <2>5, <2>6, <2>7, <2>8 DEF MainThread
<1>3. CASE Backend
  <2>1. CASE StartStream BY <2>1, <1>b DEF StartStream
  <2>2. CASE ExecuteSave BY <2>2, <1>b DEF ExecuteSave
  <2>3. CASE DeliverChange
    BY <2>3 DEF DeliverChange, AddStreamChange, WakeupInv, FlagIsAnswered, NoChangeWaits
  <2>4. CASE DeliverResult
    <3>1. Head(outbox) \in Event
      BY <2>4, HeadOfOutbox DEF DeliverResult, Event
    <3>2. Woken => Woken'
      BY <2>4, <1>0, <3>1, WokenPushed DEF DeliverResult, Woken
    <3>. QED
      BY <2>4, <1>a, <3>2 DEF DeliverResult
  <2>5. CASE AddChanges
    <3>1. CASE EmitResultsAvailable
      BY <3>1 DEF EmitResultsAvailable, WakeupInv, FlagIsAnswered, NoChangeWaits
    <3>2. CASE PostResultsAvailable
      <4>1. Woken'
        BY <3>2, <1>0, WokenPushed DEF PostResultsAvailable
      <4>. QED
        BY <4>1 DEF WakeupInv, FlagIsAnswered, NoChangeWaits, Woken
    <3>. QED
      BY <2>5, <3>1, <3>2 DEF AddChanges
  <2>. QED
    BY <1>3, <2>1, <2>2, <2>3, <2>4, <2>5 DEF Backend
<1>4. CASE ExecuteOther
  BY <1>4, <1>b DEF ExecuteOther
<1>5. CASE Terminated \/ UNCHANGED vars
  BY <1>5, <1>b DEF Terminated, vars
<1>. QED
  BY <1>1, <1>2, <1>3, <1>4, <1>5 DEF Next
-----------------------------------------------------------------------------
(* What is under way *)

\* A change is under way after a step of the queues if it was before, and once.
LEMMA UnderMoves ==
  ASSUME QueueTypes, Moves, NEW kind, kind # "result"
  PROVE  /\ Under(kind)' => Under(kind)
         /\ AtMostOnce(kind) => AtMostOnce(kind)'
<1>. DEFINE A == Has(applying, kind)
            C == Has(changeList, kind)
            O == Has(outbox, kind)
            a == Has(applying', kind)
            c == Has(changeList', kind)
            o == Has(outbox', kind)
            OneEach == Once(applying, kind) /\ Once(changeList, kind) /\ Once(outbox, kind)
            oneEach == Once(applying', kind) /\ Once(changeList', kind) /\ Once(outbox', kind)
<1>1. /\ applying \in Seq(Tidings) /\ changeList \in Seq(Tidings) /\ outbox \in Seq(Tidings \cup ResultMessage)
  BY DEF QueueTypes
<1>2. /\ Under(kind)' <=> a \/ c \/ o
      /\ Under(kind) <=> A \/ C \/ O
      /\ AtMostOnce(kind)' <=> oneEach /\ (a => ~c /\ ~o) /\ (c => ~o)
      /\ AtMostOnce(kind) <=> OneEach /\ (A => ~C /\ ~O) /\ (C => ~O)
  BY DEF Under, AtMostOnce, Has, Once
<1>. SUFFICES /\ a \/ c \/ o => A \/ C \/ O
              /\ OneEach /\ (A => ~C /\ ~O) /\ (C => ~O) => oneEach /\ (a => ~c /\ ~o) /\ (c => ~o)
  BY <1>2
<1>3. CASE QueuesStay BY <1>3 DEF QueuesStay
<1>4. CASE Delivers
  <2>1. /\ O <=> Head(outbox).kind = kind \/ o
        /\ Once(outbox, kind) => Once(outbox', kind) /\ (Head(outbox).kind = kind => ~o)
    BY <1>1, <1>4, HasPopped DEF Delivers
  <2>2. /\ c <=> C \/ Head(outbox).kind = kind
        /\ Once(changeList, kind) /\ ~(C /\ Head(outbox).kind = kind) => Once(changeList', kind)
    BY <1>1, <1>4, HasPushed DEF Delivers
  <2>3. applying' = applying
    BY <1>4 DEF Delivers
  <2>. QED
    BY <2>1, <2>2, <2>3
<1>5. CASE Answers
  <2>1. /\ O <=> Head(outbox).kind = kind \/ o
        /\ Once(outbox, kind) => Once(outbox', kind)
    BY <1>1, <1>5, HasPopped DEF Answers
  <2>2. UNCHANGED <<applying, changeList>>
    BY <1>5 DEF Answers
  <2>. QED
    BY <2>1, <2>2
<1>6. CASE Swaps \/ Drops
  BY <1>6, NothingQueued DEF Swaps, Drops
<1>7. CASE Handles
  <2>1. /\ A <=> Head(applying).kind = kind \/ a
        /\ Once(applying, kind) => Once(applying', kind)
    BY <1>1, <1>7, HasPopped DEF Handles
  <2>2. UNCHANGED <<changeList, outbox>>
    BY <1>7 DEF Handles
  <2>. QED
    BY <2>1, <2>2
<1>. QED
  BY <1>3, <1>4, <1>5, <1>6, <1>7 DEF Moves

\* What was under way stays so until the dialog is told.
LEMMA UnderStays ==
  ASSUME QueueTypes, MainThreadPlaces, NEW kind, kind # "result", Under(kind),
         QueuesStay \/ Delivers \/ Answers \/ Swaps \/ (Handles /\ Head(applying).kind # kind)
  PROVE  Under(kind)'
<1>1. /\ applying \in Seq(Tidings) /\ changeList \in Seq(Tidings) /\ outbox \in Seq(Tidings \cup ResultMessage)
  BY DEF QueueTypes
<1>2. /\ Under(kind)' <=> Has(applying', kind) \/ Has(changeList', kind) \/ Has(outbox', kind)
      /\ Has(applying, kind) \/ Has(changeList, kind) \/ Has(outbox, kind)
  BY DEF Under, Has
<1>3. CASE QueuesStay BY <1>2, <1>3 DEF QueuesStay
<1>4. CASE Delivers
  <2>1. Has(outbox, kind) <=> Head(outbox).kind = kind \/ Has(outbox', kind)
    BY <1>1, <1>4, HasPopped DEF Delivers
  <2>2. Has(changeList', kind) <=> Has(changeList, kind) \/ Head(outbox).kind = kind
    BY <1>1, <1>4, HasPushed DEF Delivers
  <2>. QED
    BY <1>2, <1>4, <2>1, <2>2 DEF Delivers
<1>5. CASE Answers
  <2>1. Has(outbox, kind) <=> Head(outbox).kind = kind \/ Has(outbox', kind)
    BY <1>1, <1>5, HasPopped DEF Answers
  <2>2. Head(outbox).kind = "result"
    BY <1>5 DEF Answers, ResultMessage
  <2>. QED
    BY <1>2, <1>5, <2>1, <2>2 DEF Answers
<1>6. CASE Swaps
  <2>1. applying = << >>
    BY <1>6 DEF Swaps, MainThreadPlaces
  <2>. QED
    BY <1>2, <1>6, <2>1, NothingQueued DEF Swaps
<1>7. CASE Handles /\ Head(applying).kind # kind
  <2>1. Has(applying, kind) <=> Head(applying).kind = kind \/ Has(applying', kind)
    BY <1>1, <1>7, HasPopped DEF Handles
  <2>. QED
    BY <1>2, <1>7, <2>1 DEF Handles
<1>. QED
  BY <1>3, <1>4, <1>5, <1>6, <1>7

\* The dialog is told once.
LEMMA ToldOnce ==
  ASSUME QueueTypes, Handles, NEW kind, AtMostOnce(kind), Head(applying).kind = kind
  PROVE  ~Under(kind)'
<1>1. Has(applying, kind) /\ ~Has(applying', kind)
  BY HasPopped DEF QueueTypes, Handles, AtMostOnce
<1>2. ~Has(changeList', kind) /\ ~Has(outbox', kind)
  BY <1>1 DEF AtMostOnce, Handles
<1>. QED
  BY <1>1, <1>2 DEF Under, Has

\* Operations are told of as updates and removals.
LEMMA ToldKinds ==
  ASSUME NEW told, NEW results, Tells(told, results), NEW m, told = <<m>>
  PROVE  m.kind \in {"updated", "removed", "cleared"}
<1>1. m = told[1]
  OBVIOUS
<1>2. \A v \in Version : Updated({v}).kind = "updated"
  BY DEF Updated
<1>3. Removed({1}).kind = "removed" /\ Cleared.kind = "cleared"
  BY DEF Removed, Cleared
<1>. QED
  BY <1>1, <1>2, <1>3 DEF Tells, Becomes

\* What the outbox has after an operation.
LEMMA OutboxAfter ==
  ASSUME QueueTypes, NEW told, NEW results, Tells(told, results), NEW kind
  PROVE  /\ kind # "result" => (Has(outbox', kind) <=>
              Has(outbox, kind) \/ (stream = "following" /\ \E m \in Tidings : told = <<m>> /\ m.kind = kind))
         /\ kind # "result" /\ Once(outbox, kind) /\ ~(\E m \in Tidings : told = <<m>> /\ m.kind = kind)
            => Once(outbox', kind)
         /\ Has(outbox', "result") <=> Has(outbox, "result") \/ results # {}
         /\ Once(outbox, "result") /\ ~(Has(outbox, "result") /\ results # {}) => Once(outbox', "result")
<1>. DEFINE M == Tidings \cup ResultMessage
            IsTold == stream = "following" /\ \E m \in Tidings : told = <<m>> /\ m.kind = kind
            FromTold(q) == /\ Has(q, "result") <=> Has(outbox, "result")
                           /\ Once(outbox, "result") => Once(q, "result")
                           /\ Has(q, kind) <=> Has(outbox, kind) \/ IsTold
                           /\ Once(outbox, kind) /\ ~IsTold => Once(q, kind)
            FromMore(q, k) == /\ k # "result" => (Has(outbox', k) <=> Has(q, k)) /\ (Once(q, k) => Once(outbox', k))
                              /\ Has(outbox', "result") <=> Has(q, "result") \/ results # {}
                              /\ Once(q, "result") /\ ~(Has(q, "result") /\ results # {}) => Once(outbox', "result")
<1>0. PICK more \in Seq(M) :
           /\ more = outbox \/ \E m \in Tidings : stream = "following" /\ told = <<m>> /\ more = Append(outbox, m)
           /\ told # << >> /\ stream = "following" => \E m \in Tidings : told = <<m>> /\ more = Append(outbox, m)
           /\ (outbox' = more /\ results = {}) \/ \E m \in ResultMessage : outbox' = Append(more, m) /\ results = {m}
  BY OutboxTold
<1>1. outbox \in Seq(M) /\ Tidings \subseteq M /\ ResultMessage \subseteq M
  BY DEF QueueTypes
<1>. HIDE DEF M
<1>2. \A m \in Tidings : m.kind # "result" /\ told = <<m>> => told[1] = m /\ told # << >>
  OBVIOUS
<1>3. \A m \in Tidings : m.kind # "result"
  BY NewsType
<1>4. \A m \in ResultMessage : m.kind = "result"
  BY DEF ResultMessage
<1>5. ASSUME NEW k PROVE FromMore(more, k)
  <2>1. CASE outbox' = more /\ results = {}
    BY <2>1
  <2>2. ASSUME NEW m \in ResultMessage, outbox' = Append(more, m), results = {m} PROVE FromMore(more, k)
    <3>1. m \in M /\ m.kind = "result" /\ results # {}
      BY <1>1, <1>4, <2>2
    <3>2. \A j : /\ Has(outbox', j) <=> Has(more, j) \/ m.kind = j
                 /\ Once(more, j) /\ ~(Has(more, j) /\ m.kind = j) => Once(outbox', j)
      BY <2>2, <3>1, HasPushed
    <3>. QED
      BY <3>1, <3>2
  <2>. QED
    BY <1>0, <2>1, <2>2
<1>6. FromTold(more)
  <2>1. CASE more = outbox
    <3>1. ~IsTold \/ Has(outbox, kind)
      <4>1. CASE told # << >> /\ stream = "following"
        <5>1. PICK m \in Tidings : told = <<m>> /\ more = Append(outbox, m)
          BY <1>0, <4>1
        <5>2. m \in M
          BY <1>1
        <5>3. Has(Append(outbox, m), kind) <=> Has(outbox, kind) \/ m.kind = kind
          BY <1>1, <5>2, HasPushed
        <5>. QED
          BY <2>1, <5>1, <5>3
      <4>2. CASE ~(told # << >> /\ stream = "following")
        BY <4>2
      <4>. QED
        BY <4>1, <4>2
    <3>. QED
      BY <2>1, <3>1
  <2>2. ASSUME NEW m \in Tidings, stream = "following", told = <<m>>, more = Append(outbox, m)
        PROVE  FromTold(more)
    <3>1. m \in M /\ m.kind # "result"
      BY <1>1, <1>3
    <3>2. \A j : /\ Has(more, j) <=> Has(outbox, j) \/ m.kind = j
                 /\ Once(outbox, j) /\ ~(Has(outbox, j) /\ m.kind = j) => Once(more, j)
      BY <1>1, <2>2, <3>1, HasPushed
    <3>3. IsTold <=> m.kind = kind
      <4>1. \A n : told = <<n>> => n = m
        BY <2>2
      <4>. QED
        BY <2>2, <4>1
    <3>. QED
      BY <3>1, <3>2, <3>3
  <2>. QED
    BY <1>0, <2>1, <2>2
<1>. QED
  BY <1>5, <1>6

-----------------------------------------------------------------------------
(* How a stream begins *)

\* A queue to which something but the item is put begins as before; an empty one may begin with the item.
LEMMA BeginsPushed ==
  ASSUME NEW S, NEW queue \in Seq(S), NEW e \in S, Begins(queue), e.kind # "added" \/ queue = << >>
  PROVE  Begins(Append(queue, e))
<1>. DEFINE long == Append(queue, e)
            n == Len(queue) + 1
<1>1. /\ DOMAIN long = DOMAIN queue \cup {n}
      /\ \A i \in DOMAIN queue : long[i] = queue[i]
      /\ long[n] = e
      /\ queue = << >> => n = 1
  BY Pushed
<1>. HIDE DEF long, n
<1>2. Begins(long)
  BY <1>1 DEF Begins
<1>. QED
  BY <1>2 DEF long

\* Once the first is told, the item is not in the queue any more.
LEMMA BeginsPopped ==
  ASSUME NEW S, NEW queue \in Seq(S), queue # << >>, Begins(queue)
  PROVE  ~Has(Tail(queue), "added") /\ Begins(Tail(queue))
<1>1. \A i \in DOMAIN Tail(queue) : i \in Nat \ {0} /\ i + 1 \in DOMAIN queue /\ Tail(queue)[i] = queue[i + 1]
  BY Popped
<1>2. ASSUME NEW i \in DOMAIN Tail(queue), Tail(queue)[i].kind = "added" PROVE FALSE
  <2>1. i \in Nat \ {0} /\ i + 1 = 1
    BY <1>1, <1>2 DEF Begins
  <2>. QED
    BY <2>1
<1>. QED
  BY <1>2 DEF Has, Begins

\* An empty queue begins with whatever is put there.
LEMMA NothingBegins == Begins(<< >>)
  BY DEF Begins

\* A stream is opened at first only.
LEMMA OpenedBefore ==
  ASSUME [Next]_vars, stream' = "opened"
  PROVE  stream = "opened" /\ ~Starts
<1>. USE DEF backendVars
<1>1. CASE User
  BY <1>1 DEF User, UserEdits, UserCloses, SaveClicked, MergeChangesClicked, UserChooses, Starts
<1>2. CASE MainThread
  BY <1>2 DEF MainThread, ThenSaveTaskUpdated, ApplyChanges, RunSaveTaskUpdated, DeleteDialog, ReservationsInitialized,
              ReservationsAdded, ReservationsUpdated, ReservationsRemoved, Handle, Starts
<1>3. CASE Backend
  BY <1>3 DEF Backend, StartStream, ExecuteSave, DeliverChange, DeliverResult, AddChanges, Starts
<1>4. CASE ExecuteOther \/ Terminated \/ UNCHANGED vars
  BY <1>4 DEF ExecuteOther, Terminated, vars, Starts
<1>. QED
  BY <1>1, <1>2, <1>3, <1>4 DEF Next

\* What a started stream is told.
LEMMA AfterStart ==
  ASSUME QueueTypes, DialogTypes, QueuesBegin, Starts
  PROVE  /\ applying' = << >> /\ changeList' = << >>
         /\ Begins(outbox') /\ Once(outbox', "initialized")
<1>. DEFINE M == Tidings \cup ResultMessage
<1>1. applying' = << >> /\ changeList' = << >> /\ outbox = << >> /\ outbox \in Seq(M)
  BY DEF Starts, QueuesBegin, QueueTypes
<1>2. PICK more \in Seq(M) : /\ outbox' = Append(more, Initialized)
                             /\ more = outbox \/ \E m \in Tidings : m.kind = "added" /\ more = Append(outbox, m)
  <2>1. \A items : Added(items).kind = "added"
    BY DEF Added
  <2>. QED
    BY <2>1, OutboxStarted DEF DialogTypes
<1>3. Initialized \in M /\ Initialized.kind = "initialized" /\ Tidings \subseteq M
  BY DEF Initialized, Tidings
<1>. HIDE DEF M
<1>4. Begins(more) /\ ~Has(more, "initialized") /\ Once(more, "initialized")
  <2>1. CASE more = outbox
    BY <1>1, <2>1, NothingBegins, NothingQueued
  <2>2. ASSUME NEW m \in Tidings, m.kind = "added", more = Append(outbox, m) PROVE <1>4
    <3>1. m \in M
      BY <1>3
    <3>2. Begins(more)
      BY <1>1, <2>2, <3>1, NothingBegins, BeginsPushed
    <3>3. /\ Has(more, "initialized") <=> Has(outbox, "initialized") \/ m.kind = "initialized"
          /\ Once(outbox, "initialized") /\ ~(Has(outbox, "initialized") /\ m.kind = "initialized")
             => Once(more, "initialized")
      BY <1>1, <2>2, <3>1, HasPushed
    <3>. QED
      BY <1>1, <2>2, <3>2, <3>3, NothingQueued
  <2>. QED
    BY <1>2, <2>1, <2>2
<1>5. Begins(outbox') /\ Once(outbox', "initialized")
  BY <1>2, <1>3, <1>4, BeginsPushed, HasPushed
<1>. QED
  BY <1>1, <1>5

\* Every step keeps the item, and the end of the beginning, the first thing the queues tell.
LEMMA NextQueuesBegin ==
  ASSUME QueueTypes, DialogTypes, MainThreadPlaces, StreamBegins, OneSave, [Next]_vars
  PROVE  QueuesBegin'
<1>. DEFINE M == Tidings \cup ResultMessage
            Order == /\ Begins(applying') /\ Begins(changeList') /\ Begins(outbox')
                     /\ Has(changeList', "added") => applying' = << >>
                     /\ Has(outbox', "added") => applying' = << >> /\ changeList' = << >>
            Opened == stream' = "opened" => applying' = << >> /\ changeList' = << >> /\ outbox' = << >>
<1>0. QueuesBegin' <=> AtMostOnce("initialized")' /\ Order /\ Opened
  BY DEF QueuesBegin, Begins, Has
<1>1. /\ applying \in Seq(Tidings) /\ changeList \in Seq(Tidings) /\ outbox \in Seq(M) /\ Tidings \subseteq M
      /\ AtMostOnce("initialized") /\ Begins(applying) /\ Begins(changeList) /\ Begins(outbox)
      /\ Has(changeList, "added") => applying = << >>
      /\ Has(outbox, "added") => applying = << >> /\ changeList = << >>
      /\ stream = "opened" => applying = << >> /\ changeList = << >> /\ outbox = << >>
  BY DEF QueueTypes, StreamBegins, QueuesBegin
<1>. HIDE DEF M
<1>2. CASE Moves
  <2>1. AtMostOnce("initialized")'
    BY <1>1, <1>2, UnderMoves
  <2>2. Opened
    BY <1>1, <1>2, OpenedBefore DEF Moves, QueuesStay, Delivers, Answers, Swaps, Drops, Handles
  <2>. SUFFICES Order
    BY <1>0, <2>1, <2>2
  <2>3. CASE QueuesStay BY <1>1, <2>3 DEF QueuesStay
  <2>4. CASE Delivers
    <3>1. /\ Head(outbox) \in Tidings /\ changeList' = Append(changeList, Head(outbox)) /\ outbox' = Tail(outbox)
          /\ applying' = applying /\ outbox # << >>
      BY <2>4 DEF Delivers
    <3>2. ~Has(outbox', "added") /\ Begins(outbox')
      BY <1>1, <3>1, BeginsPopped
    <3>3. Head(outbox).kind = "added" => Has(outbox, "added")
      BY <1>1, <3>1, HasPopped
    <3>4. Begins(changeList')
      BY <1>1, <3>1, <3>3, BeginsPushed
    <3>5. Has(changeList', "added") <=> Has(changeList, "added") \/ Head(outbox).kind = "added"
      BY <1>1, <3>1, HasPushed
    <3>. QED
      BY <1>1, <3>1, <3>2, <3>3, <3>4, <3>5
  <2>5. CASE Answers
    BY <1>1, <2>5, BeginsPopped DEF Answers
  <2>6. CASE Swaps \/ Drops
    <3>1. applying = << >>
      BY <2>6 DEF Swaps, Drops, MainThreadPlaces
    <3>2. Begins(applying') /\ Begins(changeList') /\ Begins(outbox') /\ ~Has(changeList', "added")
      BY <1>1, <2>6, NothingBegins, NothingQueued DEF Swaps, Drops
    <3>3. Has(outbox', "added") => applying' = << >> /\ changeList' = << >>
      BY <1>1, <2>6 DEF Swaps, Drops
    <3>. QED
      BY <3>2, <3>3
  <2>7. CASE Handles
    BY <1>1, <2>7, BeginsPopped DEF Handles
  <2>. QED
    BY <1>2, <2>3, <2>4, <2>5, <2>6, <2>7 DEF Moves
<1>3. CASE Starts
  <2>1. /\ applying' = << >> /\ changeList' = << >>
        /\ Begins(outbox') /\ Once(outbox', "initialized")
    BY <1>3, AfterStart DEF StreamBegins
  <2>2. AtMostOnce("initialized")'
    BY <2>1, NothingQueued DEF AtMostOnce, Has, Once
  <2>3. Order /\ Opened
    BY <2>1, <1>3, NothingBegins, NothingQueued DEF Starts
  <2>. QED
    BY <1>0, <2>2, <2>3
<1>4. ASSUME NEW told, NEW results, Tells(told, results), stream = "opened" => results = {} PROVE QueuesBegin'
  <2>1. UNCHANGED <<applying, changeList, stream>>
    BY <1>4 DEF Tells
  <2>2. \A m : told = <<m>> => m.kind # "added" /\ m.kind # "initialized"
    BY <1>4, ToldKinds
  <2>3. /\ Has(outbox', "added") <=> Has(outbox, "added")
        /\ Has(outbox', "initialized") <=> Has(outbox, "initialized")
        /\ Once(outbox, "initialized") => Once(outbox', "initialized")
    BY <1>4, <2>2, OutboxAfter
  <2>4. AtMostOnce("initialized")'
    BY <1>1, <2>1, <2>3 DEF AtMostOnce, Has, Once
  <2>5. PICK more \in Seq(M) :
          /\ more = outbox \/ \E m \in Tidings : stream = "following" /\ told = <<m>> /\ more = Append(outbox, m)
          /\ (outbox' = more /\ results = {}) \/ \E m \in ResultMessage : outbox' = Append(more, m) /\ results = {m}
    BY <1>4, OutboxTold DEF M
  <2>6. Begins(more)
    BY <1>1, <2>2, <2>5, BeginsPushed
  <2>7. \A m \in ResultMessage : m \in M /\ m.kind # "added"
    BY DEF ResultMessage, M
  <2>8. Begins(outbox')
    <3>1. CASE outbox' = more
      BY <2>6, <3>1
    <3>2. ASSUME NEW m \in ResultMessage, outbox' = Append(more, m) PROVE Begins(outbox')
      <4>1. m \in M /\ m.kind # "added"
        BY <2>7
      <4>. QED
        BY <2>6, <3>2, <4>1, BeginsPushed
    <3>. QED
      BY <2>5, <3>1, <3>2
  <2>9. Order
    BY <1>1, <2>1, <2>3, <2>8
  <2>10. Opened
    BY <1>1, <1>4, <2>1, <2>5
  <2>. QED
    BY <1>0, <2>4, <2>9, <2>10
<1>5. CASE ExecuteSave
  <2>1. stream # "opened"
    BY <1>5 DEF ExecuteSave, StreamBegins, DialogBegins, OneSave, NoSave, SavePlaces
  <2>. QED
    BY <1>4, <1>5, <2>1, Executing
<1>6. CASE ExecuteOther
  BY <1>4, <1>6, Executing
<1>. QED
  BY <1>2, <1>3, <1>5, <1>6, StepsOfQueues

\* What is under way was so before, or is told when the stream starts.
LEMMA UnderBefore ==
  ASSUME QueueTypes, DialogTypes, [Next]_vars, NEW kind \in {"added", "initialized"}
  PROVE  Under(kind)' \/ stream' = "opened" => Under(kind) \/ stream = "opened"
<1>1. stream' = "opened" => stream = "opened"
  BY OpenedBefore
<1>2. CASE Moves
  BY <1>1, <1>2, UnderMoves
<1>3. CASE Starts
  BY <1>3 DEF Starts
<1>4. ASSUME NEW told, NEW results, Tells(told, results) PROVE Under(kind)' => Under(kind)
  <2>1. UNCHANGED <<applying, changeList>>
    BY <1>4 DEF Tells
  <2>2. \A m : told = <<m>> => m.kind # kind
    BY <1>4, ToldKinds
  <2>3. Has(outbox', kind) <=> Has(outbox, kind)
    BY <1>4, <2>2, OutboxAfter
  <2>. QED
    BY <2>1, <2>3 DEF Under, Has
<1>. QED
  BY <1>1, <1>2, <1>3, <1>4, StepsOfQueues, Executing

\* The item comes before everything else.
LEMMA AddedFirst ==
  ASSUME QueueTypes, QueuesBegin, applying # << >>
  PROVE  /\ Under("added") => Head(applying).kind = "added"
         /\ stream # "opened"
         /\ Head(applying).kind = "added" => Under("added")
         /\ Head(applying).kind = "initialized" => Under("initialized")
<1>1. 1 \in DOMAIN applying /\ Head(applying) = applying[1]
  BY Popped DEF QueueTypes
<1>. QED
  BY <1>1 DEF QueuesBegin, Under, Has, Begins

\* Every step keeps the dialog unusable until it has been told.
LEMMA NextDialogBegins ==
  ASSUME QueueTypes, DialogTypes, MainThreadPlaces, StreamBegins, OneSave, UiInv, [Next]_vars
  PROVE  DialogBegins'
<1>. DEFINE P == Under("added") \/ stream = "opened"
            R == Under("initialized") \/ stream = "opened"
            p == status' = "NotInitialized" /\ reference' = {} /\ newest' = {} /\ saves' = 0
            r == /\ status' \in {"NotInitialized", "Removed"} /\ (status' = "Removed" => reference' = {})
                 /\ ~ui'.enabled /\ dialogPc' = "idle" /\ saves' = 0
<1>0. (P' => P) /\ (R' => R)
  BY UnderBefore
<1>1. /\ P => status = "NotInitialized" /\ reference = {} /\ newest = {} /\ saves = 0
      /\ R => /\ status \in {"NotInitialized", "Removed"} /\ (status = "Removed" => reference = {})
              /\ ~ui.enabled /\ dialogPc = "idle" /\ saves = 0
  BY DEF StreamBegins, DialogBegins
<1>2. DialogBegins' <=> (P' => p) /\ (R' => r)
  BY DEF DialogBegins
<1>3. applying # << >> => /\ Head(applying).kind # "added" => ~P
                          /\ Head(applying).kind = "added" => P
                          /\ Head(applying).kind = "initialized" => R
  BY AddedFirst DEF StreamBegins
<1>4. ASSUME Handles, Head(applying).kind = "initialized" PROVE ~R'
  <2>1. ~Under("initialized")'
    BY <1>4, ToldOnce DEF StreamBegins, QueuesBegin
  <2>2. stream' # "opened"
    BY <1>4, AddedFirst, OpenedBefore DEF StreamBegins, Handles
  <2>. QED
    BY <2>1, <2>2
<1>5. ASSUME Handles, Head(applying).kind = "added" PROVE ~P'
  <2>1. applying' = Tail(applying) /\ UNCHANGED <<changeList, outbox>> /\ applying # << >>
    BY <1>5 DEF Handles
  <2>2. ~Has(applying', "added")
    BY <2>1, BeginsPopped DEF QueueTypes, StreamBegins, QueuesBegin
  <2>3. ~Has(changeList, "added") /\ ~Has(outbox, "added")
    BY <2>1 DEF StreamBegins, QueuesBegin
  <2>4. stream' # "opened"
    BY <2>1, AddedFirst, OpenedBefore DEF StreamBegins
  <2>. QED
    BY <2>1, <2>2, <2>3, <2>4 DEF Under, Has
<1>. HIDE DEF P, R
<1>a. UNCHANGED <<status, reference, newest, saves, ui, dialogPc>> => DialogBegins'
  BY <1>0, <1>1, <1>2
<1>. USE DEF integratorVars, queueVars, backendVars, versionVars, formVars, taskVars
<1>6. CASE User
  <2>1. CASE UserEdits BY <2>1, <1>a DEF UserEdits
  <2>2. CASE UserCloses BY <2>2, <1>a DEF UserCloses
  <2>3. CASE SaveClicked \/ MergeChangesClicked
    <3>1. ui.enabled /\ reference # {}
      BY <2>3 DEF SaveClicked, MergeChangesClicked, UiInv
    <3>. QED
      BY <1>0, <1>1, <1>2, <3>1
  <2>4. ASSUME NEW version \in {"base", "ours", "theirs"}, UserChooses(version) PROVE DialogBegins'
    <3>1. dialogPc = "asking" /\ newest # {}
      BY <2>4 DEF UserChooses, UiInv
    <3>. QED
      BY <1>0, <1>1, <1>2, <3>1
  <2>. QED
    BY <1>6, <2>1, <2>2, <2>3, <2>4 DEF User
<1>7. CASE MainThread
  <2>1. CASE ThenSaveTaskUpdated
    <3>1. dialogPc = "saving" /\ status = "Saving"
      BY <2>1 DEF ThenSaveTaskUpdated, MainThreadPlaces
    <3>. QED
      BY <1>0, <1>1, <1>2, <3>1
  <2>2. CASE RunSaveTaskUpdated
    <3>1. Has(events, "result")
      BY <2>2, HasPopped DEF RunSaveTaskUpdated, QueueTypes
    <3>2. saves # 0
      BY <3>1 DEF OneSave, NoSave, SavePlaces
    <3>. QED
      BY <1>0, <1>1, <1>2, <3>2
  <2>3. CASE DeleteDialog BY <2>3, <1>a DEF DeleteDialog
  <2>4. CASE ReservationsInitialized
    <3>1. Handles /\ Head(applying).kind = "initialized"
      BY <2>4 DEF ReservationsInitialized, Handle, Handles
    <3>2. ~P
      BY <1>3, <3>1 DEF Handles
    <3>. QED
      BY <1>0, <1>2, <1>4, <3>1, <3>2
  <2>5. CASE ReservationsAdded
    <3>1. Handles /\ Head(applying).kind = "added" /\ UNCHANGED <<status, ui, dialogPc, saves>>
      BY <2>5 DEF ReservationsAdded, Handle, Handles
    <3>2. P
      BY <1>3, <3>1 DEF Handles
    <3>. QED
      BY <1>0, <1>1, <1>2, <1>5, <3>1, <3>2
  <2>6. CASE ReservationsUpdated
    <3>1. Handles /\ Head(applying).kind = "updated" /\ UNCHANGED <<status, reference, dialogPc, saves>> /\ UpdateUI
      BY <2>6 DEF ReservationsUpdated, Handle, Handles
    <3>2. ~P
      BY <1>3, <3>1 DEF Handles
    <3>. QED
      BY <1>0, <1>1, <1>2, <3>1, <3>2 DEF UpdateUI
  <2>7. CASE ReservationsRemoved
    <3>1. /\ Handles /\ Head(applying).kind # "added" /\ UNCHANGED <<dialogPc, saves>>
          /\ status' = "Removed" /\ reference' = {} /\ UpdateUI
      BY <2>7 DEF ReservationsRemoved, Handle, Handles
    <3>2. ~P
      BY <1>3, <3>1 DEF Handles
    <3>. QED
      BY <1>0, <1>1, <1>2, <3>1, <3>2 DEF UpdateUI
  <2>8. CASE ApplyChanges
    BY <2>8, <1>a DEF ApplyChanges
  <2>. QED
    BY <1>7, <2>1, <2>2, <2>3, <2>4, <2>5, <2>6, <2>7, <2>8 DEF MainThread
<1>8. CASE Backend
  <2>1. CASE StartStream BY <2>1, <1>a DEF StartStream
  <2>2. CASE ExecuteSave BY <2>2, <1>a DEF ExecuteSave
  <2>3. CASE DeliverChange BY <2>3, <1>a DEF DeliverChange
  <2>4. CASE DeliverResult BY <2>4, <1>a DEF DeliverResult
  <2>5. CASE AddChanges BY <2>5, <1>a DEF AddChanges
  <2>. QED
    BY <1>8, <2>1, <2>2, <2>3, <2>4, <2>5 DEF Backend
<1>9. CASE ExecuteOther
  BY <1>9, <1>a DEF ExecuteOther
<1>10. CASE Terminated \/ UNCHANGED vars
  BY <1>10, <1>a DEF Terminated, vars
<1>. QED
  BY <1>6, <1>7, <1>8, <1>9, <1>10 DEF Next

-----------------------------------------------------------------------------
(* The main thread, the save and the buttons *)

\* Every step keeps the main thread in one place.
LEMMA NextMainThreadPlaces ==
  ASSUME QueueTypes, DialogTypes, MainThreadPlaces, [Next]_vars
  PROVE  MainThreadPlaces'
<1>. USE DEF integratorVars, queueVars, backendVars, versionVars, formVars, taskVars
<1>0. /\ integrator \in {"idle", "apply"} /\ dialogPc \in {"idle", "saving", "asking"}
      /\ saveTask \in {"none", "queued", "continued"} \cup Status
  BY DEF QueueTypes, DialogTypes
<1>a. ASSUME UNCHANGED <<integrator, applying, dialogPc, status, saveTask>> PROVE MainThreadPlaces'
  BY <1>a DEF MainThreadPlaces
<1>b. ASSUME Handles, UNCHANGED <<integrator, dialogPc>> PROVE MainThreadPlaces'
  BY <1>b DEF MainThreadPlaces, Handles
<1>1. CASE User
  <2>1. CASE UserEdits BY <2>1, <1>a DEF UserEdits
  <2>2. CASE UserCloses BY <2>2, <1>a DEF UserCloses
  <2>3. CASE SaveClicked BY <2>3 DEF SaveClicked, Usable, AtEventLoop, MainThreadPlaces
  <2>4. CASE MergeChangesClicked
    BY <2>4 DEF MergeChangesClicked, Usable, AtEventLoop, MainThreadPlaces
  <2>5. ASSUME NEW version \in {"base", "ours", "theirs"}, UserChooses(version) PROVE MainThreadPlaces'
    BY <2>5 DEF UserChooses, AtEventLoop, MainThreadPlaces
  <2>. QED
    BY <1>1, <2>1, <2>2, <2>3, <2>4, <2>5 DEF User
<1>2. CASE MainThread
  <2>1. CASE ThenSaveTaskUpdated BY <2>1 DEF ThenSaveTaskUpdated, MainThreadPlaces
  <2>2. CASE RunSaveTaskUpdated BY <2>2 DEF RunSaveTaskUpdated, AtEventLoop, MainThreadPlaces
  <2>3. CASE DeleteDialog BY <2>3, <1>a DEF DeleteDialog
  <2>4. CASE ReservationsInitialized BY <2>4, <1>b DEF ReservationsInitialized, Handle, Handles
  <2>5. CASE ReservationsAdded BY <2>5, <1>b DEF ReservationsAdded, Handle, Handles
  <2>6. CASE ReservationsUpdated BY <2>6, <1>b DEF ReservationsUpdated, Handle, Handles
  <2>7. CASE ReservationsRemoved BY <2>7, <1>b DEF ReservationsRemoved, Handle, Handles
  <2>8. CASE ApplyChanges
    BY <2>8 DEF ApplyChanges, HandleAvailableResults, ApplyStreamChanges, AtEventLoop, MainThreadPlaces
  <2>. QED
    BY <1>2, <2>1, <2>2, <2>3, <2>4, <2>5, <2>6, <2>7, <2>8 DEF MainThread
<1>3. CASE Backend
  <2>1. CASE StartStream BY <2>1, <1>a DEF StartStream
  <2>2. CASE ExecuteSave BY <2>2, <1>a DEF ExecuteSave
  <2>3. CASE DeliverChange BY <2>3, <1>a DEF DeliverChange, AddStreamChange
  <2>4. CASE DeliverResult
    <3>1. Head(outbox).result \in Status
      BY <2>4, HeadOfOutbox DEF DeliverResult, ResultMessage
    <3>2. "continued" \notin {"queued"} \cup Status
      BY DEF Status
    <3>. QED
      BY <2>4, <3>1, <3>2 DEF DeliverResult, MainThreadPlaces
  <2>5. CASE AddChanges BY <2>5, <1>a DEF AddChanges, EmitResultsAvailable, PostResultsAvailable
  <2>. QED
    BY <1>3, <2>1, <2>2, <2>3, <2>4, <2>5 DEF Backend
<1>4. CASE ExecuteOther
  BY <1>4, <1>a DEF ExecuteOther
<1>5. CASE Terminated \/ UNCHANGED vars
  BY <1>5, <1>a DEF Terminated, vars
<1>. QED
  BY <1>1, <1>2, <1>3, <1>4, <1>5 DEF Next

\* An event with a result
LEMMA ResultEvent ==
  ASSUME QueueTypes, events # << >>, Head(events).kind = "result"
  PROVE  Head(events).result = "Successful" \/ Head(events).result = "Error"
<1>1. Head(events) \in Event
  BY Popped DEF QueueTypes
<1>. QED
  BY <1>1 DEF Event, ResultsAvailable, ResultMessage, Status

\* Every step keeps the buttons as the versions allow, and asks about a newer version only.
LEMMA NextUi ==
  ASSUME QueueTypes, DialogTypes, MainThreadPlaces, StreamBegins, OneSave, UiInv, [Next]_vars
  PROVE  UiInv'
<1>. USE DEF integratorVars, queueVars, backendVars, versionVars, formVars, taskVars
<1>a. ASSUME UNCHANGED <<ui, reference, newest, status, dialogPc>> PROVE UiInv'
  BY <1>a DEF UiInv
<1>b. ASSUME UpdateUI, dialogPc' = "asking" => newest' # {} /\ (reference' = {} => status' = "Removed") PROVE UiInv'
  BY <1>b DEF UiInv, UpdateUI
<1>c. dialogPc = "asking" => newest # {} /\ (reference = {} => status = "Removed")
  BY DEF UiInv
<1>1. CASE User
  <2>1. CASE UserEdits BY <2>1, <1>a DEF UserEdits
  <2>2. CASE UserCloses BY <2>2, <1>a DEF UserCloses
  <2>3. CASE SaveClicked BY <2>3 DEF SaveClicked, Usable, UiInv
  <2>4. CASE MergeChangesClicked
    <3>1. ui.enabled /\ ui.merge /\ dialogPc = "idle" /\ reference # {} /\ newest # {} /\ status = "Ready"
      BY <2>4 DEF MergeChangesClicked, Usable, UiInv
    <3>2. \/ UpdateUI /\ UNCHANGED dialogPc
          \/ dialogPc' = "asking" /\ UNCHANGED versionVars
      BY <2>4 DEF MergeChangesClicked, FinishMerge
    <3>. QED
      BY <1>b, <3>1, <3>2 DEF UiInv
  <2>5. ASSUME NEW version \in {"base", "ours", "theirs"}, UserChooses(version) PROVE UiInv'
    <3>1. \/ UpdateUI /\ dialogPc' = "idle"
          \/ UNCHANGED <<versionVars, dialogPc>>
      BY <2>5 DEF UserChooses, FinishMerge
    <3>. QED
      BY <1>a, <1>b, <3>1
  <2>. QED
    BY <1>1, <2>1, <2>2, <2>3, <2>4, <2>5 DEF User
<1>2. CASE MainThread
  <2>1. CASE ThenSaveTaskUpdated BY <2>1, <1>b DEF ThenSaveTaskUpdated
  <2>2. CASE RunSaveTaskUpdated
    <3>1. Has(events, "result")
      BY <2>2, HasPopped DEF RunSaveTaskUpdated, QueueTypes
    <3>2. dialogPc # "asking"
      BY <3>1 DEF OneSave, NoSave, SavePlaces
    <3>3. UNCHANGED <<reference, newest, dialogPc>>
      BY <2>2 DEF RunSaveTaskUpdated
    <3>4. UpdateUI \/ UNCHANGED <<ui, status>>
      <4>1. events # << >> /\ Head(events).kind = "result"
        BY <2>2 DEF RunSaveTaskUpdated
      <4>2. Head(events).result = "Successful" \/ Head(events).result = "Error"
        BY <4>1, ResultEvent
      <4>. QED
        BY <2>2, <4>2 DEF RunSaveTaskUpdated, SaveTaskUpdated
    <3>. QED
      BY <1>a, <1>b, <3>2, <3>3, <3>4
  <2>3. CASE DeleteDialog BY <2>3, <1>a DEF DeleteDialog
  <2>4. CASE ReservationsInitialized
    <3>1. applying # << >> /\ Head(applying).kind = "initialized" /\ UNCHANGED dialogPc /\ UpdateUI
      BY <2>4 DEF ReservationsInitialized, Handle
    <3>2. dialogPc = "idle"
      BY <3>1, AddedFirst DEF StreamBegins, DialogBegins
    <3>. QED
      BY <1>b, <3>1, <3>2
  <2>5. CASE ReservationsAdded
    <3>1. /\ applying # << >> /\ Head(applying).kind = "added" /\ reference' = Head(applying).items
          /\ UNCHANGED <<status, newest, ui, dialogPc>>
      BY <2>5 DEF ReservationsAdded, Handle
    <3>2. reference' # {}
      BY <3>1, Popped, NewsType DEF QueueTypes
    <3>. QED
      BY <1>c, <3>1, <3>2 DEF UiInv
  <2>6. CASE ReservationsUpdated
    <3>1. /\ applying # << >> /\ Head(applying).kind = "updated" /\ newest' = Head(applying).items
          /\ UNCHANGED <<status, reference, dialogPc>> /\ UpdateUI
      BY <2>6 DEF ReservationsUpdated, Handle
    <3>2. newest' # {}
      BY <3>1, Popped, NewsType DEF QueueTypes
    <3>. QED
      BY <1>b, <1>c, <3>1, <3>2
  <2>7. CASE ReservationsRemoved BY <2>7, <1>b, <1>c DEF ReservationsRemoved, Handle
  <2>8. CASE ApplyChanges
    BY <2>8, <1>a DEF ApplyChanges
  <2>. QED
    BY <1>2, <2>1, <2>2, <2>3, <2>4, <2>5, <2>6, <2>7, <2>8 DEF MainThread
<1>3. CASE Backend
  <2>1. CASE StartStream BY <2>1, <1>a DEF StartStream
  <2>2. CASE ExecuteSave BY <2>2, <1>a DEF ExecuteSave
  <2>3. CASE DeliverChange BY <2>3, <1>a DEF DeliverChange
  <2>4. CASE DeliverResult BY <2>4, <1>a DEF DeliverResult
  <2>5. CASE AddChanges BY <2>5, <1>a DEF AddChanges
  <2>. QED
    BY <1>3, <2>1, <2>2, <2>3, <2>4, <2>5 DEF Backend
<1>4. CASE ExecuteOther
  BY <1>4, <1>a DEF ExecuteOther
<1>5. CASE Terminated \/ UNCHANGED vars
  BY <1>5, <1>a DEF Terminated, vars
<1>. QED
  BY <1>1, <1>2, <1>3, <1>4, <1>5 DEF Next

\* Handing over a change, starting the stream and an operation of others leave the results where they are.
LEMMA ResultsStay ==
  ASSUME QueueTypes, DialogTypes, Delivers \/ (Starts /\ outbox = << >>) \/ \E told : Tells(told, {})
  PROVE  /\ Has(outbox', "result") <=> Has(outbox, "result")
         /\ Once(outbox, "result") => Once(outbox', "result")
<1>1. CASE Delivers
  <2>1. outbox \in Seq(Tidings \cup ResultMessage) /\ outbox # << >> /\ outbox' = Tail(outbox)
    BY <1>1 DEF Delivers, QueueTypes
  <2>2. Head(outbox).kind # "result"
    BY <1>1, HeadOfOutbox DEF Delivers
  <2>. QED
    BY <2>1, <2>2, HasPopped
<1>2. CASE Starts /\ outbox = << >>
  <2>. DEFINE M == Tidings \cup ResultMessage
  <2>1. PICK more \in Seq(M) : /\ outbox' = Append(more, Initialized)
                               /\ more = outbox \/ \E m \in Tidings : m.kind = "added" /\ more = Append(outbox, m)
    <3>1. \A items : Added(items).kind = "added"
      BY DEF Added
    <3>. QED
      BY <1>2, <3>1, OutboxStarted DEF DialogTypes
  <2>2. Initialized \in M /\ Initialized.kind # "result" /\ Tidings \subseteq M /\ outbox \in Seq(M)
    BY DEF Initialized, Tidings, QueueTypes
  <2>. HIDE DEF M
  <2>3. ~Has(more, "result") /\ Once(more, "result")
    <3>1. CASE more = outbox
      BY <1>2, <3>1, NothingQueued
    <3>2. ASSUME NEW m \in Tidings, m.kind = "added", more = Append(outbox, m) PROVE <2>3
      <4>1. m \in M
        BY <2>2
      <4>2. /\ Has(more, "result") <=> Has(outbox, "result") \/ m.kind = "result"
            /\ Once(outbox, "result") /\ ~(Has(outbox, "result") /\ m.kind = "result") => Once(more, "result")
        BY <2>2, <3>2, <4>1, HasPushed
      <4>. QED
        BY <1>2, <3>2, <4>2, NothingQueued
    <3>. QED
      BY <2>1, <3>1, <3>2
  <2>4. ~Has(outbox', "result") /\ Once(outbox', "result")
    BY <2>1, <2>2, <2>3, HasPushed
  <2>. QED
    BY <1>2, <2>4, NothingQueued
<1>3. ASSUME NEW told, Tells(told, {})
      PROVE  /\ Has(outbox', "result") <=> Has(outbox, "result")
             /\ Once(outbox, "result") => Once(outbox', "result")
  BY <1>3, OutboxAfter
<1>. QED
  BY <1>1, <1>2, <1>3

\* An event that is not the result of a save leaves the results where they are.
LEMMA EventPushed ==
  ASSUME NEW posted \in Seq(Event), Close(posted) \/ events' = posted \/ events' = Append(posted, ResultsAvailable)
  PROVE  /\ Has(events', "result") <=> Has(posted, "result")
         /\ Once(posted, "result") => Once(events', "result")
<1>1. /\ ResultsAvailable \in Event /\ ResultsAvailable.kind # "result"
      /\ [kind |-> "delete"] \in Event /\ [kind |-> "delete"].kind # "result"
  BY DEF Event, ResultsAvailable
<1>2. \/ events' = posted
      \/ \E e \in Event : e.kind # "result" /\ events' = Append(posted, e)
  BY <1>1 DEF Close
<1>3. ASSUME NEW e \in Event, e.kind # "result", events' = Append(posted, e)
      PROVE  /\ Has(events', "result") <=> Has(posted, "result")
             /\ Once(posted, "result") => Once(events', "result")
  BY <1>3, HasPushed
<1>. QED
  BY <1>2, <1>3

\* An event was handled: the result of a save is gone only if it was the event.
LEMMA EventPopped ==
  ASSUME QueueTypes, events # << >>
  PROVE  /\ Tail(events) \in Seq(Event)
         /\ Head(events).kind # "result" => (Has(Tail(events), "result") <=> Has(events, "result"))
         /\ Once(events, "result") => Once(Tail(events), "result")
         /\ Head(events).kind = "result" =>
              Has(events, "result") /\ (Once(events, "result") => ~Has(Tail(events), "result"))
<1>1. events \in Seq(Event)
  BY DEF QueueTypes
<1>. QED
  BY <1>1, Popped, HasPopped

\* The places of a save, one by one.
LEMMA Places ==
  /\ NoSave <=> requests = << >> /\ ~Has(outbox, "result") /\ saveTask = "none" /\ ~Has(events, "result")
  /\ SavePlaces = <<FALSE, FALSE, "none", TRUE>> <=>
       requests = << >> /\ ~Has(outbox, "result") /\ saveTask = "none" /\ Has(events, "result")
<1>1. Has(outbox, "result") \in BOOLEAN /\ Has(events, "result") \in BOOLEAN
  BY DEF Has
<1>. QED
  BY <1>1 DEF NoSave, SavePlaces

\* Every step keeps one save, in one place, and none once the dialog can be used again.
LEMMA NextOneSave ==
  ASSUME QueueTypes, DialogTypes, MainThreadPlaces, StreamBegins, OneSave, UiInv, [Next]_vars
  PROVE  OneSave'
<1>. USE DEF integratorVars, queueVars, backendVars, versionVars, formVars, taskVars
<1>. DEFINE O == Has(outbox, "result")
            o == Has(outbox', "result")
            E == Has(events, "result")
            e == Has(events', "result")
            None == requests = << >> /\ ~O /\ saveTask = "none" /\ ~E
            Queued == /\ saveTask = "continued" \/ (saveTask = "queued" /\ dialogPc = "saving")
                      /\ ~E /\ (O <=> requests = << >>)
            Ended == saveTask \in Status /\ requests = << >> /\ ~O /\ ~E /\ dialogPc = "saving"
            Posted == requests = << >> /\ ~O /\ saveTask = "none" /\ E
            none == requests' = << >> /\ ~o /\ saveTask' = "none" /\ ~e
            queued == /\ saveTask' = "continued" \/ (saveTask' = "queued" /\ dialogPc' = "saving")
                      /\ ~e /\ (o <=> requests' = << >>)
            ended == saveTask' \in Status /\ requests' = << >> /\ ~o /\ ~e /\ dialogPc' = "saving"
            posted == requests' = << >> /\ ~o /\ saveTask' = "none" /\ e
            Settled == saves = 0 \/ status = "Ready" \/ dialogPc = "asking" \/ (status = "Removed" /\ reference # {})
            settled == saves' = 0 \/ status' = "Ready" \/ dialogPc' = "asking" \/ (status' = "Removed" /\ reference' # {})
            Single == (requests # << >> => Len(requests) = 1) /\ Once(outbox, "result") /\ Once(events, "result")
            single == (requests' # << >> => Len(requests') = 1) /\ Once(outbox', "result") /\ Once(events', "result")
<1>1. Single /\ (None \/ Queued \/ Ended \/ Posted) /\ (Settled => None)
  BY Places DEF OneSave
<1>2. OneSave' <=> single /\ (none \/ queued \/ ended \/ posted) /\ (settled => none)
  <2>1. o \in BOOLEAN /\ e \in BOOLEAN
    BY DEF Has
  <2>2. NoSave' <=> none
    <3>1. NoSave' <=> <<requests' # << >>, o, saveTask', e>> = <<FALSE, FALSE, "none", FALSE>>
      BY DEF NoSave, SavePlaces, Has
    <3>. HIDE DEF o, e
    <3>. QED
      BY <2>1, <3>1
  <2>3. (SavePlaces = <<FALSE, FALSE, "none", TRUE>>)' <=> posted
    <3>1. (SavePlaces = <<FALSE, FALSE, "none", TRUE>>)' <=> <<requests' # << >>, o, saveTask', e>> = <<FALSE, FALSE, "none", TRUE>>
      BY DEF SavePlaces, Has
    <3>. HIDE DEF o, e
    <3>. QED
      BY <2>1, <3>1
  <2>. QED
    BY <2>2, <2>3 DEF OneSave, Once, Has
<1>3. /\ events \in Seq(Event) /\ dialogPc \in {"idle", "saving", "asking"}
      /\ \A s \in Status : s \notin {"none", "queued", "continued"}
  BY DEF QueueTypes, DialogTypes, Status
<1>. HIDE DEF O, o, E, e
<1>a. ASSUME UNCHANGED <<requests, saveTask, saves>>, dialogPc' = dialogPc,
             o <=> O, Once(outbox, "result") => Once(outbox', "result"),
             e <=> E, Once(events, "result") => Once(events', "result"), settled => Settled \/ None
      PROVE  OneSave'
  BY <1>1, <1>2, <1>a
<1>b. UNCHANGED outbox => (o <=> O) /\ (Once(outbox, "result") => Once(outbox', "result"))
  BY DEF o, O
<1>c. UNCHANGED events => (e <=> E) /\ (Once(events, "result") => Once(events', "result"))
  BY DEF e, E
<1>d. \A q \in Seq(Event) : Close(q) \/ events' = q \/ events' = Append(q, ResultsAvailable)
        => (e <=> Has(q, "result")) /\ (Once(q, "result") => Once(events', "result"))
  BY EventPushed DEF e
<1>e. Close(events) \/ events' = Append(events, ResultsAvailable)
        => (e <=> E) /\ (Once(events, "result") => Once(events', "result"))
  BY <1>3, <1>d DEF E
<1>4. CASE User
  <2>1. CASE UserEdits BY <2>1, <1>a, <1>b, <1>c DEF UserEdits
  <2>2. CASE UserCloses BY <2>2, <1>a, <1>b, <1>e DEF UserCloses
  <2>3. CASE SaveClicked
    <3>1. dialogPc = "idle" /\ status = "Ready"
      BY <2>3 DEF SaveClicked, Usable, UiInv
    <3>2. None /\ UNCHANGED <<outbox, events>>
      BY <1>1, <2>3, <3>1 DEF SaveClicked
    <3>3. requests' # << >> /\ Len(requests') = 1
      BY <2>3, <3>2 DEF SaveClicked
    <3>4. queued /\ single
      BY <1>1, <1>b, <1>c, <2>3, <3>2, <3>3 DEF SaveClicked
    <3>5. ~settled
      <4>1. saves' = saves + 1 /\ saves \in Nat /\ status' = "Saving" /\ dialogPc' = "saving"
        BY <2>3 DEF SaveClicked, DialogTypes
      <4>. QED
        BY <4>1
    <3>. QED
      BY <1>2, <3>4, <3>5
  <2>4. CASE MergeChangesClicked
    <3>1. status = "Ready" /\ UNCHANGED <<outbox, events, requests, saveTask, saves>>
      BY <2>4 DEF MergeChangesClicked, Usable, UiInv
    <3>2. none /\ single
      BY <1>1, <1>b, <1>c, <3>1
    <3>. QED
      BY <1>2, <3>2
  <2>5. ASSUME NEW version \in {"base", "ours", "theirs"}, UserChooses(version) PROVE OneSave'
    <3>1. dialogPc = "asking" /\ UNCHANGED <<outbox, events, requests, saveTask, saves>>
      BY <2>5 DEF UserChooses
    <3>2. none /\ single
      BY <1>1, <1>b, <1>c, <3>1
    <3>. QED
      BY <1>2, <3>2
  <2>. QED
    BY <1>4, <2>1, <2>2, <2>3, <2>4, <2>5 DEF User
<1>5. CASE MainThread
  <2>1. CASE ThenSaveTaskUpdated
    <3>1. /\ dialogPc = "saving" /\ dialogPc' = "idle" /\ UNCHANGED <<outbox, requests, saves, reference>>
          /\ status = "Saving" /\ saveTask \in {"queued"} \cup Status
      BY <2>1 DEF ThenSaveTaskUpdated, MainThreadPlaces
    <3>2. CASE saveTask = "queued"
      <4>1. saveTask' = "continued" /\ UNCHANGED <<status, events>>
        BY <2>1, <3>2 DEF ThenSaveTaskUpdated
      <4>2. Queued
        BY <1>1, <1>3, <3>2
      <4>3. queued /\ single
        BY <1>1, <1>b, <1>c, <3>1, <4>1, <4>2
      <4>4. ~settled
        BY <1>1, <3>1, <4>1, <4>2, <3>2
      <4>. QED
        BY <1>2, <4>3, <4>4
    <3>3. CASE saveTask # "queued"
      <4>1. saveTask' = "none" /\ (Close(events) \/ events' = events)
        BY <2>1, <3>3 DEF ThenSaveTaskUpdated, SaveTaskUpdated
      <4>2. Ended
        BY <1>1, <1>3, <3>1, <3>3
      <4>3. none /\ single
        BY <1>1, <1>b, <1>c, <1>e, <3>1, <4>1, <4>2
      <4>. QED
        BY <1>2, <4>3
    <3>. QED
      BY <3>2, <3>3
  <2>2. CASE RunSaveTaskUpdated
    <3>1. /\ events # << >> /\ Head(events).kind = "result"
          /\ UNCHANGED <<outbox, requests, saveTask, saves, dialogPc>>
      BY <2>2 DEF RunSaveTaskUpdated
    <3>2. events' = Tail(events) \/ Close(Tail(events))
      BY <2>2 DEF RunSaveTaskUpdated, SaveTaskUpdated
    <3>3. /\ Tail(events) \in Seq(Event)
          /\ E /\ ~Has(Tail(events), "result") /\ Once(Tail(events), "result")
      BY <1>1, <3>1, EventPopped DEF E
    <3>4. ~e /\ Once(events', "result")
      BY <1>d, <3>2, <3>3
    <3>5. Posted
      BY <1>1, <3>3
    <3>6. none /\ single
      BY <1>1, <1>b, <3>1, <3>4, <3>5
    <3>. QED
      BY <1>2, <3>6
  <2>3. CASE DeleteDialog
    <3>1. events # << >> /\ Head(events).kind # "result" /\ events' = Tail(events)
      BY <2>3 DEF DeleteDialog
    <3>2. (e <=> E) /\ (Once(events, "result") => Once(events', "result"))
      BY <3>1, EventPopped DEF e, E
    <3>. QED
      BY <2>3, <1>a, <1>b, <3>2 DEF DeleteDialog
  <2>4. CASE ReservationsInitialized
    <3>1. /\ applying # << >> /\ Head(applying).kind = "initialized"
          /\ UNCHANGED <<outbox, events, requests, saveTask, saves>>
      BY <2>4 DEF ReservationsInitialized, Handle
    <3>2. saves = 0
      BY <3>1, AddedFirst DEF StreamBegins, DialogBegins
    <3>3. none /\ single
      BY <1>1, <1>b, <1>c, <3>1, <3>2
    <3>. QED
      BY <1>2, <3>3
  <2>5. CASE ReservationsAdded
    <3>1. applying # << >> /\ Head(applying).kind = "added" /\ UNCHANGED <<status, dialogPc, saves>>
      BY <2>5 DEF ReservationsAdded, Handle
    <3>2. status = "NotInitialized"
      BY <3>1, AddedFirst DEF StreamBegins, DialogBegins
    <3>. QED
      BY <2>5, <1>a, <1>b, <1>c, <3>1, <3>2 DEF ReservationsAdded, Handle
  <2>6. CASE ReservationsUpdated BY <2>6, <1>a, <1>b, <1>c DEF ReservationsUpdated, Handle
  <2>7. CASE ReservationsRemoved BY <2>7, <1>a, <1>b, <1>c DEF ReservationsRemoved, Handle
  <2>8. CASE ApplyChanges
    <3>1. CASE HandleAvailableResults
      <4>1. events # << >> /\ Head(events).kind # "result" /\ events' = Tail(events)
        BY <3>1 DEF HandleAvailableResults, ResultsAvailable
      <4>2. (e <=> E) /\ (Once(events, "result") => Once(events', "result"))
        BY <4>1, EventPopped DEF e, E
      <4>. QED
        BY <2>8, <1>a, <1>b, <4>2 DEF ApplyChanges
    <3>2. CASE ApplyStreamChanges(stream # "closed")
      BY <2>8, <3>2, <1>a, <1>b, <1>c DEF ApplyChanges, ApplyStreamChanges
    <3>. QED
      BY <2>8, <3>1, <3>2 DEF ApplyChanges
  <2>. QED
    BY <1>5, <2>1, <2>2, <2>3, <2>4, <2>5, <2>6, <2>7, <2>8 DEF MainThread
<1>6. CASE Backend
  <2>1. CASE StartStream
    <3>1. Starts
      BY <2>1 DEF StartStream, Starts
    <3>2. (o <=> O) /\ (Once(outbox, "result") => Once(outbox', "result"))
      BY <3>1, ResultsStay DEF Starts, StreamBegins, QueuesBegin, o, O
    <3>. QED
      BY <2>1, <1>a, <1>c, <3>2 DEF StartStream
  <2>2. CASE ExecuteSave
    <3>1. /\ requests # << >> /\ requests' = Tail(requests)
          /\ UNCHANGED <<events, status, reference, dialogPc, saveTask, saves>>
      BY <2>2 DEF ExecuteSave
    <3>2. requests' = << >>
      <4>1. requests \in Seq(Version) /\ Len(requests) = 1
        BY <1>1, <3>1 DEF DialogTypes
      <4>. QED
        BY <3>1, <4>1, HeadAndRest, EmptySeq
    <3>3. Queued /\ ~Settled /\ ~O
      BY <1>1, <3>1
    <3>4. o /\ Once(outbox', "result")
      BY <1>1, <2>2, <3>3, Executing, OutboxAfter DEF o, O
    <3>5. queued /\ single /\ ~settled
      BY <1>1, <1>c, <3>1, <3>2, <3>3, <3>4
    <3>. QED
      BY <1>2, <3>5
  <2>3. CASE DeliverChange
    <3>1. Delivers
      BY <2>3, HeadOfOutbox DEF DeliverChange, AddStreamChange, Delivers
    <3>2. (o <=> O) /\ (Once(outbox, "result") => Once(outbox', "result"))
      BY <3>1, ResultsStay DEF o, O
    <3>. QED
      BY <2>3, <1>a, <1>c, <3>2 DEF DeliverChange, AddStreamChange
  <2>4. CASE DeliverResult
    <3>1. /\ outbox # << >> /\ Head(outbox).kind = "result" /\ outbox' = Tail(outbox)
          /\ Head(outbox) \in Event /\ Head(outbox).result \in Status
          /\ UNCHANGED <<status, reference, dialogPc, saves, requests>>
          /\ IF saveTask = "continued"
               THEN saveTask' = "none" /\ events' = Append(events, Head(outbox))
               ELSE saveTask' = Head(outbox).result /\ UNCHANGED events
      BY <2>4, HeadOfOutbox DEF DeliverResult, ResultMessage, Event
    <3>2. O /\ ~o /\ Once(outbox', "result")
      BY <1>1, <3>1, HasPopped DEF QueueTypes, O, o
    <3>3. Queued /\ ~settled /\ requests' = << >> /\ ~E
      BY <1>1, <3>1, <3>2
    <3>4. CASE saveTask = "continued"
      <4>1. e /\ Once(events', "result")
        BY <1>1, <1>3, <3>1, <3>3, <3>4, HasPushed DEF e, E
      <4>2. posted /\ single
        BY <3>1, <3>2, <3>3, <3>4, <4>1
      <4>. QED
        BY <1>2, <3>3, <4>2
    <3>5. CASE saveTask # "continued"
      <4>1. ended /\ single
        BY <1>1, <1>c, <3>1, <3>2, <3>3, <3>5
      <4>. QED
        BY <1>2, <3>3, <4>1
    <3>. QED
      BY <3>4, <3>5
  <2>5. CASE AddChanges
    <3>1. UNCHANGED events \/ events' = Append(events, ResultsAvailable)
      BY <2>5 DEF AddChanges, EmitResultsAvailable, PostResultsAvailable
    <3>. QED
      BY <2>5, <3>1, <1>a, <1>b, <1>c, <1>e DEF AddChanges
  <2>. QED
    BY <1>6, <2>1, <2>2, <2>3, <2>4, <2>5 DEF Backend
<1>7. CASE ExecuteOther
  <2>1. (o <=> O) /\ (Once(outbox, "result") => Once(outbox', "result"))
    BY <1>7, Executing, ResultsStay DEF o, O
  <2>. QED
    BY <1>7, <1>a, <1>c, <2>1 DEF ExecuteOther
<1>8. CASE Terminated \/ UNCHANGED vars
  BY <1>8, <1>a, <1>b, <1>c DEF Terminated, vars
<1>. QED
  BY <1>4, <1>5, <1>6, <1>7, <1>8 DEF Next

-----------------------------------------------------------------------------
(* What the form shows *)

\* What a form shows of a field depends on that field alone; a value it can show, it shows.
LEMMA ShownField ==
  ASSUME NEW f \in Fields, NEW g \in Fields, NEW field \in FieldNames
  PROVE  /\ f[field] = g[field] => Shown(f)[field] = Shown(g)[field]
         /\ f \in Forms => Shown(f)[field] = f[field]
<1>1. /\ Shown(f)["description"] = f["description"] /\ Shown(g)["description"] = g["description"]
      /\ Shown(f)["adults"] = IF f["adults"] > FormMax THEN FormMax ELSE f["adults"]
      /\ Shown(g)["adults"] = IF g["adults"] > FormMax THEN FormMax ELSE g["adults"]
  BY ShownForm
<1>2. f \in Forms => ~(f["adults"] > FormMax)
  <2>. DEFINE D == {h.description : h \in Fields} \cup {""}
  <2>1. Forms = [description : D, adults : 0 .. FormMax]
    BY DEF Forms
  <2>. HIDE DEF D
  <2>2. f \in Forms => f.adults \in 0 .. FormMax
    BY <2>1
  <2>. QED
    BY <2>2, EditReservationAssumption
<1>. QED
  BY <1>1, <1>2 DEF FieldNames

\* A merge without a conflict in a field shows their value there, but for what the user has set.
LEMMA MergeShows ==
  ASSUME NEW base \in Fields, NEW ours \in Fields, NEW theirs \in Fields, ours \in Forms, NEW field \in FieldNames,
         ours[field] # Shown(base)[field] => field \in edited,
         \A i \in DOMAIN Merge(base, ours, theirs).conflicts : Merge(base, ours, theirs).conflicts[i] # field,
         Shown(Merge(base, ours, theirs).merged)[field] # Shown(theirs)[field]
  PROVE  field \in edited
<1>. DEFINE merged == Merge(base, ours, theirs).merged
<1>1. /\ merged \in Fields
      /\ merged[field] = IF ours[field] = theirs[field] \/ theirs[field] = base[field] THEN ours[field]
                         ELSE IF ours[field] = base[field] THEN theirs[field] ELSE base[field]
      /\ ours[field] = base[field] \/ theirs[field] = base[field] \/ ours[field] = theirs[field]
  BY Merged
<1>. HIDE DEF merged
<1>2. merged[field] # theirs[field]
  BY <1>1, ShownField DEF merged
<1>3. merged[field] = ours[field] /\ theirs[field] = base[field]
  BY <1>1, <1>2
<1>4. /\ Shown(merged)[field] = Shown(ours)[field] /\ Shown(ours)[field] = ours[field]
      /\ Shown(theirs)[field] = Shown(base)[field]
  BY <1>1, <1>3, ShownField
<1>. QED
  BY <1>4 DEF merged

\* The first conflict is solved: in that field the merge shows their value, or the user has set it.
LEMMA ChoiceShows ==
  ASSUME NEW merged \in Fields, NEW theirs \in Fields, NEW solved \in Fields,
         NEW conflicts \in Seq(FieldNames), conflicts # << >>, NEW chosen \in BOOLEAN,
         chosen => solved[Head(conflicts)] = theirs[Head(conflicts)],
         \A other \in FieldNames \ {Head(conflicts)} : solved[other] = merged[other],
         \A f \in FieldNames : /\ \A i \in DOMAIN conflicts : conflicts[i] # f
                               /\ Shown(merged)[f] # Shown(theirs)[f]
                               => f \in edited,
         NEW f \in FieldNames, \A i \in DOMAIN Tail(conflicts) : Tail(conflicts)[i] # f,
         Shown(solved)[f] # Shown(theirs)[f]
  PROVE  f \in IF chosen THEN edited \ {Head(conflicts)} ELSE edited \cup {Head(conflicts)}
<1>. DEFINE field == Head(conflicts)
<1>1. /\ field \in FieldNames /\ field = conflicts[1]
      /\ \A i \in DOMAIN conflicts : i \in Nat \ {0} /\ (i # 1 => i - 1 \in DOMAIN Tail(conflicts))
      /\ \A i \in DOMAIN Tail(conflicts) : Tail(conflicts)[i] = conflicts[i + 1]
  BY Popped
<1>2. /\ chosen => solved[field] = theirs[field]
      /\ \A other \in FieldNames \ {field} : solved[other] = merged[other]
  OBVIOUS
<1>. HIDE DEF field
<1>3. CASE f = field
  <2>1. ~chosen
    BY <1>1, <1>2, <1>3, ShownField
  <2>. QED
    BY <1>3, <2>1 DEF field
<1>4. CASE f # field
  <2>1. Shown(merged)[f] # Shown(theirs)[f]
    BY <1>2, <1>4, ShownField
  <2>2. ASSUME NEW i \in DOMAIN conflicts, conflicts[i] = f PROVE FALSE
    <3>1. i # 1 /\ i - 1 \in DOMAIN Tail(conflicts) /\ i - 1 + 1 = i
      BY <1>1, <1>4, <2>2
    <3>. QED
      BY <1>1, <2>2, <3>1
  <2>. QED
    BY <1>4, <2>1, <2>2 DEF field
<1>. QED
  BY <1>3, <1>4

\* Every step keeps the form, and a merge under way, in line with the versions.
LEMMA NextForm ==
  ASSUME QueueTypes, DialogTypes, FormTypes, StreamBegins, UiInv, FormInv, [Next]_vars
  PROVE  FormInv'
<1>. USE DEF integratorVars, queueVars, backendVars, versionVars, formVars, taskVars
<1>. DEFINE Edits(f, v, set) == \A n \in FieldNames : f[n] # Shown(The(v).fields)[n] => n \in set
            Merges(r, v, set) ==
              /\ r.theirs = The(v).fields
              /\ \A n \in FieldNames : /\ \A i \in DOMAIN r.conflicts : r.conflicts[i] # n
                                       /\ Shown(r.merged)[n] # Shown(The(v).fields)[n]
                                       => n \in set
<1>1. /\ overtaken \/ (dialogPc # "asking" /\ reference # {} => Edits(form, reference, edited))
      /\ ~overtaken /\ dialogPc = "asking" => Merges(resolution, newest, edited)
  BY DEF FormInv, FormFollowsReference, EditsReferenceVersion, MergesNewest
<1>2. FormInv' <=>
        /\ overtaken' \/ (dialogPc' # "asking" /\ reference' # {} => Edits(form', reference', edited'))
        /\ ~overtaken' /\ dialogPc' = "asking" => Merges(resolution', newest', edited')
  BY DEF FormInv, FormFollowsReference, EditsReferenceVersion, MergesNewest, The, Shown
<1>3. /\ overtaken \in BOOLEAN /\ reference \in Versions /\ newest \in Versions
      /\ dialogPc \in {"idle", "saving", "asking"}
  BY DEF DialogTypes
<1>a. ASSUME UNCHANGED <<form, reference, newest, edited, resolution, overtaken>>,
             (dialogPc' = "asking") = (dialogPc = "asking")
      PROVE  FormInv'
  BY <1>1, <1>2, <1>a
<1>4. CASE User
  <2>1. CASE UserEdits
    <3>1. reference # {} /\ form \in Fields /\ dialogPc = "idle"
      BY <2>1 DEF UserEdits, UiInv, FormTypes, Usable
    <3>2. PICK field \in FieldNames, fields \in Ours :
            form' = [form EXCEPT ![field] = Shown(fields)[field]] /\ edited' = edited \cup {field}
      BY <2>1 DEF UserEdits
    <3>3. UNCHANGED <<reference, newest, resolution, overtaken, dialogPc>>
      BY <2>1 DEF UserEdits
    <3>4. DOMAIN form = FieldNames
      BY <3>1, EditReservationAssumption DEF FieldNames
    <3>5. \A n \in FieldNames \ {field} : form'[n] = form[n]
      BY <3>2, <3>4
    <3>6. ~overtaken => Edits(form', reference, edited')
      BY <1>1, <3>1, <3>2, <3>5
    <3>. QED
      BY <1>2, <1>3, <3>1, <3>3, <3>6
  <2>2. CASE UserCloses BY <2>2, <1>a DEF UserCloses
  <2>3. CASE SaveClicked BY <2>3, <1>a DEF SaveClicked, Usable
  <2>4. CASE MergeChangesClicked
    <3>1. reference # {} /\ newest # {} /\ form \in Fields /\ form \in Forms /\ dialogPc = "idle"
      BY <2>4 DEF MergeChangesClicked, UiInv, FormTypes, Usable
    <3>. DEFINE base == The(reference).fields
                theirs == The(newest).fields
                merge == Merge(base, form, theirs)
    <3>2. base \in Fields /\ theirs \in Fields
      BY <1>3, <3>1, FieldsOfVersion
    <3>3. UNCHANGED <<edited, overtaken>>
      BY <2>4 DEF MergeChangesClicked
    <3>4. ASSUME ~overtaken, NEW n \in FieldNames, \A i \in DOMAIN merge.conflicts : merge.conflicts[i] # n,
                 Shown(merge.merged)[n] # Shown(theirs)[n]
          PROVE  n \in edited
      <4>1. form[n] # Shown(base)[n] => n \in edited
        BY <1>1, <3>1, <3>4
      <4>. HIDE DEF base, theirs
      <4>. QED
        BY <3>1, <3>2, <3>4, <4>1, MergeShows
    <3>5. CASE merge.conflicts = << >>
      <4>1. /\ form' = Shown(merge.merged) /\ reference' = newest /\ UNCHANGED dialogPc
        BY <2>4, <3>5 DEF MergeChangesClicked, FinishMerge
      <4>. HIDE DEF merge
      <4>2. \A n : \A i \in DOMAIN merge.conflicts : merge.conflicts[i] # n
        BY <3>5
      <4>3. ~overtaken => Edits(form', newest, edited)
        BY <3>4, <4>1, <4>2
      <4>. QED
        BY <1>2, <1>3, <3>1, <3>3, <4>1, <4>3
    <3>6. CASE merge.conflicts # << >>
      <4>1. /\ resolution' = [merged |-> merge.merged, ours |-> form, theirs |-> theirs, conflicts |-> merge.conflicts]
            /\ dialogPc' = "asking" /\ UNCHANGED newest
        BY <2>4, <3>6 DEF MergeChangesClicked
      <4>. HIDE DEF merge
      <4>2. /\ resolution'.merged = merge.merged /\ resolution'.theirs = theirs
            /\ resolution'.conflicts = merge.conflicts
        BY <4>1
      <4>3. ~overtaken => Merges(resolution', newest, edited)
        BY <3>4, <4>2
      <4>. QED
        BY <1>2, <1>3, <3>3, <4>1, <4>3
    <3>. QED
      BY <3>5, <3>6
  <2>5. ASSUME NEW version \in {"base", "ours", "theirs"}, UserChooses(version) PROVE FormInv'
    <3>. DEFINE r == resolution
                field == Head(r.conflicts)
    <3>1. /\ dialogPc = "asking" /\ r.merged \in Fields /\ r.ours \in Fields /\ r.theirs \in Fields
          /\ r.conflicts \in Seq(FieldNames) /\ r.conflicts # << >>
          /\ DOMAIN resolution = {"merged", "ours", "theirs", "conflicts"}
      BY <2>5 DEF UserChooses, FormTypes
    <3>2. PICK merged : /\ merged = CASE version = "base"   -> r.merged
                                      [] version = "ours"   -> [r.merged EXCEPT ![field] = r.ours[field]]
                                      [] version = "theirs" -> [r.merged EXCEPT ![field] = r.theirs[field]]
                        /\ edited' = IF version = "theirs" THEN edited \ {field} ELSE edited \cup {field}
                        /\ IF Tail(r.conflicts) = << >>
                             THEN FinishMerge(merged) /\ resolution' = Resolved /\ dialogPc' = "idle"
                             ELSE /\ resolution' = [resolution EXCEPT !.merged = merged, !.conflicts = Tail(r.conflicts)]
                                  /\ UNCHANGED <<form, versionVars, dialogPc>>
      BY <2>5 DEF UserChooses
    <3>3. UNCHANGED overtaken
      BY <2>5 DEF UserChooses
    <3>4. ASSUME ~overtaken, NEW n \in FieldNames, \A i \in DOMAIN Tail(r.conflicts) : Tail(r.conflicts)[i] # n,
                 Shown(merged)[n] # Shown(r.theirs)[n]
          PROVE  n \in edited'
      <4>1. \A f \in FieldNames : /\ \A i \in DOMAIN r.conflicts : r.conflicts[i] # f
                                  /\ Shown(r.merged)[f] # Shown(r.theirs)[f]
                                  => f \in edited
        BY <1>1, <3>1, <3>4
      <4>2. PICK m, o, t, cs : m = r.merged /\ o = r.ours /\ t = r.theirs /\ cs = r.conflicts
        OBVIOUS
      <4>3. /\ version = "base" => merged = m
            /\ version = "ours" => merged = [m EXCEPT ![Head(cs)] = o[Head(cs)]]
            /\ version = "theirs" => merged = [m EXCEPT ![Head(cs)] = t[Head(cs)]]
        <5>1. version = "base" => merged = m
          BY <3>2, <4>2
        <5>2. version = "ours" => merged = [m EXCEPT ![Head(cs)] = o[Head(cs)]]
          BY <3>2, <4>2
        <5>3. version = "theirs" => merged = [m EXCEPT ![Head(cs)] = t[Head(cs)]]
          BY <3>2, <4>2
        <5>. QED
          BY <5>1, <5>2, <5>3
      <4>4. /\ m \in Fields /\ o \in Fields /\ t \in Fields /\ cs \in Seq(FieldNames) /\ cs # << >>
            /\ \A f \in FieldNames : /\ \A i \in DOMAIN cs : cs[i] # f
                                     /\ Shown(m)[f] # Shown(t)[f]
                                     => f \in edited
            /\ \A i \in DOMAIN Tail(cs) : Tail(cs)[i] # n
            /\ Shown(merged)[n] # Shown(t)[n]
        BY <3>1, <3>4, <4>1, <4>2, Zenon
      <4>5. m \in Fields /\ o \in Fields /\ t \in Fields /\ Head(cs) \in FieldNames
        BY <4>4, Popped
      <4>6. /\ merged \in Fields
            /\ version = "theirs" => merged[Head(cs)] = t[Head(cs)]
            /\ \A other \in FieldNames \ {Head(cs)} : merged[other] = m[other]
        <5>1. CASE version = "base"
          BY <4>3, <4>5, <5>1
        <5>2. CASE version = "ours"
          <6>1. merged = [m EXCEPT ![Head(cs)] = o[Head(cs)]]
            BY <4>3, <5>2
          <6>2. [m EXCEPT ![Head(cs)] = o[Head(cs)]] \in Fields
            BY <4>5, ChangedForm, Zenon
          <6>3. merged \in Fields
            BY <6>1, <6>2, Zenon
          <6>4. DOMAIN m = FieldNames
            BY <4>5, EditReservationAssumption DEF FieldNames
          <6>5. /\ merged[Head(cs)] = o[Head(cs)]
                /\ \A other \in FieldNames \ {Head(cs)} : merged[other] = m[other]
            BY <4>5, <6>1, <6>4
          <6>. QED
            BY <5>2, <6>3, <6>5
        <5>3. CASE version = "theirs"
          <6>1. merged = [m EXCEPT ![Head(cs)] = t[Head(cs)]]
            BY <4>3, <5>3
          <6>2. [m EXCEPT ![Head(cs)] = t[Head(cs)]] \in Fields
            BY <4>5, ChangedForm, Zenon
          <6>3. merged \in Fields
            BY <6>1, <6>2, Zenon
          <6>4. DOMAIN m = FieldNames
            BY <4>5, EditReservationAssumption DEF FieldNames
          <6>5. /\ merged[Head(cs)] = t[Head(cs)]
                /\ \A other \in FieldNames \ {Head(cs)} : merged[other] = m[other]
            BY <4>5, <6>1, <6>4
          <6>. QED
            BY <5>3, <6>3, <6>5
        <5>. QED
          BY <5>1, <5>2, <5>3
      <4>7. PICK chosen \in BOOLEAN : chosen <=> version = "theirs"
        OBVIOUS
      <4>8. chosen => merged[Head(cs)] = t[Head(cs)]
        BY <4>6, <4>7
      <4>9. n \in IF chosen THEN edited \ {Head(cs)} ELSE edited \cup {Head(cs)}
        BY <4>4, <4>6, <4>8, ChoiceShows
      <4>. QED
        BY <3>2, <4>2, <4>7, <4>9
    <3>5. ~overtaken => r.theirs = The(newest).fields
      BY <1>1, <3>1
    <3>6. CASE Tail(r.conflicts) = << >>
      <4>1. form' = Shown(merged) /\ reference' = newest /\ dialogPc' = "idle"
        BY <3>2, <3>6 DEF FinishMerge
      <4>2. \A n : \A i \in DOMAIN Tail(r.conflicts) : Tail(r.conflicts)[i] # n
        BY <3>6
      <4>3. ~overtaken => Edits(form', newest, edited')
        BY <3>4, <3>5, <4>1, <4>2
      <4>. QED
        BY <1>2, <1>3, <3>3, <4>1, <4>3
    <3>7. CASE Tail(r.conflicts) # << >>
      <4>1. /\ resolution' = [resolution EXCEPT !.merged = merged, !.conflicts = Tail(r.conflicts)]
            /\ UNCHANGED <<dialogPc, newest>>
        BY <3>2, <3>7
      <4>2. /\ resolution'.merged = merged /\ resolution'.theirs = r.theirs
            /\ resolution'.conflicts = Tail(r.conflicts)
        BY <3>1, <4>1
      <4>3. ~overtaken => Merges(resolution', newest, edited')
        BY <3>4, <3>5, <4>2
      <4>. QED
        BY <1>2, <1>3, <3>1, <3>3, <4>1, <4>3
    <3>. QED
      BY <3>6, <3>7
  <2>. QED
    BY <1>4, <2>1, <2>2, <2>3, <2>4, <2>5 DEF User
<1>5. CASE MainThread
  <2>1. CASE ThenSaveTaskUpdated BY <2>1, <1>a DEF ThenSaveTaskUpdated
  <2>2. CASE RunSaveTaskUpdated BY <2>2, <1>a DEF RunSaveTaskUpdated
  <2>3. CASE DeleteDialog BY <2>3, <1>a DEF DeleteDialog
  <2>4. CASE ReservationsInitialized BY <2>4, <1>a DEF ReservationsInitialized, Handle
  <2>5. CASE ReservationsAdded
    <3>1. /\ applying # << >> /\ Head(applying).kind = "added"
          /\ form' = Shown(The(reference').fields) /\ UNCHANGED <<dialogPc, newest, edited, resolution, overtaken>>
      BY <2>5 DEF ReservationsAdded, Handle
    <3>2. newest = {}
      BY <3>1, AddedFirst DEF StreamBegins, DialogBegins
    <3>3. dialogPc # "asking"
      BY <3>2 DEF UiInv
    <3>. QED
      BY <1>2, <3>1, <3>3
  <2>6. CASE ReservationsUpdated
    <3>1. /\ UNCHANGED <<form, reference, edited, resolution, dialogPc>>
          /\ overtaken' = (overtaken \/ dialogPc = "asking")
      BY <2>6 DEF ReservationsUpdated, Handle
    <3>. QED
      BY <1>1, <1>2, <1>3, <3>1
  <2>7. CASE ReservationsRemoved
    <3>1. reference' = {} /\ UNCHANGED <<newest, form, edited, resolution, overtaken, dialogPc>>
      BY <2>7 DEF ReservationsRemoved, Handle
    <3>. QED
      BY <1>1, <1>2, <3>1
  <2>8. CASE ApplyChanges BY <2>8, <1>a DEF ApplyChanges
  <2>. QED
    BY <1>5, <2>1, <2>2, <2>3, <2>4, <2>5, <2>6, <2>7, <2>8 DEF MainThread
<1>6. CASE Backend
  <2>1. CASE StartStream BY <2>1, <1>a DEF StartStream
  <2>2. CASE ExecuteSave BY <2>2, <1>a DEF ExecuteSave
  <2>3. CASE DeliverChange BY <2>3, <1>a DEF DeliverChange
  <2>4. CASE DeliverResult BY <2>4, <1>a DEF DeliverResult
  <2>5. CASE AddChanges BY <2>5, <1>a DEF AddChanges
  <2>. QED
    BY <1>6, <2>1, <2>2, <2>3, <2>4, <2>5 DEF Backend
<1>7. CASE ExecuteOther
  BY <1>7, <1>a DEF ExecuteOther
<1>8. CASE Terminated \/ UNCHANGED vars
  BY <1>8, <1>a DEF Terminated, vars
<1>. QED
  BY <1>4, <1>5, <1>6, <1>7, <1>8 DEF Next

-----------------------------------------------------------------------------
(* Which versions are known *)

\* An operation changes what is stored, under a new revision, and tells of it.
LEMMA KnownStays ==
  ASSUME NEW db \in Database, NEW after \in Database, NEW told, Becomes(db, after, told)
  PROVE  /\ \A v \in Version : Known(db, v) => Known(after, v)
         /\ \A m \in Tidings : told = <<m>> => TellsKnown(after, m)
<1>. DEFINE old == db["Reservation"]
            new == after["Reservation"]
<1>0. /\ 1 \in DOMAIN old => old[1].revision \in Nat
      /\ \A v \in Version : v.revision \in Nat
  <2>1. old \in Seq(Row)
    BY DEF Database, Tables
  <2>. HIDE DEF old
  <2>2. 1 \in DOMAIN old => old[1] \in Row
    BY <2>1, ElementOfSeq, LenProperties
  <2>. QED
    BY <2>2 DEF Row, Version, Item
<1>a. \A a, b : <<a>> = <<b>> => a = b
  <2>. SUFFICES ASSUME NEW a, NEW b, <<a>> = <<b>> PROVE a = b
    OBVIOUS
  <2>1. <<a>>[1] = a /\ <<b>>[1] = b
    OBVIOUS
  <2>. QED
    BY <2>1
<1>1. CASE told = << >> /\ after = db
  BY <1>1
<1>2. ASSUME NEW w \in Version, told = <<Updated({w})>>, 1 \in DOMAIN old, 1 \in DOMAIN new,
             new[1].revision = old[1].revision + 1, new[1].revision = w.revision, new[1].fields = w.fields
      PROVE  /\ \A v \in Version : Known(db, v) => Known(after, v)
             /\ \A m \in Tidings : told = <<m>> => TellsKnown(after, m)
  <2>1. ASSUME NEW v \in Version, Known(db, v) PROVE Known(after, v)
    BY <1>0, <1>2, <2>1 DEF Known
  <2>2. ASSUME NEW m \in Tidings, told = <<m>> PROVE TellsKnown(after, m)
    <3>1. m = Updated({w})
      BY <1>2, <1>a, <2>2
    <3>2. m.items = {w}
      BY <3>1 DEF Updated
    <3>3. Known(after, w)
      BY <1>0, <1>2 DEF Known
    <3>. QED
      BY <3>2, <3>3 DEF TellsKnown
  <2>. QED
    BY <2>1, <2>2
<1>3. CASE /\ told = <<Removed({1})>>
           /\ 1 \in DOMAIN new => 1 \in DOMAIN old /\ new[1].revision = old[1].revision /\ new[1].fields = old[1].fields
  <2>1. \A m : told = <<m>> => m = Removed({1})
    BY <1>3, <1>a
  <2>2. Removed({1}).kind = "removed"
    BY DEF Removed
  <2>. QED
    BY <1>3, <2>1, <2>2 DEF Known, TellsKnown
<1>4. CASE told = <<Cleared>> /\ 1 \notin DOMAIN new
  <2>1. \A m : told = <<m>> => m = Cleared
    BY <1>4, <1>a
  <2>2. Cleared.kind = "cleared"
    BY DEF Cleared
  <2>. QED
    BY <1>4, <2>1, <2>2 DEF Known, TellsKnown
<1>. QED
  BY <1>1, <1>2, <1>3, <1>4 DEF Becomes

\* A version put on a queue is known there if it is known.
LEMMA KnownPushed ==
  ASSUME NEW S, NEW queue \in Seq(S), NEW e \in S, NEW db, KnownIn(db, queue), TellsKnown(db, e)
  PROVE  KnownIn(db, Append(queue, e))
<1>. DEFINE long == Append(queue, e)
            n == Len(queue) + 1
<1>1. /\ DOMAIN long = DOMAIN queue \cup {n}
      /\ \A i \in DOMAIN queue : long[i] = queue[i]
      /\ long[n] = e
  BY Pushed
<1>. HIDE DEF long, n
<1>2. KnownIn(db, long)
  BY <1>1 DEF KnownIn
<1>. QED
  BY <1>2 DEF long

\* What is left of a queue is known.
LEMMA KnownPopped ==
  ASSUME NEW S, NEW queue \in Seq(S), queue # << >>, NEW db, KnownIn(db, queue)
  PROVE  KnownIn(db, Tail(queue)) /\ TellsKnown(db, Head(queue))
<1>1. /\ 1 \in DOMAIN queue /\ Head(queue) = queue[1]
      /\ \A i \in DOMAIN Tail(queue) : i + 1 \in DOMAIN queue /\ Tail(queue)[i] = queue[i + 1]
  BY Popped
<1>. QED
  BY <1>1 DEF KnownIn

\* An empty queue tells nothing that is not known.
LEMMA NothingKnown == \A db : KnownIn(db, << >>)
  BY DEF KnownIn

\* What waits in a queue is known after an operation, too.
LEMMA KnownInStays ==
  ASSUME NEW queue \in Seq(Tidings \cup ResultMessage), NEW db, NEW after, KnownIn(db, queue),
         \A v \in Version : Known(db, v) => Known(after, v)
  PROVE  KnownIn(after, queue)
<1>. SUFFICES ASSUME NEW i \in DOMAIN queue, queue[i].kind \in {"added", "updated"} PROVE \A v \in queue[i].items : Known(after, v)
  BY DEF KnownIn, TellsKnown
<1>1. queue[i] \in Tidings \cup ResultMessage
  BY ElementOfSeq, LenProperties
<1>2. queue[i] \in Tidings
  BY <1>1 DEF ResultMessage
<1>3. queue[i].items \in Versions
  BY <1>2, NewsType
<1>. QED
  BY <1>3 DEF KnownIn, TellsKnown, Versions

\* Every step keeps the versions in the queues known, ...
LEMMA NextQueuesKnown ==
  ASSUME QueueTypes, DialogTypes, VersionsKnown, [Next]_vars
  PROVE  KnownIn(storage', applying') /\ KnownIn(storage', changeList') /\ KnownIn(storage', outbox')
<1>. DEFINE M == Tidings \cup ResultMessage
<1>1. /\ applying \in Seq(Tidings) /\ changeList \in Seq(Tidings) /\ outbox \in Seq(M) /\ Tidings \subseteq M
      /\ applying \in Seq(M) /\ changeList \in Seq(M)
      /\ KnownIn(storage, applying) /\ KnownIn(storage, changeList) /\ KnownIn(storage, outbox)
  <2>1. Seq(Tidings) \subseteq Seq(M)
    <3>1. \A q \in Seq(Tidings) : q \in Seq(M)
      <4>. TAKE q \in Seq(Tidings)
      <4>1. /\ Len(q) \in Nat /\ \A i \in 1 .. Len(q) : q[i] \in Tidings
            /\ q = [i \in 1 .. Len(q) |-> q[i]]
        BY ElementOfSeq, LenProperties
      <4>. QED
        BY <4>1, IsASeq
    <3>. QED
      BY <3>1
  <2>. QED
    BY <2>1 DEF QueueTypes, VersionsKnown
<1>. HIDE DEF M
<1>2. CASE Moves
  <2>1. storage' = storage
    BY <1>2 DEF Moves
  <2>2. CASE QueuesStay BY <1>1, <2>1, <2>2 DEF QueuesStay
  <2>3. CASE Delivers
    BY <1>1, <2>1, <2>3, KnownPopped, KnownPushed DEF Delivers
  <2>4. CASE Answers BY <1>1, <2>1, <2>4, KnownPopped DEF Answers
  <2>5. CASE Swaps \/ Drops BY <1>1, <2>1, <2>5, NothingKnown DEF Swaps, Drops
  <2>6. CASE Handles BY <1>1, <2>1, <2>6, KnownPopped DEF Handles
  <2>. QED
    BY <1>2, <2>2, <2>3, <2>4, <2>5, <2>6 DEF Moves
<1>3. CASE Starts
  <2>. DEFINE items == Loaded(storage, ById)
  <2>1. UNCHANGED <<applying, changeList, storage>>
    BY <1>3 DEF Starts
  <2>2. PICK more \in Seq(M) :
          /\ outbox' = Append(more, Initialized)
          /\ more = outbox \/ (Added(items) \in Tidings /\ more = Append(outbox, Added(items)))
    BY <1>3, OutboxStarted DEF DialogTypes, M
  <2>3. TellsKnown(storage, Added(items))
    <3>1. storage \in Database
      BY DEF DialogTypes
    <3>2. \A v \in items : /\ 1 \in DOMAIN storage["Reservation"] /\ v.revision = storage["Reservation"][1].revision
                           /\ v.fields = storage["Reservation"][1].fields /\ v.revision \in Nat
      BY <3>1, LoadedVersion DEF Versions, Version, Item
    <3>3. Added(items).items = items
      BY DEF Added
    <3>. HIDE DEF items
    <3>. QED
      BY <3>2, <3>3 DEF TellsKnown, Known
  <2>4. Initialized \in M /\ TellsKnown(storage, Initialized)
    BY <1>1 DEF Initialized, TellsKnown, Tidings
  <2>. HIDE DEF items
  <2>5. KnownIn(storage, more)
    BY <1>1, <2>2, <2>3, KnownPushed
  <2>6. KnownIn(storage, outbox')
    BY <2>2, <2>4, <2>5, KnownPushed
  <2>. QED
    BY <1>1, <2>1, <2>6
<1>4. ASSUME NEW told, NEW results, Tells(told, results), storage' \in Database
      PROVE  KnownIn(storage', applying') /\ KnownIn(storage', changeList') /\ KnownIn(storage', outbox')
  <2>1. UNCHANGED <<applying, changeList>> /\ Becomes(storage, storage', told)
    BY <1>4 DEF Tells
  <2>2. /\ \A v \in Version : Known(storage, v) => Known(storage', v)
        /\ \A m \in Tidings : told = <<m>> => TellsKnown(storage', m)
    BY <1>4, <2>1, KnownStays DEF DialogTypes
  <2>3. KnownIn(storage', applying) /\ KnownIn(storage', changeList) /\ KnownIn(storage', outbox)
    BY <1>1, <2>2, KnownInStays DEF M
  <2>4. PICK more \in Seq(M) :
          /\ more = outbox \/ \E m \in Tidings : stream = "following" /\ told = <<m>> /\ more = Append(outbox, m)
          /\ (outbox' = more /\ results = {}) \/ \E m \in ResultMessage : outbox' = Append(more, m) /\ results = {m}
    BY <1>4, OutboxTold DEF M
  <2>5. KnownIn(storage', more)
    BY <1>1, <2>2, <2>3, <2>4, KnownPushed
  <2>6. \A m \in ResultMessage : m \in M /\ TellsKnown(storage', m)
    BY DEF ResultMessage, M, TellsKnown
  <2>7. KnownIn(storage', outbox')
    BY <2>4, <2>5, <2>6, KnownPushed
  <2>. QED
    BY <2>1, <2>3, <2>7
<1>. QED
  BY <1>2, <1>3, <1>4, StepsOfQueues, Executing

\* What is known before a step is known after it.
LEMMA StillKnown ==
  ASSUME QueueTypes, DialogTypes, [Next]_vars
  PROVE  \A v \in Version : Known(storage, v) => Known(storage', v)
<1>1. CASE Moves \/ Starts
  BY <1>1 DEF Moves, Starts
<1>2. ASSUME NEW told, NEW results, Tells(told, results), storage' \in Database
      PROVE  \A v \in Version : Known(storage, v) => Known(storage', v)
  BY <1>2, KnownStays DEF Tells, DialogTypes
<1>. QED
  BY <1>1, <1>2, StepsOfQueues, Executing

\* ... those the dialog holds, ...
LEMMA NextReferencesKnown ==
  ASSUME QueueTypes, DialogTypes, VersionsKnown, [Next]_vars
  PROVE  \A v \in reference' \cup newest' : Known(storage', v)
<1>. USE DEF integratorVars, queueVars, backendVars, versionVars, formVars, taskVars
<1>. DEFINE Goal == \A v \in reference' \cup newest' : Known(storage', v)
<1>1. /\ \A v \in reference \cup newest : Known(storage, v) /\ v \in Version
      /\ \A v \in Version : Known(storage, v) => Known(storage', v)
  BY StillKnown DEF VersionsKnown, DialogTypes, Versions
<1>a. ASSUME reference' \cup newest' \subseteq reference \cup newest PROVE Goal
  BY <1>1, <1>a
<1>b. applying # << >> /\ Head(applying).kind \in {"added", "updated"} =>
        \A v \in Head(applying).items : v \in Version /\ Known(storage, v)
  <2>. SUFFICES ASSUME applying # << >>, Head(applying).kind \in {"added", "updated"}
                PROVE  \A v \in Head(applying).items : v \in Version /\ Known(storage, v)
    OBVIOUS
  <2>1. applying \in Seq(Tidings) /\ KnownIn(storage, applying)
    BY DEF QueueTypes, VersionsKnown
  <2>2. Head(applying) \in Tidings
    BY <2>1, Popped
  <2>3. TellsKnown(storage, Head(applying))
    BY <2>1, KnownPopped
  <2>4. Head(applying).items \in Versions
    BY <2>2, NewsType
  <2>. QED
    BY <2>3, <2>4 DEF TellsKnown, Versions
<1>2. CASE User
  <2>1. CASE UserEdits BY <2>1, <1>a DEF UserEdits
  <2>2. CASE UserCloses BY <2>2, <1>a DEF UserCloses
  <2>3. CASE SaveClicked BY <2>3, <1>a DEF SaveClicked
  <2>4. CASE MergeChangesClicked BY <2>4, <1>a DEF MergeChangesClicked, FinishMerge
  <2>5. ASSUME NEW version \in {"base", "ours", "theirs"}, UserChooses(version) PROVE Goal
    BY <2>5, <1>a DEF UserChooses, FinishMerge
  <2>. QED
    BY <1>2, <2>1, <2>2, <2>3, <2>4, <2>5 DEF User
<1>3. CASE MainThread
  <2>1. CASE ThenSaveTaskUpdated BY <2>1, <1>a DEF ThenSaveTaskUpdated
  <2>2. CASE RunSaveTaskUpdated BY <2>2, <1>a DEF RunSaveTaskUpdated
  <2>3. CASE DeleteDialog BY <2>3, <1>a DEF DeleteDialog
  <2>4. CASE ReservationsInitialized BY <2>4, <1>a DEF ReservationsInitialized, Handle
  <2>5. CASE ReservationsAdded
    <3>1. /\ applying # << >> /\ Head(applying).kind = "added"
          /\ reference' = Head(applying).items /\ UNCHANGED <<newest, storage>>
      BY <2>5 DEF ReservationsAdded, Handle
    <3>. QED
      BY <1>1, <1>b, <3>1
  <2>6. CASE ReservationsUpdated
    <3>1. /\ applying # << >> /\ Head(applying).kind = "updated"
          /\ newest' = Head(applying).items /\ UNCHANGED <<reference, storage>>
      BY <2>6 DEF ReservationsUpdated, Handle
    <3>. QED
      BY <1>1, <1>b, <3>1
  <2>7. CASE ReservationsRemoved BY <2>7, <1>a DEF ReservationsRemoved, Handle
  <2>8. CASE ApplyChanges BY <2>8, <1>a DEF ApplyChanges
  <2>. QED
    BY <1>3, <2>1, <2>2, <2>3, <2>4, <2>5, <2>6, <2>7, <2>8 DEF MainThread
<1>4. CASE Backend
  <2>1. CASE StartStream BY <2>1, <1>a DEF StartStream
  <2>2. CASE ExecuteSave BY <2>2, <1>a DEF ExecuteSave
  <2>3. CASE DeliverChange BY <2>3, <1>a DEF DeliverChange
  <2>4. CASE DeliverResult BY <2>4, <1>a DEF DeliverResult
  <2>5. CASE AddChanges BY <2>5, <1>a DEF AddChanges
  <2>. QED
    BY <1>4, <2>1, <2>2, <2>3, <2>4, <2>5 DEF Backend
<1>5. CASE ExecuteOther
  BY <1>5, <1>a DEF ExecuteOther
<1>6. CASE Terminated \/ UNCHANGED vars
  BY <1>6, <1>a DEF Terminated, vars
<1>. QED
  BY <1>2, <1>3, <1>4, <1>5, <1>6 DEF Next

\* ... and those the saves were made of, with what the user has set, ...
LEMMA NextSavesKnown ==
  ASSUME QueueTypes, DialogTypes, FormTypes, OneSave, UiInv, FormInv, VersionsKnown, [Next]_vars
  PROVE  (\A i \in DOMAIN requests : SavesKnown(requests[i]))'
<1>. USE DEF integratorVars, queueVars, backendVars, versionVars, formVars, taskVars
<1>. DEFINE SetIn(fields, shown, set) == \A n \in FieldNames : fields[n] # Shown(shown)[n] => n \in set
            Asks(r, db, over, set) ==
              \E base \in Version : /\ Known(db, base) /\ r.revision = base.revision
                                    /\ over \/ SetIn(r.fields, base.fields, set)
            Goal == \A i \in DOMAIN requests' : Asks(requests'[i], storage', overtaken', edited')
<1>1. requests \in Seq(Version) /\ \A i \in DOMAIN requests : Asks(requests[i], storage, overtaken, edited)
  BY DEF VersionsKnown, SavesKnown, SetByUser, DialogTypes
<1>. SUFFICES Goal
  BY DEF SavesKnown, SetByUser, Known, Shown
<1>2. \A v \in Version : Known(storage, v) => Known(storage', v)
  BY StillKnown
<1>3. ASSUME edited \subseteq edited', overtaken => overtaken', NEW r, Asks(r, storage, overtaken, edited)
      PROVE  Asks(r, storage', overtaken', edited')
  BY <1>2, <1>3
<1>. HIDE DEF Asks
<1>a. ASSUME UNCHANGED requests, edited \subseteq edited', overtaken => overtaken' PROVE Goal
  BY <1>1, <1>3, <1>a
<1>4. CASE User
  <2>1. CASE UserEdits BY <2>1, <1>a DEF UserEdits
  <2>2. CASE UserCloses BY <2>2, <1>a DEF UserCloses
  <2>3. CASE SaveClicked
    <3>1. reference # {} /\ form \in Fields /\ dialogPc = "idle" /\ reference \in Versions
      BY <2>3 DEF SaveClicked, Usable, UiInv, FormTypes, DialogTypes
    <3>2. requests' = Append(requests, [The(reference) EXCEPT !.fields = form]) /\ UNCHANGED <<edited, overtaken, storage>>
      BY <2>3 DEF SaveClicked
    <3>3. PICK base \in Version : base = The(reference) /\ base \in reference
      BY <3>1, TheVersion
    <3>. DEFINE r == [base EXCEPT !.fields = form]
    <3>4. r \in Version /\ r.revision = base.revision /\ r.fields = form
      BY <3>1 DEF Version, Item
    <3>5. Known(storage, base)
      BY <3>3 DEF VersionsKnown
    <3>6. overtaken \/ SetIn(form, base.fields, edited)
      BY <3>1, <3>3 DEF FormInv, FormFollowsReference, EditsReferenceVersion
    <3>. HIDE DEF r
    <3>7. Asks(r, storage, overtaken, edited)
      BY <3>4, <3>5, <3>6 DEF Asks
    <3>8. requests' = Append(requests, r)
      BY <3>2, <3>3 DEF r
    <3>9. /\ DOMAIN requests' = DOMAIN requests \cup {Len(requests) + 1}
          /\ \A i \in DOMAIN requests : requests'[i] = requests[i]
          /\ requests'[Len(requests) + 1] = r
      BY <1>1, <3>4, <3>8, Pushed
    <3>. QED
      BY <1>1, <3>2, <3>7, <3>9
  <2>4. CASE MergeChangesClicked BY <2>4, <1>a DEF MergeChangesClicked
  <2>5. ASSUME NEW version \in {"base", "ours", "theirs"}, UserChooses(version) PROVE Goal
    <3>1. dialogPc = "asking" /\ UNCHANGED requests
      BY <2>5 DEF UserChooses
    <3>2. requests = << >>
      BY <3>1, Places DEF OneSave
    <3>. QED
      BY <3>1, <3>2
  <2>. QED
    BY <1>4, <2>1, <2>2, <2>3, <2>4, <2>5 DEF User
<1>5. CASE MainThread
  <2>1. CASE ThenSaveTaskUpdated BY <2>1, <1>a DEF ThenSaveTaskUpdated
  <2>2. CASE RunSaveTaskUpdated BY <2>2, <1>a DEF RunSaveTaskUpdated
  <2>3. CASE DeleteDialog BY <2>3, <1>a DEF DeleteDialog
  <2>4. CASE ReservationsInitialized BY <2>4, <1>a DEF ReservationsInitialized, Handle
  <2>5. CASE ReservationsAdded BY <2>5, <1>a DEF ReservationsAdded, Handle
  <2>6. CASE ReservationsUpdated BY <2>6, <1>a DEF ReservationsUpdated, Handle
  <2>7. CASE ReservationsRemoved BY <2>7, <1>a DEF ReservationsRemoved, Handle
  <2>8. CASE ApplyChanges BY <2>8, <1>a DEF ApplyChanges
  <2>. QED
    BY <1>5, <2>1, <2>2, <2>3, <2>4, <2>5, <2>6, <2>7, <2>8 DEF MainThread
<1>6. CASE Backend
  <2>1. CASE StartStream BY <2>1, <1>a DEF StartStream
  <2>2. CASE ExecuteSave
    <3>1. requests # << >> /\ requests' = Tail(requests) /\ UNCHANGED <<edited, overtaken>>
      BY <2>2 DEF ExecuteSave
    <3>2. \A i \in DOMAIN requests' : i + 1 \in DOMAIN requests /\ requests'[i] = requests[i + 1]
      BY <1>1, <3>1, Popped
    <3>. QED
      BY <1>1, <1>3, <3>1, <3>2
  <2>3. CASE DeliverChange BY <2>3, <1>a DEF DeliverChange
  <2>4. CASE DeliverResult BY <2>4, <1>a DEF DeliverResult
  <2>5. CASE AddChanges BY <2>5, <1>a DEF AddChanges
  <2>. QED
    BY <1>6, <2>1, <2>2, <2>3, <2>4, <2>5 DEF Backend
<1>7. CASE ExecuteOther
  BY <1>7, <1>a DEF ExecuteOther
<1>8. CASE Terminated \/ UNCHANGED vars
  BY <1>8, <1>a DEF Terminated, vars
<1>. QED
  BY <1>4, <1>5, <1>6, <1>7, <1>8 DEF Next

\* ... so that every step keeps every version known.
LEMMA NextVersionsKnown ==
  ASSUME QueueTypes, DialogTypes, FormTypes, OneSave, UiInv, FormInv, VersionsKnown, [Next]_vars
  PROVE  VersionsKnown'
<1>1. /\ KnownIn(storage, applying)' <=> KnownIn(storage', applying')
      /\ KnownIn(storage, changeList)' <=> KnownIn(storage', changeList')
      /\ KnownIn(storage, outbox)' <=> KnownIn(storage', outbox')
      /\ (\A v \in reference \cup newest : Known(storage, v))' <=> \A v \in reference' \cup newest' : Known(storage', v)
  BY DEF KnownIn, TellsKnown, Known
<1>. QED
  BY <1>1, NextQueuesKnown, NextReferencesKnown, NextSavesKnown DEF VersionsKnown

-----------------------------------------------------------------------------
(* What the dialog offers *)

\* A stream that follows the storage has done so, or starts.
LEMMA FollowedBefore ==
  ASSUME [Next]_vars, stream' = "following"
  PROVE  stream = "following" \/ (Starts /\ UNCHANGED reference)
<1>. USE DEF backendVars
<1>1. CASE User
  BY <1>1 DEF User, UserEdits, UserCloses, SaveClicked, MergeChangesClicked, UserChooses
<1>2. CASE MainThread
  BY <1>2 DEF MainThread, ThenSaveTaskUpdated, ApplyChanges, RunSaveTaskUpdated, DeleteDialog, ReservationsInitialized,
              ReservationsAdded, ReservationsUpdated, ReservationsRemoved, Handle
<1>3. CASE StartStream
  BY <1>3 DEF StartStream, Starts, integratorVars, versionVars
<1>4. CASE ExecuteSave \/ DeliverChange \/ DeliverResult \/ AddChanges \/ ExecuteOther \/ Terminated \/ UNCHANGED vars
  BY <1>4 DEF ExecuteSave, DeliverChange, DeliverResult, AddChanges, ExecuteOther, Terminated, vars
<1>. QED
  BY <1>1, <1>2, <1>3, <1>4 DEF Next, Backend

\* What is lost stays lost.
LEMMA LostStays ==
  ASSUME QueueTypes, DialogTypes, MainThreadPlaces, StreamBegins, OneSave, UiInv, [Next]_vars,
         stream = "following", stream' = "following", Lost
  PROVE  Lost'
<1>. USE DEF integratorVars, queueVars, backendVars, versionVars, formVars, taskVars
<1>1. status = "Removed" => ~Under("added")
  BY DEF StreamBegins, DialogBegins
<1>2. Lost' <=> \/ Under("removed")' \/ Under("cleared")'
                \/ status' = "Removed"
                \/ reference' = {} /\ ~Under("added")'
  BY DEF Lost
<1>a. ASSUME \/ QueuesStay /\ UNCHANGED storage
             \/ Delivers /\ UNCHANGED storage
             \/ Answers /\ UNCHANGED storage
             \/ Swaps /\ UNCHANGED storage
             \/ Handles /\ Head(applying).kind \notin {"removed", "cleared"} /\ UNCHANGED storage,
             status = "Removed" => status' = "Removed" \/ reference' = {},
             reference = {} /\ ~Under("added") => reference' = {} \/ status' = "Removed"
      PROVE  Lost'
  <2>1. Under("added")' => Under("added")
    BY <1>a, UnderMoves DEF Moves
  <2>2. \A kind \in {"removed", "cleared"} : Under(kind) => Under(kind)'
    BY <1>a, UnderStays
  <2>. QED
    BY <1>1, <1>2, <1>a, <2>1, <2>2 DEF Lost
<1>3. CASE User
  <2>1. CASE UserEdits BY <2>1, <1>a DEF UserEdits, QueuesStay
  <2>2. CASE UserCloses BY <2>2, <1>a DEF UserCloses, QueuesStay
  <2>3. CASE SaveClicked BY <2>3, <1>a DEF SaveClicked, Usable, UiInv, QueuesStay
  <2>4. CASE MergeChangesClicked
    <3>1. reference # {} /\ UNCHANGED status /\ QueuesStay /\ UNCHANGED storage
      BY <2>4 DEF MergeChangesClicked, FinishMerge, UiInv, QueuesStay
    <3>. QED
      BY <1>a, <3>1
  <2>5. ASSUME NEW version \in {"base", "ours", "theirs"}, UserChooses(version) PROVE Lost'
    <3>1. UNCHANGED status /\ QueuesStay /\ UNCHANGED storage /\ (reference = {} => status = "Removed")
      BY <2>5 DEF UserChooses, FinishMerge, UiInv, QueuesStay
    <3>. QED
      BY <1>a, <3>1
  <2>. QED
    BY <1>3, <2>1, <2>2, <2>3, <2>4, <2>5 DEF User
<1>4. CASE MainThread
  <2>1. CASE ThenSaveTaskUpdated
    <3>1. status = "Saving" /\ UNCHANGED reference /\ QueuesStay /\ UNCHANGED storage
      BY <2>1 DEF ThenSaveTaskUpdated, MainThreadPlaces, QueuesStay
    <3>. QED
      BY <1>a, <3>1
  <2>2. CASE RunSaveTaskUpdated
    <3>1. UNCHANGED reference /\ QueuesStay /\ UNCHANGED storage
      BY <2>2 DEF RunSaveTaskUpdated, QueuesStay
    <3>2. Has(events, "result")
      BY <2>2, EventPopped DEF RunSaveTaskUpdated
    <3>3. status = "Removed" => reference = {}
      BY <3>2, Places DEF OneSave
    <3>. QED
      BY <1>a, <3>1, <3>3
  <2>3. CASE DeleteDialog BY <2>3 DEF DeleteDialog
  <2>4. CASE ReservationsInitialized
    <3>1. /\ Handles /\ Head(applying).kind = "initialized" /\ applying # << >>
          /\ UNCHANGED reference /\ UNCHANGED storage
      BY <2>4 DEF ReservationsInitialized, Handle, Handles
    <3>2. status = "Removed" => reference = {}
      BY <3>1, AddedFirst DEF StreamBegins, DialogBegins
    <3>. QED
      BY <1>a, <3>1, <3>2
  <2>5. CASE ReservationsAdded
    <3>1. Handles /\ Head(applying).kind = "added" /\ applying # << >> /\ UNCHANGED status /\ UNCHANGED storage
      BY <2>5 DEF ReservationsAdded, Handle, Handles
    <3>2. Under("added")
      BY <3>1, AddedFirst DEF StreamBegins
    <3>. QED
      BY <1>a, <3>1, <3>2
  <2>6. CASE ReservationsUpdated BY <2>6, <1>a DEF ReservationsUpdated, Handle, Handles
  <2>7. CASE ReservationsRemoved BY <1>2, <2>7 DEF ReservationsRemoved
  <2>8. CASE ApplyChanges
    BY <2>8, <1>a DEF ApplyChanges, HandleAvailableResults, ApplyStreamChanges, QueuesStay, Swaps
  <2>. QED
    BY <1>4, <2>1, <2>2, <2>3, <2>4, <2>5, <2>6, <2>7, <2>8 DEF MainThread
<1>b. ASSUME NEW told, NEW results, Tells(told, results), UNCHANGED <<status, reference>> PROVE Lost'
  <2>1. UNCHANGED <<applying, changeList>>
    BY <1>b DEF Tells
  <2>2. \A kind \in {"removed", "cleared"} : Under(kind) => Under(kind)'
    BY <1>b, <2>1, OutboxAfter DEF Under
  <2>3. \A m : told = <<m>> => m.kind # "added"
    BY <1>b, ToldKinds
  <2>4. Has(outbox', "added") <=> Has(outbox, "added")
    BY <1>b, <2>3, OutboxAfter
  <2>5. Under("added")' => Under("added")
    BY <2>1, <2>4 DEF Under
  <2>. QED
    BY <1>2, <1>b, <2>2, <2>5 DEF Lost
<1>5. CASE Backend
  <2>1. CASE StartStream BY <2>1 DEF StartStream
  <2>2. CASE ExecuteSave BY <2>2, <1>b, Executing DEF ExecuteSave
  <2>3. CASE DeliverChange
    BY <2>3, <1>a, HeadOfOutbox DEF DeliverChange, AddStreamChange, Delivers
  <2>4. CASE DeliverResult
    BY <2>4, <1>a, HeadOfOutbox DEF DeliverResult, Answers
  <2>5. CASE AddChanges
    BY <2>5, <1>a DEF AddChanges, EmitResultsAvailable, PostResultsAvailable, QueuesStay
  <2>. QED
    BY <1>5, <2>1, <2>2, <2>3, <2>4, <2>5 DEF Backend
<1>6. CASE ExecuteOther
  BY <1>6, <1>b, Executing DEF ExecuteOther
<1>7. CASE Terminated \/ UNCHANGED vars
  BY <1>7, <1>a DEF Terminated, vars, QueuesStay
<1>. QED
  BY <1>3, <1>4, <1>5, <1>6, <1>7 DEF Next

\* From one queue to the next, what a message makes of what is shown does not change.
LEMMA ChainMoves ==
  ASSUME QueueTypes, MainThreadPlaces, NEW shows, NEW stored, Chain(shows, applying, changeList, outbox, stored),
         QueuesStay \/ Delivers \/ Answers \/ Swaps
  PROVE  Chain(shows, applying', changeList', outbox', stored)
<1>1. PICK first \in Versions, second \in Versions :
        Leaves(applying, shows, first) /\ Leaves(changeList, first, second) /\ Leaves(outbox, second, stored)
  BY DEF Chain
<1>2. /\ applying \in Seq(Tidings) /\ changeList \in Seq(Tidings) /\ outbox \in Seq(Tidings \cup ResultMessage)
  BY DEF QueueTypes
<1>3. CASE QueuesStay
  BY <1>1, <1>3 DEF QueuesStay, Chain
<1>4. CASE Delivers
  <2>. DEFINE m == Head(outbox)
              next == IF IsNews(m) THEN NewsOf(m) ELSE second
  <2>1. /\ outbox # << >> /\ m \in Tidings /\ outbox' = Tail(outbox)
        /\ changeList' = Append(changeList, m) /\ applying' = applying
    BY <1>4 DEF Delivers
  <2>2. Leaves(outbox', next, stored)
    BY <1>1, <1>2, <2>1, LeavesPopped
  <2>3. Leaves(changeList', first, next)
    BY <1>1, <1>2, <2>1, LeavesPushed
  <2>4. next \in Versions
    BY <2>1, NewsType
  <2>. QED
    BY <1>1, <2>1, <2>2, <2>3, <2>4 DEF Chain
<1>5. CASE Answers
  <2>1. outbox # << >> /\ outbox' = Tail(outbox) /\ UNCHANGED <<applying, changeList>> /\ Head(outbox).kind = "result"
    BY <1>5 DEF Answers, ResultMessage
  <2>2. Leaves(outbox', second, stored)
    BY <1>1, <1>2, <2>1, LeavesPopped DEF IsNews
  <2>. QED
    BY <1>1, <2>1, <2>2 DEF Chain
<1>6. CASE Swaps
  <2>1. applying = << >> /\ applying' = changeList /\ changeList' = << >> /\ outbox' = outbox
    BY <1>6 DEF Swaps, MainThreadPlaces
  <2>2. first = shows
    BY <1>1, <2>1, LeavesNothing
  <2>3. Leaves(applying', shows, second) /\ Leaves(changeList', second, second) /\ Leaves(outbox', second, stored)
    BY <1>1, <2>1, <2>2, LeavesNothing
  <2>. QED
    BY <2>3 DEF Chain
<1>. QED
  BY <1>3, <1>4, <1>5, <1>6

\* The dialog was told the first change: what it shows then leads to what is stored.
LEMMA ChainHandles ==
  ASSUME QueueTypes, NEW shows, NEW stored, Chain(shows, applying, changeList, outbox, stored), Handles
  PROVE  Chain(IF IsNews(Head(applying)) THEN NewsOf(Head(applying)) ELSE shows, applying', changeList', outbox', stored)
<1>1. PICK first \in Versions, second \in Versions :
        Leaves(applying, shows, first) /\ Leaves(changeList, first, second) /\ Leaves(outbox, second, stored)
  BY DEF Chain
<1>2. applying \in Seq(Tidings) /\ applying # << >> /\ applying' = Tail(applying) /\ UNCHANGED <<changeList, outbox>>
  BY DEF QueueTypes, Handles
<1>3. Leaves(applying', IF IsNews(Head(applying)) THEN NewsOf(Head(applying)) ELSE shows, first)
  BY <1>1, <1>2, LeavesPopped
<1>. QED
  BY <1>1, <1>2, <1>3 DEF Chain

\* An operation: the stream is told of what is stored then, or that there is nothing any more.
LEMMA ChainTells ==
  ASSUME QueueTypes, DialogTypes, storage' \in Database, stream = "following", NEW told, NEW results, Tells(told, results),
         NEW shows, Chain(shows, applying, changeList, outbox, Loaded(storage, ById))
  PROVE  \/ Lost'
         \/ Chain(shows, applying', changeList', outbox', Loaded(storage', ById))
<1>. DEFINE M == Tidings \cup ResultMessage
            after == Loaded(storage', ById)
<1>1. PICK first \in Versions, second \in Versions :
        Leaves(applying, shows, first) /\ Leaves(changeList, first, second) /\ Leaves(outbox, second, Loaded(storage, ById))
  BY DEF Chain
<1>2. UNCHANGED <<applying, changeList>> /\ outbox \in Seq(M)
  BY DEF Tells, QueueTypes
<1>3. PICK more \in Seq(M) :
           /\ more = outbox \/ \E m \in Tidings : stream = "following" /\ told = <<m>> /\ more = Append(outbox, m)
           /\ told # << >> /\ stream = "following" => \E m \in Tidings : told = <<m>> /\ more = Append(outbox, m)
           /\ (outbox' = more /\ results = {}) \/ \E m \in ResultMessage : outbox' = Append(more, m) /\ results = {m}
  BY OutboxTold
<1>4. Tidings \subseteq M /\ \A m \in ResultMessage : m \in M /\ ~IsNews(m)
  BY DEF IsNews, ResultMessage
<1>. HIDE DEF M
<1>5. ASSUME Leaves(more, second, after) PROVE Chain(shows, applying', changeList', outbox', after)
  <2>1. CASE outbox' = more
    BY <1>1, <1>2, <1>5, <2>1 DEF Chain
  <2>2. ASSUME NEW m \in ResultMessage, outbox' = Append(more, m)
        PROVE  Chain(shows, applying', changeList', outbox', after)
    <3>1. m \in M /\ ~IsNews(m)
      BY <1>4
    <3>2. Leaves(outbox', second, after)
      BY <1>5, <2>2, <3>1, LeavesPushed
    <3>. QED
      BY <1>1, <1>2, <3>2 DEF Chain
  <2>. QED
    BY <1>3, <2>1, <2>2
<1>6. CASE told = << >> /\ storage' = storage
  <2>1. \A m : told # <<m>>
    BY <1>6
  <2>2. Leaves(more, second, after)
    BY <1>1, <1>3, <1>6, <2>1
  <2>. QED
    BY <1>5, <2>2
<1>7. ASSUME NEW w \in Version, told = <<Updated({w})>>, after = {w}
      PROVE  Chain(shows, applying', changeList', outbox', after)
  <2>1. PICK m \in Tidings : told = <<m>> /\ more = Append(outbox, m)
    BY <1>3, <1>7
  <2>2. m = Updated({w})
    <3>1. told[1] = m /\ told[1] = Updated({w})
      BY <1>7, <2>1
    <3>. QED
      BY <3>1
  <2>3. IsNews(m) /\ NewsOf(m) = {w}
    BY <2>2 DEF IsNews, NewsOf, Updated
  <2>4. Leaves(more, second, after)
    BY <1>2, <1>4, <1>7, <2>1, <2>3, LeavesPushed
  <2>. QED
    BY <1>5, <2>4
<1>8. CASE told = <<Removed({1})>> \/ told = <<Cleared>>
  <2>1. PICK kind \in {"removed", "cleared"} : \E m \in Tidings : told = <<m>> /\ m.kind = kind
    <3>1. Removed({1}) \in Tidings /\ Removed({1}).kind = "removed" /\ Cleared \in Tidings /\ Cleared.kind = "cleared"
      BY DEF Tidings, Removed, Cleared
    <3>. QED
      BY <1>8, <3>1
  <2>2. Has(outbox', kind)
    BY <2>1, OutboxAfter
  <2>3. Under("removed")' \/ Under("cleared")'
    BY <2>1, <2>2 DEF Under
  <2>. QED
    BY <2>3 DEF Lost
<1>. QED
  BY <1>6, <1>7, <1>8 DEF Tells, Becomes

\* A stream that starts leads from nothing to what is stored.
LEMMA ChainStarts ==
  ASSUME QueueTypes, DialogTypes, StreamBegins, Starts
  PROVE  Chain({}, applying', changeList', outbox', Loaded(storage, ById))
<1>. DEFINE M == Tidings \cup ResultMessage
            items == Loaded(storage, ById)
<1>1. applying' = << >> /\ changeList' = << >> /\ outbox = << >> /\ outbox \in Seq(M) /\ {} \in Versions
  BY DEF Starts, StreamBegins, QueuesBegin, QueueTypes, Versions
<1>2. PICK more \in Seq(M) :
           /\ outbox' = Append(more, Initialized)
           /\ \/ more = outbox /\ items = {}
              \/ Added(items) \in Tidings /\ more = Append(outbox, Added(items))
  BY OutboxStarted DEF DialogTypes
<1>3. /\ Tidings \subseteq M /\ Initialized \in M /\ ~IsNews(Initialized)
      /\ IsNews(Added(items)) /\ NewsOf(Added(items)) = items
  BY DEF Initialized, Tidings, IsNews, NewsOf, Added
<1>. HIDE DEF M, items
<1>4. Leaves(more, {}, items)
  <2>1. CASE more = outbox /\ items = {}
    BY <1>1, <2>1, LeavesNothing
  <2>2. CASE Added(items) \in Tidings /\ more = Append(outbox, Added(items))
    <3>1. Added(items) \in M
      BY <1>3, <2>2
    <3>. QED
      BY <1>1, <1>3, <2>2, <3>1, LeavesPushed
  <2>. QED
    BY <1>2, <2>1, <2>2
<1>5. Leaves(outbox', {}, items)
  BY <1>2, <1>3, <1>4, LeavesPushed
<1>6. Leaves(applying', {}, {}) /\ Leaves(changeList', {}, {})
  BY <1>1, LeavesNothing
<1>. QED
  BY <1>1, <1>5, <1>6 DEF Chain, items

\* A step keeps what the dialog shows in line with what is stored, over what waits in the queues.
LEMMA NextShowsNewest ==
  ASSUME QueueTypes, DialogTypes, MainThreadPlaces, StreamBegins, OneSave, UiInv, ShowsNewest, [Next]_vars
  PROVE  ShowsNewest'
<1>. USE DEF integratorVars, queueVars, backendVars, versionVars, formVars, taskVars
<1>. DEFINE Leads(shows) == Chain(shows, applying', changeList', outbox', Loaded(storage', ById))
<1>1. ShowsNewest' <=> (stream' = "following" => Lost' \/ Leads(Shows'))
  BY DEF ShowsNewest
<1>. SUFFICES ASSUME stream' = "following" PROVE Lost' \/ Leads(Shows')
  BY <1>1
<1>2. CASE Starts /\ UNCHANGED reference
  <2>1. reference = {} /\ reference' = reference
    BY <1>2 DEF Starts, StreamBegins, DialogBegins
  <2>2. Shows' = {} /\ storage' = storage
    BY <1>2, <2>1 DEF Starts, Shows
  <2>3. Leads({})
    BY <1>2, <2>2, ChainStarts
  <2>. HIDE DEF Leads
  <2>. QED
    BY <2>2, <2>3
<1>3. CASE stream = "following" /\ Lost
  BY <1>3, LostStays
<1>4. CASE stream = "following" /\ ~Lost
  <2>1. Chain(Shows, applying, changeList, outbox, Loaded(storage, ById))
    BY <1>4 DEF ShowsNewest
  <2>2. status # "Removed" /\ (reference = {} => Under("added"))
    BY <1>4 DEF Lost
  <2>. HIDE DEF Leads
  <2>a. ASSUME QueuesStay \/ Delivers \/ Answers \/ Swaps, UNCHANGED storage, Shows' = Shows PROVE Lost' \/ Leads(Shows')
    <3>1. Leads(Shows)
      BY <2>1, <2>a, ChainMoves DEF Leads
    <3>. QED
      BY <2>a, <3>1
  <2>b. ASSUME Handles, UNCHANGED storage, Shows' = IF IsNews(Head(applying)) THEN NewsOf(Head(applying)) ELSE Shows
        PROVE  Lost' \/ Leads(Shows')
    <3>1. Leads(IF IsNews(Head(applying)) THEN NewsOf(Head(applying)) ELSE Shows)
      BY <2>1, <2>b, ChainHandles DEF Leads
    <3>. QED
      BY <2>b, <3>1
  <2>c. ASSUME NEW told, NEW results, Tells(told, results), storage' \in Database, Shows' = Shows PROVE Lost' \/ Leads(Shows')
    <3>1. Lost' \/ Leads(Shows)
      BY <1>4, <2>1, <2>c, ChainTells DEF Leads
    <3>. QED
      BY <2>c, <3>1
  <2>d. ASSUME UNCHANGED <<reference, newest>>, status' # "Removed" PROVE Shows' = Shows
    BY <2>2, <2>d DEF Shows
  <2>3. CASE User
    <3>1. CASE UserEdits BY <3>1, <2>2, <2>a, <2>d DEF UserEdits, QueuesStay
    <3>2. CASE UserCloses BY <3>2, <2>2, <2>a, <2>d DEF UserCloses, QueuesStay
    <3>3. CASE SaveClicked BY <3>3, <2>a, <2>d DEF SaveClicked, QueuesStay
    <3>b. ASSUME reference # {}, newest # {}, UNCHANGED status, reference' = newest, newest' = {} PROVE Shows' = Shows
      BY <2>2, <3>b DEF Shows
    <3>4. CASE MergeChangesClicked
      <4>1. reference # {} /\ newest # {} /\ QueuesStay /\ UNCHANGED storage
        BY <3>4 DEF MergeChangesClicked, UiInv, QueuesStay
      <4>2. UNCHANGED <<status, reference, newest>> \/ (UNCHANGED status /\ reference' = newest /\ newest' = {})
        BY <3>4 DEF MergeChangesClicked, FinishMerge
      <4>. QED
        BY <2>2, <2>a, <2>d, <3>b, <4>1, <4>2
    <3>5. ASSUME NEW version \in {"base", "ours", "theirs"}, UserChooses(version) PROVE Lost' \/ Leads(Shows')
      <4>1. reference # {} /\ newest # {} /\ QueuesStay /\ UNCHANGED storage
        BY <2>2, <3>5 DEF UserChooses, UiInv, QueuesStay
      <4>2. UNCHANGED <<status, reference, newest>> \/ (UNCHANGED status /\ reference' = newest /\ newest' = {})
        BY <3>5 DEF UserChooses, FinishMerge
      <4>. QED
        BY <2>2, <2>a, <2>d, <3>b, <4>1, <4>2
    <3>. QED
      BY <2>3, <3>1, <3>2, <3>3, <3>4, <3>5 DEF User
  <2>4. CASE MainThread
    <3>1. CASE ThenSaveTaskUpdated
      <4>1. status' # "Removed" /\ UNCHANGED <<reference, newest, storage>> /\ QueuesStay
        BY <3>1, <2>2 DEF ThenSaveTaskUpdated, SaveTaskUpdated, QueuesStay
      <4>. QED
        BY <2>a, <2>d, <4>1
    <3>2. CASE RunSaveTaskUpdated
      <4>1. status' # "Removed" /\ UNCHANGED <<reference, newest, storage>> /\ QueuesStay
        BY <3>2, <2>2 DEF RunSaveTaskUpdated, SaveTaskUpdated, QueuesStay
      <4>. QED
        BY <2>a, <2>d, <4>1
    <3>3. CASE DeleteDialog BY <3>3 DEF DeleteDialog
    <3>4. CASE ReservationsInitialized
      <4>1. Handles /\ ~IsNews(Head(applying)) /\ UNCHANGED <<storage, reference, newest>> /\ status' # "Removed"
        BY <3>4 DEF ReservationsInitialized, Handle, Handles, IsNews
      <4>. QED
        BY <2>b, <2>d, <4>1
    <3>5. CASE ReservationsAdded
      <4>1. Handles /\ Head(applying).kind = "added" /\ applying # << >> /\ UNCHANGED <<storage, status, newest>>
            /\ reference' = Head(applying).items
        BY <3>5 DEF ReservationsAdded, Handle, Handles
      <4>2. newest = {}
        BY <4>1, AddedFirst DEF StreamBegins, DialogBegins
      <4>3. IsNews(Head(applying)) /\ NewsOf(Head(applying)) = Head(applying).items
        BY <4>1 DEF IsNews, NewsOf
      <4>4. Shows' = Head(applying).items
        BY <2>2, <4>1, <4>2 DEF Shows
      <4>. QED
        BY <2>b, <4>1, <4>3, <4>4
    <3>6. CASE ReservationsUpdated
      <4>1. Handles /\ Head(applying).kind = "updated" /\ applying # << >> /\ UNCHANGED <<storage, status, reference>>
            /\ newest' = Head(applying).items
        BY <3>6 DEF ReservationsUpdated, Handle, Handles
      <4>2. reference # {}
        BY <2>2, <4>1, AddedFirst DEF StreamBegins
      <4>3. Head(applying).items # {}
        <5>1. Head(applying) \in Tidings
          BY <4>1, Popped DEF QueueTypes
        <5>. QED
          BY <4>1, <5>1, NewsType
      <4>4. IsNews(Head(applying)) /\ NewsOf(Head(applying)) = Head(applying).items
        BY <4>1 DEF IsNews, NewsOf
      <4>5. Shows' = Head(applying).items
        BY <2>2, <4>1, <4>2, <4>3 DEF Shows
      <4>. QED
        BY <2>b, <4>1, <4>4, <4>5
    <3>7. CASE ReservationsRemoved BY <3>7 DEF ReservationsRemoved, Lost
    <3>8. CASE ApplyChanges
      <4>1. UNCHANGED <<storage, status, reference, newest>> /\ (QueuesStay \/ Swaps)
        BY <3>8, <1>4 DEF ApplyChanges, HandleAvailableResults, ApplyStreamChanges, QueuesStay, Swaps
      <4>. QED
        BY <2>2, <2>a, <2>d, <4>1
    <3>. QED
      BY <2>4, <3>1, <3>2, <3>3, <3>4, <3>5, <3>6, <3>7, <3>8 DEF MainThread
  <2>5. CASE Backend
    <3>1. CASE StartStream BY <3>1, <1>4 DEF StartStream
    <3>2. CASE ExecuteSave
      <4>1. Shows' = Shows
        BY <3>2, <2>2, <2>d DEF ExecuteSave
      <4>. QED
        BY <3>2, <4>1, <2>c, Executing
    <3>3. CASE DeliverChange
      <4>1. Delivers /\ UNCHANGED <<storage, status, reference, newest>>
        BY <3>3, HeadOfOutbox DEF DeliverChange, AddStreamChange, Delivers
      <4>. QED
        BY <2>2, <2>a, <2>d, <4>1
    <3>4. CASE DeliverResult
      <4>1. Answers /\ UNCHANGED <<storage, status, reference, newest>>
        BY <3>4, HeadOfOutbox DEF DeliverResult, Answers
      <4>. QED
        BY <2>2, <2>a, <2>d, <4>1
    <3>5. CASE AddChanges
      <4>1. QueuesStay /\ UNCHANGED <<storage, status, reference, newest>>
        BY <3>5 DEF AddChanges, EmitResultsAvailable, PostResultsAvailable, QueuesStay
      <4>. QED
        BY <2>2, <2>a, <2>d, <4>1
    <3>. QED
      BY <2>5, <3>1, <3>2, <3>3, <3>4, <3>5 DEF Backend
  <2>6. CASE ExecuteOther
    <3>1. Shows' = Shows
      BY <2>6, <2>2, <2>d DEF ExecuteOther
    <3>. QED
      BY <2>6, <3>1, <2>c, Executing
  <2>7. CASE Terminated \/ UNCHANGED vars
    <3>1. QueuesStay /\ UNCHANGED <<storage, status, reference, newest>>
      BY <2>7 DEF Terminated, vars, QueuesStay
    <3>. QED
      BY <2>2, <2>a, <2>d, <3>1
  <2>. QED
    BY <2>3, <2>4, <2>5, <2>6, <2>7 DEF Next
<1>. QED
  BY <1>2, <1>3, <1>4, FollowedBefore

-----------------------------------------------------------------------------
(* The invariant, and what follows from it *)

\* A dialog which is opened for a stored reservation knows nothing yet.
LEMMA InitInv == Init => DialogInv
<1>. SUFFICES ASSUME Init PROVE DialogInv
  OBVIOUS
<1>1. /\ changeList = << >> /\ applying = << >> /\ events = << >> /\ eventScheduled = FALSE
      /\ adder = "idle" /\ integrator = "idle"
      /\ requests = << >> /\ outbox = << >> /\ stream = "opened"
      /\ status = "NotInitialized" /\ reference = {} /\ newest = {}
      /\ ui = [enabled |-> FALSE, save |-> FALSE, merge |-> FALSE]
      /\ form = EmptyForm /\ resolution = Resolved
      /\ dialogPc = "idle" /\ saveTask = "none" /\ visible = TRUE
      /\ edited = {} /\ overtaken = FALSE /\ saves = 0
  BY DEF Init, IntegratorInit
<1>2. storage \in Database
  <2>1. PICK part \in Part :
          storage = StoreNewItem(EmptyDatabase, [type |-> "Reservation", fields |-> Stored, parts |-> <<part>>])
    BY DEF Init
  <2>. DEFINE row == [revision |-> 1, fields |-> Stored, parts |-> <<part>>]
  <2>2. row \in Row
    BY EditReservationAssumption DEF Row
  <2>3. EmptyDatabase \in Database /\ "Reservation" \in Tables /\ EmptyDatabase["Reservation"] = << >>
    BY EmptySeq DEF EmptyDatabase, Database, Tables
  <2>4. storage = [EmptyDatabase EXCEPT !["Reservation"] = Append(@, row)]
    BY <2>1 DEF StoreNewItem
  <2>. HIDE DEF row
  <2>5. Append(EmptyDatabase["Reservation"], row) \in Seq(Row)
    BY <2>2, <2>3, EmptySeq, AppendProperties
  <2>. QED
    BY <2>3, <2>4, <2>5 DEF Database
<1>3. QueueTypes
  BY <1>1, EmptySeq DEF QueueTypes
<1>4. DialogTypes
  BY <1>1, <1>2, EmptySeq DEF DialogTypes, Versions
<1>5. FormTypes
  <2>1. EmptyForm \in Forms
    BY EditReservationAssumption DEF EmptyForm, Forms
  <2>2. DOMAIN resolution = {"merged", "ours", "theirs", "conflicts"} /\ resolution.conflicts = << >>
    BY <1>1 DEF Resolved
  <2>. QED
    BY <1>1, <2>1, <2>2 DEF FormTypes
<1>6. StreamBegins
  <2>1. \A kind : ~Under(kind) /\ AtMostOnce(kind)
    BY <1>1, NothingQueued DEF Under, AtMostOnce
  <2>. QED
    BY <1>1, <2>1, NothingQueued, NothingBegins DEF StreamBegins, QueuesBegin, DialogBegins
<1>7. OneSave
  <2>1. NoSave
    BY <1>1, NothingQueued, Places
  <2>. QED
    BY <1>1, <2>1, NothingQueued DEF OneSave
<1>8. FlagIsAnswered /\ NoChangeWaits /\ MainThreadPlaces /\ UiInv /\ FormInv
  BY <1>1 DEF FlagIsAnswered, NoChangeWaits, MainThreadPlaces, UiInv, FormInv, FormFollowsReference,
              EditsReferenceVersion, MergesNewest
<1>9. VersionsKnown /\ ShowsNewest
  BY <1>1, NothingKnown DEF VersionsKnown, ShowsNewest
<1>. QED
  BY <1>3, <1>4, <1>5, <1>6, <1>7, <1>8, <1>9 DEF DialogInv

\* Every step keeps all of the invariant.
LEMMA NextInv == DialogInv /\ [Next]_vars => DialogInv'
<1>. SUFFICES ASSUME DialogInv, [Next]_vars PROVE DialogInv'
  OBVIOUS
<1>1. /\ QueueTypes /\ DialogTypes /\ FormTypes /\ FlagIsAnswered /\ NoChangeWaits
      /\ StreamBegins /\ MainThreadPlaces /\ OneSave /\ UiInv /\ FormInv /\ VersionsKnown /\ ShowsNewest
  BY DEF DialogInv
<1>2. QueueTypes' /\ DialogTypes' /\ FormTypes'
  BY <1>1, NextQueueTypes, NextDialogTypes, NextFormTypes
<1>3. FlagIsAnswered' /\ NoChangeWaits'
  BY <1>1, NextWakeup DEF WakeupInv
<1>4. StreamBegins'
  BY <1>1, NextQueuesBegin, NextDialogBegins DEF StreamBegins
<1>5. MainThreadPlaces' /\ OneSave' /\ UiInv'
  BY <1>1, NextMainThreadPlaces, NextOneSave, NextUi
<1>6. FormInv' /\ VersionsKnown'
  BY <1>1, NextForm, NextVersionsKnown
<1>7. ShowsNewest'
  BY <1>1, NextShowsNewest
<1>. QED
  BY <1>2, <1>3, <1>4, <1>5, <1>6, <1>7 DEF DialogInv

\* The strengthening the theorems below are read from: what each variable can hold, where the
\* tidings of the stream and the one save are between the backend and the dialog, and how what the
\* dialog shows is led, over what waits in the queues, to what is stored.
THEOREM DialogInvariant == Spec => []DialogInv
<1>. QED
  BY InitInv, NextInv, PTL DEF Spec

\* Every variable of the dialog has its type: a version is one item or none, the form never holds a
\* number out of the range of its widget, and conflicts are kept just while they are asked about.
THEOREM DialogTypeCorrect == Spec => []TypeOK
<1>1. ASSUME DialogInv PROVE TypeOK
  <2>1. QueueTypes /\ DialogTypes /\ FormTypes
    BY <1>1 DEF DialogInv
  <2>2. \A version \in Versions : version \in SUBSET Item /\ Cardinality(version) <= 1
    <3>1. Cardinality({}) = 0
      BY FS_EmptySet
    <3>2. \A v : Cardinality({v}) = 1
      BY FS_Singleton
    <3>3. Version \subseteq Item
      BY DEF Version
    <3>. QED
      BY <3>1, <3>2, <3>3 DEF Versions
  <2>3. requests \in Seq(Item)
    BY <2>1, SeqMonotonic DEF DialogTypes, Version
  <2>. QED
    BY <2>1, <2>2, <2>3 DEF TypeOK, DialogTypes, FormTypes
<1>. QED
  BY <1>1, DialogInvariant, PTL

\* DataSourceChangeIntegrator posts one event for many changes, and the flag that says whether one is
\* under way is cleared before the changes are taken out: no change is left in the queue without a
\* wakeup, however the adding thread and the main thread interleave.
THEOREM NoWakeupIsLost == Spec => []NoChangeWaits
<1>1. DialogInv => NoChangeWaits
  BY DEF DialogInv
<1>. QED
  BY <1>1, DialogInvariant, PTL

\* reservationsAdded, saveClicked and mergeChangesClicked fill the form and set the reference version
\* together: unless a newer version came in while the user was asked, a field that differs from the
\* reference version is one the user has set.
THEOREM FormShowsReference == Spec => []FormFollowsReference
<1>1. DialogInv => FormFollowsReference
  BY DEF DialogInv, FormInv
<1>. QED
  BY <1>1, DialogInvariant, PTL

\* A save carries the revision of the version it was edited from, and the backend refuses it once
\* that is not the stored one: what a save changes, the user has set, and nothing that another client
\* has stored is taken back.
THEOREM SavesKeepOthersChanges == Spec => []SaveKeepsOthersChanges
<1>1. ASSUME DialogInv PROVE SaveKeepsOthersChanges
  <2>. SUFFICES ASSUME ~overtaken, NEW i \in DOMAIN requests, Matches(storage, requests[i])
                PROVE  \A f \in FieldNames :
                         requests[i].fields[f] # Shown(storage["Reservation"][1].fields)[f] => f \in edited
    BY DEF SaveKeepsOthersChanges
  <2>1. requests[i] \in Version
    BY <1>1, ElementOfSeq, LenProperties DEF DialogInv, DialogTypes
  <2>2. 1 \in DOMAIN storage["Reservation"] /\ storage["Reservation"][1].revision = requests[i].revision
    BY <2>1 DEF Matches, Version
  <2>3. PICK base \in Version : /\ Known(storage, base) /\ requests[i].revision = base.revision
                                /\ overtaken \/ SetByUser(requests[i].fields, base.fields)
    BY <1>1 DEF DialogInv, VersionsKnown, SavesKnown
  <2>4. base.fields = storage["Reservation"][1].fields
    BY <2>2, <2>3 DEF Known
  <2>. QED
    BY <2>3, <2>4 DEF SetByUser
<1>. QED
  BY <1>1, DialogInvariant, PTL

\* However reservationsUpdated, saveTaskUpdated and mergeChangesClicked have followed each other: once
\* nothing is under way any more, a dialog that can be used holds what is stored, to merge with or to
\* edit, so that its next save is not refused.
THEOREM DialogOffersNewest == Spec => []OffersNewestVersion
<1>1. ASSUME DialogInv PROVE OffersNewestVersion
  <2>. SUFFICES ASSUME Quiet, visible, ui.enabled, dialogPc = "idle"
                PROVE  (IF newest # {} THEN newest ELSE reference) = Loaded(storage, ById)
    BY DEF OffersNewestVersion
  <2>1. applying = << >> /\ changeList = << >> /\ outbox = << >> /\ stream = "following"
    BY DEF Quiet
  <2>2. reference # {} /\ status = "Ready"
    BY <1>1 DEF DialogInv, UiInv
  <2>3. ~Lost
    BY <2>1, <2>2, NothingQueued DEF Lost, Under
  <2>4. PICK first \in Versions, second \in Versions :
          Leaves(applying, Shows, first) /\ Leaves(changeList, first, second)
            /\ Leaves(outbox, second, Loaded(storage, ById))
    BY <1>1, <2>1, <2>3 DEF DialogInv, ShowsNewest, Chain
  <2>5. Shows = Loaded(storage, ById)
    BY <2>1, <2>4, LeavesNothing
  <2>. QED
    BY <2>2, <2>5 DEF Shows
<1>. QED
  BY <1>1, DialogInvariant, PTL
=============================================================================
