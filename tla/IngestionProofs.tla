--------------------------- MODULE IngestionProofs ---------------------------
(***************************************************************************)
(* Proofs about Ingestion, for any bodies and any number of concurrent     *)
(* handlers.  Rows that are inserted and not committed belong to one       *)
(* handler alone, since an INSERT of the same key waits; what a handler    *)
(* has still to insert is in todo; and the jobs of messages that others    *)
(* have committed were committed with them.  Handlers never all wait for   *)
(* each other without a deadlock.                                          *)
(***************************************************************************)
EXTENDS Ingestion, FiniteSetTheorems, WellFoundedInduction, TLAPS

USE IngestionAssumption

Messages(b) == ToSet(MessagesOf[b])
Statuses(b) == ToSet(StatusesOf[b])

\* The rows a transaction can see.
Have(h) == db \cup staged[h]

\* Uncommitted rows are of one handler.
Exclusive ==
    /\ \A g, h \in Handler : g # h => staged[g] \cap staged[h] = {}
    /\ \A h \in Handler : staged[h] \cap db = {}

\* Events are committed with all their rows, messages with their jobs.
Closed ==
    /\ \A b \in Body : Event(b) \in db => RowsOf(b) \subseteq db
    /\ \A m \in ExternalId : Message(m) \in db => Job(m) \in db

\* The transaction of h has inserted what todo does not name.
HasInserted(h) ==
    LET b == body[h] IN
    /\ pc[h] # "idle" => b \in Body
    /\ pc[h] \in {"idle", "connection", "event"} => staged[h] = {}
    /\ pc[h] \in {"messages", "jobs", "statuses"} =>
          Event(b) \in staged[h] /\ staged[h] \subseteq RowsOf(b)
    /\ pc[h] = "messages" =>
          /\ ToSet(todo[h]) \subseteq Messages(b)
          /\ \A m \in Messages(b) : Message(m) \in Have(h) \/ m \in ToSet(todo[h])
    /\ pc[h] = "jobs" =>
          /\ ToSet(todo[h]) \subseteq Messages(b)
          /\ \A m \in Messages(b) :
                /\ Message(m) \in Have(h)
                /\ Message(m) \in staged[h] => Job(m) \in Have(h) \/ m \in ToSet(todo[h])
    /\ pc[h] = "statuses" =>
          /\ ToSet(todo[h]) \subseteq Statuses(b)
          /\ \A m \in Messages(b) : Message(m) \in Have(h) /\ Job(m) \in Have(h)
          /\ \A f \in Statuses(b) : Status(f) \in Have(h) \/ f \in ToSet(todo[h])
    /\ pc[h] = "commit" =>
          \/ Event(b) \in db /\ staged[h] = {}
          \/ Event(b) \in staged[h] /\ staged[h] \subseteq RowsOf(b) /\ RowsOf(b) \subseteq Have(h)

Inv ==
    /\ TypeOK
    /\ Exclusive
    /\ Closed
    /\ \A h \in Handler : HasInserted(h)
    /\ AckedMeansIngested

----------------------------------------------------------------------------
(* Lemmas about sequences.                                                 *)

\* Kept has the elements at the positions it is given, and no others: the
\* positions, counted, are numbered from 1 without a gap.
LEMMA KeptFacts ==
    ASSUME NEW S, NEW s \in Seq(S), NEW I \in SUBSET DOMAIN s
    PROVE  /\ Kept(s, I) \in Seq(S)
           /\ ToSet(Kept(s, I)) = {s[i] : i \in I}
<1> DEFINE upTo(i) == {j \in I : j <= i}
           n == Cardinality(I)
           rank == [i \in I |-> Cardinality(upTo(i))]
<1>1. Len(s) \in Nat /\ DOMAIN s = 1..Len(s) /\ I \subseteq 1..Len(s) /\ I \subseteq Nat
    OBVIOUS
<1>2. IsFiniteSet(I) /\ n \in Nat
    <2>1. IsFiniteSet(1..Len(s))
        BY <1>1, FS_Interval
    <2> QED
        BY <1>1, <2>1, FS_Subset, FS_CardinalityType
<1>3. ASSUME NEW i \in I
      PROVE  IsFiniteSet(upTo(i)) /\ rank[i] = Cardinality(upTo(i)) /\ rank[i] \in 1..n
    <2>1. IsFiniteSet(upTo(i)) /\ Cardinality(upTo(i)) <= n /\ Cardinality(upTo(i)) \in Nat
        BY <1>2, FS_Subset, FS_CardinalityType
    <2>2. i \in upTo(i)
        BY <1>1
    <2>3. Cardinality(upTo(i)) # 0
        BY <2>1, <2>2, FS_EmptySet
    <2> HIDE DEF n, upTo
    <2> QED
        BY <1>2, <2>1, <2>3
<1>4. ASSUME NEW i \in I, NEW k \in I, i < k
      PROVE  rank[i] # rank[k]
    <2>1. upTo(i) \subseteq upTo(k) /\ k \in upTo(k) /\ k \notin upTo(i)
        BY <1>1, <1>4
    <2> QED
        BY <1>3, <2>1, FS_Subset
<1>5. rank \in Injection(I, 1..n)
    <2>1. ASSUME NEW i \in I, NEW k \in I, rank[i] = rank[k]
          PROVE  i = k
        <3>1. i \in Nat /\ k \in Nat
            BY <1>1
        <3>2. ~(i < k) /\ ~(k < i)
            BY <1>4, <2>1
        <3> HIDE DEF rank
        <3> QED
            BY <3>1, <3>2
    <2> QED
        BY <1>3, <2>1 DEF Injection, IsInjective
<1>6. rank \in Surjection(I, 1..n)
    <2>1. IsFiniteSet(1..n) /\ Cardinality(1..n) = n
        <3>1. 1 \in Int /\ n \in Int /\ (1 > n <=> n = 0) /\ n - 1 + 1 = n
            BY <1>2
        <3> QED
            BY <3>1, FS_Interval
    <2> QED
        BY <1>2, <1>5, <2>1, FS_Injection
<1> DEFINE at(k) == CHOOSE i \in I : Cardinality({j \in I : j <= i}) = k
<1>7. \A k \in 1..n : at(k) \in I /\ rank[at(k)] = k
    <2> TAKE k \in 1..n
    <2>1. PICK i \in I : rank[i] = k
        BY <1>6 DEF Surjection
    <2>2. Cardinality({j \in I : j <= i}) = k
        BY <2>1
    <2> QED
        BY <2>2
<1>8. \A i \in I : at(rank[i]) = i
    BY <1>3, <1>5, <1>7 DEF Injection, IsInjective
<1> HIDE DEF at, rank
<1>9. Kept(s, I) = [k \in 1..n |-> s[at(k)]]
    BY DEF Kept, at
<1> HIDE DEF n
<1>10. Kept(s, I) \in Seq(S)
    <2>1. \A k \in 1..n : s[at(k)] \in S
        BY <1>1, <1>7
    <2> QED
        BY <1>2, <1>9, <2>1
<1>11. ToSet(Kept(s, I)) = {s[at(k)] : k \in 1..n}
    BY <1>9 DEF ToSet
<1>12. {s[at(k)] : k \in 1..n} = {s[i] : i \in I}
    BY <1>3, <1>7, <1>8
<1> QED
    BY <1>10, <1>11, <1>12

\* The first occurrences of a sequence are all its elements.
LEMMA FirstFacts ==
    ASSUME NEW S, NEW s \in Seq(S)
    PROVE  /\ First(s) \subseteq DOMAIN s
           /\ {s[i] : i \in First(s)} = ToSet(s)
           /\ FirstOccurrences(s) \in Seq(S) /\ ToSet(FirstOccurrences(s)) = ToSet(s)
<1>1. First(s) \subseteq DOMAIN s
    BY DEF First
<1>2. ASSUME NEW k \in DOMAIN s PROVE \E i \in First(s) : s[i] = s[k]
    <2> DEFINE same == {i \in DOMAIN s : s[i] = s[k]}
    <2>1. DOMAIN s \subseteq Nat /\ DOMAIN s = 1..Len(s) /\ Len(s) \in Nat
        OBVIOUS
    <2>2. same \subseteq Nat /\ k \in same
        BY <2>1
    <2>3. PICK i \in same : \A j \in same : ~(<<j, i>> \in OpToRel(<, Nat))
        BY <2>2, NatLessThanWellFounded, WFMin
    <2>4. ASSUME NEW j \in same PROVE ~(j < i)
        <3>1. j \in Nat /\ i \in Nat
            BY <2>2
        <3>2. <<j, i>> \notin OpToRel(<, Nat)
            BY <2>3
        <3> QED
            BY <3>1, <3>2 DEF OpToRel
    <2>5. i \in DOMAIN s /\ s[i] = s[k]
        OBVIOUS
    <2>6. \A j \in 1..(i - 1) : j \in DOMAIN s /\ j < i
        BY <2>1, <2>5
    <2> QED
        BY <2>4, <2>5, <2>6 DEF First
<1>3. {s[i] : i \in First(s)} = ToSet(s)
    BY <1>1, <1>2 DEF ToSet
<1> QED
    BY <1>1, <1>3, KeptFacts DEF FirstOccurrences

LEMMA HeadAndTail ==
    ASSUME NEW S, NEW s \in Seq(S), s # <<>>
    PROVE  /\ Tail(s) \in Seq(S) /\ Head(s) \in ToSet(s)
           /\ ToSet(s) = {Head(s)} \cup ToSet(Tail(s))
<1>1. /\ Len(s) \in Nat \ {0} /\ DOMAIN s = 1..Len(s) /\ Head(s) = s[1]
      /\ Tail(s) \in Seq(S) /\ Len(Tail(s)) = Len(s) - 1 /\ DOMAIN Tail(s) = 1..(Len(s) - 1)
      /\ \A i \in 1..(Len(s) - 1) : Tail(s)[i] = s[i + 1]
    OBVIOUS
<1>2. ASSUME NEW i \in 1..Len(s), i # 1 PROVE s[i] \in ToSet(Tail(s))
    <2>1. i - 1 \in DOMAIN Tail(s) /\ Tail(s)[i - 1] = s[i]
        BY <1>1, <1>2
    <2> QED
        BY <2>1 DEF ToSet
<1>3. \A i \in DOMAIN Tail(s) : Tail(s)[i] \in ToSet(s)
    <2>1. \A i \in 1..(Len(s) - 1) : i + 1 \in DOMAIN s
        BY <1>1
    <2> QED
        BY <1>1, <2>1 DEF ToSet
<1>4. 1 \in DOMAIN s
    BY <1>1
<1>5. Head(s) \in ToSet(s)
    BY <1>1, <1>4 DEF ToSet
<1>6. ToSet(Tail(s)) \subseteq ToSet(s)
    BY <1>3 DEF ToSet
<1>7. ToSet(s) \subseteq {Head(s)} \cup ToSet(Tail(s))
    <2>1. ASSUME NEW i \in 1..Len(s) PROVE s[i] \in {Head(s)} \cup ToSet(Tail(s))
        BY <1>1, <1>2
    <2>2. ASSUME NEW x \in ToSet(s) PROVE \E i \in 1..Len(s) : x = s[i]
        BY ONLY <1>1, <2>2 DEF ToSet
    <2> QED
        BY ONLY <2>1, <2>2
<1> QED
    BY <1>1, <1>5, <1>6, <1>7

LEMMA NoElements == ToSet(<<>>) = {}
BY DEF ToSet

LEMMA RowFacts ==
    /\ \A b \in Body, c \in Body : Event(c) \in RowsOf(b) <=> c = b
    /\ \A b \in Body, m \in ExternalId :
          /\ Message(m) \in RowsOf(b) <=> m \in Messages(b)
          /\ Job(m) \in RowsOf(b) <=> m \in Messages(b)
    /\ \A b \in Body, f \in Fingerprint : Status(f) \in RowsOf(b) <=> f \in Statuses(b)
    /\ \A b \in Body : /\ RowsOf(b) \subseteq Row
                       /\ Messages(b) \subseteq ExternalId
                       /\ Statuses(b) \subseteq Fingerprint
<1>1. \A b \in Body, c \in Body : Event(c) \in RowsOf(b) <=> c = b
    BY DEF RowsOf, Event, Message, Job, Status
<1>2. \A b \in Body, m \in ExternalId :
          /\ Message(m) \in RowsOf(b) <=> m \in Messages(b)
          /\ Job(m) \in RowsOf(b) <=> m \in Messages(b)
    BY DEF RowsOf, Event, Message, Job, Status, Messages
<1>3. \A b \in Body, f \in Fingerprint : Status(f) \in RowsOf(b) <=> f \in Statuses(b)
    BY DEF RowsOf, Event, Message, Job, Status, Statuses
<1>4. \A b \in Body : RowsOf(b) \subseteq Row
    BY DEF Row
<1>5. \A b \in Body : Messages(b) \subseteq ExternalId /\ Statuses(b) \subseteq Fingerprint
    <2> TAKE b \in Body
    <2>1. MessagesOf[b] \in Seq(ExternalId) /\ StatusesOf[b] \in Seq(Fingerprint)
        OBVIOUS
    <2> QED
        BY <2>1 DEF Messages, Statuses, ToSet
<1> QED
    BY <1>1, <1>2, <1>3, <1>4, <1>5

----------------------------------------------------------------------------
(* The steps.                                                              *)

\* What is committed stays so: a handler that does nothing keeps its part.
LEMMA OthersKeep ==
    ASSUME NEW g \in Handler, HasInserted(g), db \subseteq db',
           pc'[g] = pc[g], body'[g] = body[g], todo'[g] = todo[g], staged'[g] = staged[g]
    PROVE  HasInserted(g)'
BY DEF HasInserted, Have

\* A handler moves on without touching a row.
LEMMA MoveOn ==
    ASSUME Inv, NEW h \in Handler, UNCHANGED <<db, acked, staged>>, TypeOK',
           \A g \in Handler \ {h} : pc'[g] = pc[g] /\ body'[g] = body[g] /\ todo'[g] = todo[g],
           HasInserted(h)'
    PROVE  Inv'
<1>1. \A g \in Handler : HasInserted(g)'
    BY OthersKeep DEF Inv
<1> QED
    BY <1>1 DEF Inv, Exclusive, Closed, AckedMeansIngested

LEMMA DeliverStep ==
    ASSUME Inv, NEW h \in Handler, NEW b \in Body, Deliver(h, b)
    PROVE  Inv'
<1>1. TypeOK'
    BY DEF Inv, TypeOK, Deliver, GoTo
<1>2. pc'[h] = "connection" /\ body'[h] = b /\ staged[h] = {}
    BY DEF Inv, TypeOK, Deliver, GoTo, HasInserted
<1>3. HasInserted(h)'
    BY <1>2 DEF HasInserted, Deliver
<1> QED
    BY <1>1, <1>3, MoveOn DEF Deliver, GoTo, Inv, TypeOK

\* A transaction ends, its rows committed or not.
LEMMA EndStep ==
    ASSUME Inv, NEW h \in Handler, EndTransaction(h)
    PROVE  /\ body' \in [Handler -> Body \cup {NoBody}]
           /\ pc' \in [Handler -> {"idle", "connection", "event", "messages", "jobs",
                                   "statuses", "commit"}]
           /\ todo' \in [Handler -> Seq(ExternalId \cup Fingerprint)]
           /\ staged' \in [Handler -> SUBSET Row]
           /\ HasInserted(h)'
           /\ staged'[h] = {}
           /\ \A g \in Handler \ {h} : /\ pc'[g] = pc[g] /\ body'[g] = body[g]
                                       /\ todo'[g] = todo[g] /\ staged'[g] = staged[g]
<1>1. <<>> \in Seq(ExternalId \cup Fingerprint)
    OBVIOUS
<1>2. /\ body' \in [Handler -> Body \cup {NoBody}]
      /\ pc' \in [Handler -> {"idle", "connection", "event", "messages", "jobs",
                              "statuses", "commit"}]
      /\ todo' \in [Handler -> Seq(ExternalId \cup Fingerprint)]
      /\ staged' \in [Handler -> SUBSET Row]
    BY <1>1 DEF EndTransaction, GoTo, Inv, TypeOK
<1>3. pc'[h] = "idle" /\ staged'[h] = {}
    BY DEF EndTransaction, GoTo, Inv, TypeOK
<1>4. HasInserted(h)'
    BY <1>3 DEF HasInserted
<1>5. \A g \in Handler \ {h} : /\ pc'[g] = pc[g] /\ body'[g] = body[g]
                               /\ todo'[g] = todo[g] /\ staged'[g] = staged[g]
    BY DEF EndTransaction, GoTo, Inv, TypeOK
<1> QED
    BY <1>2, <1>3, <1>4, <1>5

\* A rollback: refused, failed, or aborted to end a deadlock.
LEMMA RollbackStep ==
    ASSUME Inv, NEW h \in Handler, EndTransaction(h), UNCHANGED <<db, acked>>,
           active' \in BOOLEAN, failures' \in 0..MaxFailures
    PROVE  Inv'
<1>1. TypeOK'
    BY EndStep DEF Inv, TypeOK
<1>2. \A g \in Handler : HasInserted(g)'
    BY EndStep, OthersKeep DEF Inv
<1>3. Exclusive'
    BY EndStep DEF Inv, Exclusive
<1> QED
    BY <1>1, <1>2, <1>3 DEF Inv, Closed, AckedMeansIngested

\* At the commit, all rows of the body are the transaction's or committed.
LEMMA CommitStep ==
    ASSUME Inv, NEW h \in Handler, Commit(h)
    PROVE  Inv'
<1>1. PICK b \in Body : b = body[h]
    BY DEF Inv, HasInserted, Commit
<1>2. EndTransaction(h) /\ db' = db \cup staged[h]
    BY DEF Commit
<1>3. RowsOf(b) \subseteq db' /\ staged[h] \subseteq RowsOf(b)
    BY <1>1, <1>2 DEF Inv, HasInserted, Have, Commit, Closed
<1>4. TypeOK'
    <2>1. acked' \subseteq Body /\ failures' \in 0..MaxFailures /\ active' \in BOOLEAN
        BY <1>1 DEF Commit, Inv, TypeOK
    <2>2. db' \subseteq Row
        BY <1>1, <1>2, <1>3, RowFacts DEF Inv, TypeOK
    <2> QED
        BY <1>2, <2>1, <2>2, EndStep DEF TypeOK
<1>5. \A g \in Handler : HasInserted(g)'
    BY <1>2, EndStep, OthersKeep DEF Inv
<1>6. Exclusive'
    <2>1. \A g \in Handler : staged'[g] \subseteq staged[g] /\ staged'[g] \cap staged[h] = {}
        BY <1>2, EndStep DEF Inv, Exclusive
    <2> QED
        BY <1>2, <2>1 DEF Inv, Exclusive
<1>7. Closed'
    <2>1. ASSUME NEW c \in Body, Event(c) \in db' PROVE RowsOf(c) \subseteq db'
        <3>1. CASE Event(c) \in db
            BY <1>2, <3>1 DEF Inv, Closed
        <3>2. CASE Event(c) \in staged[h]
            BY <1>3, <3>2, RowFacts
        <3> QED
            BY <1>2, <2>1, <3>1, <3>2
    <2>2. ASSUME NEW m \in ExternalId, Message(m) \in db' PROVE Job(m) \in db'
        <3>1. CASE Message(m) \in db
            BY <1>2, <3>1 DEF Inv, Closed
        <3>2. CASE Message(m) \in staged[h]
            BY <1>3, <3>2, RowFacts
        <3> QED
            BY <1>2, <2>2, <3>1, <3>2
    <2> QED
        BY <2>1, <2>2 DEF Closed
<1>8. AckedMeansIngested'
    BY <1>1, <1>2, <1>3 DEF Commit, Inv, AckedMeansIngested
<1> QED
    BY <1>4, <1>5, <1>6, <1>7, <1>8 DEF Inv

\* An INSERT adds at most the row it names, which nobody else has: a handler
\* whose row is uncommitted elsewhere waits (service.py:152).
LEMMA InsertFacts ==
    ASSUME Inv, NEW h \in Handler, ~Waits(h), InsertNext(h), UNCHANGED db,
           NextRow(h) \subseteq Row
    PROVE  /\ staged' \in [Handler -> SUBSET Row]
           /\ staged'[h] = staged[h] \cup (NextRow(h) \ db)
           /\ \A g \in Handler \ {h} : staged'[g] = staged[g]
           /\ Exclusive'
<1>1. /\ staged' \in [Handler -> SUBSET Row]
      /\ staged'[h] = staged[h] \cup (NextRow(h) \ db)
      /\ \A g \in Handler \ {h} : staged'[g] = staged[g]
    BY DEF InsertNext, Inv, TypeOK
<1>2. \A g \in Handler \ {h} : NextRow(h) \cap staged[g] = {}
    BY DEF Waits, WaitsFor
<1>3. Exclusive'
    BY <1>1, <1>2 DEF Inv, Exclusive
<1> QED
    BY <1>1, <1>3

LEMMA InsertStep ==
    ASSUME Inv, NEW h \in Handler, UNCHANGED <<db, acked>>, TypeOK', Exclusive', HasInserted(h)',
           \A g \in Handler \ {h} : /\ pc'[g] = pc[g] /\ body'[g] = body[g]
                                    /\ todo'[g] = todo[g] /\ staged'[g] = staged[g]
    PROVE  Inv'
<1>1. \A g \in Handler : HasInserted(g)'
    BY OthersKeep DEF Inv
<1> QED
    BY <1>1 DEF Inv, Closed, AckedMeansIngested

LEMMA InsertEventStep ==
    ASSUME Inv, NEW h \in Handler, InsertEvent(h)
    PROVE  Inv'
<1>1. PICK b \in Body : b = body[h]
    BY DEF Inv, HasInserted, InsertEvent
<1>2. NextRow(h) = {Event(b)} /\ staged[h] = {} /\ Event(b) \in Row
    BY <1>1, RowFacts DEF NextRow, InsertEvent, Inv, HasInserted
<1>3. /\ staged' \in [Handler -> SUBSET Row]
      /\ staged'[h] = {Event(b)} \ db
      /\ \A g \in Handler \ {h} : staged'[g] = staged[g]
      /\ Exclusive'
    BY <1>2, InsertFacts DEF InsertEvent
<1>4. /\ FirstOccurrences(MessagesOf[b]) \in Seq(ExternalId)
      /\ FirstOccurrences(MessagesOf[b]) \in Seq(ExternalId \cup Fingerprint)
      /\ ToSet(FirstOccurrences(MessagesOf[b])) = Messages(b)
    <2>1. MessagesOf[b] \in Seq(ExternalId) /\ MessagesOf[b] \in Seq(ExternalId \cup Fingerprint)
        OBVIOUS
    <2> QED
        BY <2>1, FirstFacts DEF Messages
<1>5. /\ pc' \in [Handler -> {"idle", "connection", "event", "messages", "jobs",
                              "statuses", "commit"}]
      /\ todo' \in [Handler -> Seq(ExternalId \cup Fingerprint)]
      /\ body' = body
      /\ \A g \in Handler \ {h} : pc'[g] = pc[g] /\ todo'[g] = todo[g]
    <2>1. \E p \in {"messages", "commit"} : pc' = [pc EXCEPT ![h] = p]
        BY DEF InsertEvent, GoTo
    <2>2. todo' = todo \/ todo' = [todo EXCEPT ![h] = FirstOccurrences(MessagesOf[b])]
        BY <1>1 DEF InsertEvent
    <2>3. body' = body
        BY DEF InsertEvent
    <2>4. /\ pc \in [Handler -> {"idle", "connection", "event", "messages", "jobs",
                                "statuses", "commit"}]
          /\ todo \in [Handler -> Seq(ExternalId \cup Fingerprint)]
        BY DEF Inv, TypeOK
    <2>5. /\ pc' \in [Handler -> {"idle", "connection", "event", "messages", "jobs",
                                 "statuses", "commit"}]
          /\ \A g \in Handler \ {h} : pc'[g] = pc[g]
        BY ONLY <2>1, <2>4
    <2>6. /\ todo' \in [Handler -> Seq(ExternalId \cup Fingerprint)]
          /\ \A g \in Handler \ {h} : todo'[g] = todo[g]
        BY ONLY <1>4, <2>2, <2>4
    <2> QED
        BY <2>3, <2>5, <2>6
<1>6. TypeOK'
    BY <1>3, <1>5 DEF TypeOK, Inv, InsertEvent
<1>7. HasInserted(h)'
    <2>1. CASE Event(b) \in db
        <3>1. pc'[h] = "commit" /\ staged'[h] = {} /\ body'[h] = b /\ db' = db
            BY <1>1, <1>3, <1>5, <2>1 DEF InsertEvent, GoTo, Inv, TypeOK
        <3> QED
            BY <2>1, <3>1 DEF HasInserted
    <2>2. CASE Event(b) \notin db
        <3>1. /\ pc'[h] = "messages" /\ body'[h] = b /\ staged'[h] = {Event(b)}
              /\ todo'[h] = FirstOccurrences(MessagesOf[b])
            BY <1>1, <1>3, <1>5, <2>2 DEF InsertEvent, GoTo, Inv, TypeOK
        <3>2. {Event(b)} \subseteq RowsOf(b)
            BY RowFacts
        <3> QED
            BY <1>4, <3>1, <3>2 DEF HasInserted
    <2> QED
        BY <2>1, <2>2
<1> QED
    BY <1>3, <1>5, <1>6, <1>7, InsertStep DEF InsertEvent

\* One turn of a loop: the element it inserts leaves todo.
LEMMA InsertRowStep ==
    ASSUME Inv, NEW h \in Handler, InsertRow(h)
    PROVE  Inv'
<1> DEFINE Key == ExternalId \cup Fingerprint
<1>1. PICK b \in Body : b = body[h]
    BY DEF Inv, HasInserted, InsertRow
<1>2. PICK s \in Seq(Key) : s = todo[h] /\ s # <<>>
    BY DEF Inv, TypeOK, InsertRow
<1>3. PICK k : k = Head(s)
    OBVIOUS
<1>4. /\ Tail(s) \in Seq(Key) /\ k \in ToSet(s)
      /\ ToSet(s) = {k} \cup ToSet(Tail(s))
    BY <1>2, <1>3, HeadAndTail
<1>5. /\ pc' = pc /\ body' = body
      /\ todo' \in [Handler -> Seq(Key)]
      /\ todo'[h] = Tail(s)
      /\ \A g \in Handler \ {h} : todo'[g] = todo[g]
    BY <1>2, <1>4 DEF InsertRow, Inv, TypeOK
<1>6. /\ pc[h] = "messages" => NextRow(h) = {Message(k)}
      /\ pc[h] = "jobs" => NextRow(h) = {Job(k)}
      /\ pc[h] = "statuses" => NextRow(h) = {Status(k)}
    BY <1>2, <1>3 DEF NextRow
<1>7. /\ pc[h] \in {"messages", "jobs"} => k \in Messages(b)
      /\ pc[h] = "statuses" => k \in Statuses(b)
    BY <1>1, <1>2, <1>4 DEF Inv, HasInserted
<1>8. NextRow(h) \subseteq RowsOf(b)
    BY <1>6, <1>7, RowFacts DEF InsertRow
<1>9. /\ staged' \in [Handler -> SUBSET Row]
      /\ staged'[h] = staged[h] \cup (NextRow(h) \ db)
      /\ \A g \in Handler \ {h} : staged'[g] = staged[g]
      /\ Exclusive'
    <2>1. NextRow(h) \subseteq Row
        BY <1>8, RowFacts
    <2> QED
        BY <2>1, InsertFacts DEF InsertRow
<1>10. TypeOK'
    BY <1>5, <1>9 DEF TypeOK, Inv, InsertRow
<1>11. HasInserted(h)'
    <2>1. /\ Event(b) \in staged'[h] /\ staged'[h] \subseteq RowsOf(b)
          /\ staged[h] \subseteq staged'[h] /\ NextRow(h) \subseteq Have(h)'
          /\ Have(h) \subseteq Have(h)' /\ db' = db
        BY <1>1, <1>8, <1>9 DEF Inv, HasInserted, Have, InsertRow
    <2>2. CASE pc[h] = "messages"
        <3>1. ToSet(todo'[h]) \subseteq Messages(b)
            BY <1>1, <1>2, <1>4, <1>5, <2>2 DEF Inv, HasInserted
        <3>2. ASSUME NEW m \in Messages(b)
              PROVE  Message(m) \in Have(h)' \/ m \in ToSet(todo'[h])
            BY <1>1, <1>2, <1>4, <1>5, <1>6, <2>1, <2>2 DEF Inv, HasInserted
        <3> QED
            BY <1>1, <1>5, <2>1, <2>2, <3>1, <3>2 DEF HasInserted
    <2>3. CASE pc[h] = "jobs"
        <3>1. ToSet(todo'[h]) \subseteq Messages(b)
            BY <1>1, <1>2, <1>4, <1>5, <2>3 DEF Inv, HasInserted
        <3>2. ASSUME NEW m \in Messages(b)
              PROVE  /\ Message(m) \in Have(h)'
                     /\ Message(m) \in staged'[h] =>
                           Job(m) \in Have(h)' \/ m \in ToSet(todo'[h])
            <4>1. Message(m) \in staged'[h] => Message(m) \in staged[h]
                <5>1. Message(m) # Job(k)
                    BY DEF Message, Job
                <5>2. NextRow(h) = {Job(k)}
                    BY <1>6, <2>3
                <5> QED
                    BY <1>9, <5>1, <5>2
            <4>2. /\ Message(m) \in Have(h)
                  /\ Message(m) \in staged[h] => Job(m) \in Have(h) \/ m \in ToSet(s)
                BY <1>1, <1>2, <2>3 DEF Inv, HasInserted
            <4>3. m \in ToSet(s) => m = k \/ m \in ToSet(todo'[h])
                BY <1>4, <1>5
            <4> QED
                BY <1>6, <2>1, <2>3, <4>1, <4>2, <4>3
        <3> QED
            BY <1>1, <1>5, <2>1, <2>3, <3>1, <3>2 DEF HasInserted
    <2>4. CASE pc[h] = "statuses"
        <3>1. ToSet(todo'[h]) \subseteq Statuses(b)
            BY <1>1, <1>2, <1>4, <1>5, <2>4 DEF Inv, HasInserted
        <3>2. ASSUME NEW m \in Messages(b)
              PROVE  Message(m) \in Have(h)' /\ Job(m) \in Have(h)'
            BY <1>1, <2>1, <2>4 DEF Inv, HasInserted
        <3>3. ASSUME NEW f \in Statuses(b)
              PROVE  Status(f) \in Have(h)' \/ f \in ToSet(todo'[h])
            BY <1>1, <1>2, <1>4, <1>5, <1>6, <2>1, <2>4 DEF Inv, HasInserted
        <3> QED
            BY <1>1, <1>5, <2>1, <2>4, <3>1, <3>2, <3>3 DEF HasInserted
    <2> QED
        BY <2>2, <2>3, <2>4 DEF InsertRow
<1> QED
    BY <1>5, <1>9, <1>10, <1>11, InsertStep DEF InsertRow

\* The loops end with everything inserted; the messages this transaction
\* inserted are the ones that get a job (service.py:325).
LEMMA EndMessagesStep ==
    ASSUME Inv, NEW h \in Handler, EndMessages(h)
    PROVE  Inv'
<1>1. PICK b \in Body : b = body[h]
    BY DEF Inv, HasInserted, EndMessages
<1>2. PICK s \in Seq(ExternalId) : s = MessagesOf[b]
    OBVIOUS
<1> DEFINE new == {i \in First(s) : Message(s[i]) \in staged[h]}
<1>3. /\ Kept(s, new) \in Seq(ExternalId)
      /\ ToSet(Kept(s, new)) = {s[i] : i \in new}
      /\ {s[i] : i \in First(s)} = ToSet(s) /\ new \subseteq DOMAIN s
    <2>1. new \subseteq DOMAIN s /\ {s[i] : i \in First(s)} = ToSet(s)
        BY FirstFacts
    <2> HIDE DEF new
    <2> QED
        BY <2>1, KeptFacts
<1>4. Kept(s, new) \in Seq(ExternalId \cup Fingerprint)
    BY <1>3
<1>5. todo' = [todo EXCEPT ![h] = Kept(s, new)]
    BY <1>1, <1>2 DEF EndMessages
<1> HIDE DEF new
<1>6. TypeOK' /\ pc'[h] = "jobs" /\ todo'[h] = Kept(s, new) /\ UNCHANGED <<db, acked, body, staged>>
    BY <1>4, <1>5 DEF EndMessages, GoTo, Inv, TypeOK
<1>7. \A g \in Handler \ {h} : pc'[g] = pc[g] /\ body'[g] = body[g] /\ todo'[g] = todo[g]
    BY <1>5 DEF EndMessages, GoTo, Inv, TypeOK
<1>8. HasInserted(h)'
    <2>1. \A m \in Messages(b) : Message(m) \in Have(h)
        BY <1>1, NoElements DEF Inv, HasInserted, EndMessages
    <2>2. Event(b) \in staged[h] /\ staged[h] \subseteq RowsOf(b)
        BY <1>1 DEF Inv, HasInserted, EndMessages
    <2>3. \A m \in Messages(b) : Message(m) \in staged[h] => m \in ToSet(todo'[h])
        <3>1. \A m \in Messages(b) : \E i \in First(s) : s[i] = m
            BY <1>2, <1>3 DEF Messages
        <3>2. \A i \in First(s) : Message(s[i]) \in staged[h] => i \in new
            BY DEF new
        <3>3. ToSet(todo'[h]) = {s[i] : i \in new}
            BY <1>3, <1>6
        <3> QED
            BY <3>1, <3>2, <3>3
    <2>4. ToSet(todo'[h]) \subseteq Messages(b)
        <3>1. new \subseteq First(s)
            BY DEF new
        <3> QED
            BY <1>2, <1>3, <1>6, <3>1 DEF Messages
    <2> QED
        BY <1>1, <1>6, <2>1, <2>2, <2>3, <2>4 DEF HasInserted, Have
<1> QED
    BY <1>6, <1>7, <1>8, MoveOn

LEMMA EndJobsStep ==
    ASSUME Inv, NEW h \in Handler, EndJobs(h)
    PROVE  Inv'
<1>1. PICK b \in Body : b = body[h]
    BY DEF Inv, HasInserted, EndJobs
<1>2. /\ FirstOccurrences(StatusesOf[b]) \in Seq(ExternalId \cup Fingerprint)
      /\ ToSet(FirstOccurrences(StatusesOf[b])) = Statuses(b)
    <2>1. StatusesOf[b] \in Seq(ExternalId \cup Fingerprint)
        OBVIOUS
    <2> QED
        BY <2>1, FirstFacts DEF Statuses
<1>3. /\ TypeOK' /\ pc'[h] = "statuses" /\ UNCHANGED <<db, acked, body, staged>>
      /\ todo'[h] = FirstOccurrences(StatusesOf[b])
    BY <1>1, <1>2 DEF EndJobs, GoTo, Inv, TypeOK
<1>4. \A g \in Handler \ {h} : pc'[g] = pc[g] /\ body'[g] = body[g] /\ todo'[g] = todo[g]
    BY DEF EndJobs, GoTo, Inv, TypeOK
<1>5. HasInserted(h)'
    <2>1. Event(b) \in staged[h] /\ staged[h] \subseteq RowsOf(b)
        BY <1>1 DEF Inv, HasInserted, EndJobs
    <2>2. ASSUME NEW m \in Messages(b) PROVE Message(m) \in Have(h) /\ Job(m) \in Have(h)
        <3>1. /\ Message(m) \in Have(h)
              /\ Message(m) \in staged[h] => Job(m) \in Have(h)
            BY <1>1, NoElements DEF Inv, HasInserted, EndJobs
        <3>2. Message(m) \in db => Job(m) \in db
            BY RowFacts DEF Inv, Closed
        <3> QED
            BY <3>1, <3>2 DEF Have
    <2> QED
        BY <1>1, <1>2, <1>3, <2>1, <2>2 DEF HasInserted, Have
<1> QED
    BY <1>3, <1>4, <1>5, MoveOn

LEMMA EndStatusesStep ==
    ASSUME Inv, NEW h \in Handler, EndStatuses(h)
    PROVE  Inv'
<1>1. PICK b \in Body : b = body[h]
    BY DEF Inv, HasInserted, EndStatuses
<1>2. TypeOK' /\ pc'[h] = "commit" /\ UNCHANGED <<db, acked, body, todo, staged>>
    BY DEF EndStatuses, GoTo, Inv, TypeOK
<1>3. \A g \in Handler \ {h} : pc'[g] = pc[g] /\ body'[g] = body[g] /\ todo'[g] = todo[g]
    BY DEF EndStatuses, GoTo, Inv, TypeOK
<1>4. /\ Event(b) \in staged[h] /\ staged[h] \subseteq RowsOf(b)
      /\ \A m \in Messages(b) : Message(m) \in Have(h) /\ Job(m) \in Have(h)
      /\ \A f \in Statuses(b) : Status(f) \in Have(h)
    BY <1>1, NoElements DEF Inv, HasInserted, EndStatuses
<1>5. RowsOf(b) \subseteq Have(h)
    BY <1>4 DEF RowsOf, Messages, Statuses, Have
<1>6. HasInserted(h)'
    BY <1>1, <1>2, <1>4, <1>5 DEF HasInserted, Have
<1> QED
    BY <1>2, <1>3, <1>6, MoveOn

----------------------------------------------------------------------------
(* The invariant, and what follows from it.                                *)

LEMMA InitInv == Init => Inv
<1> SUFFICES ASSUME Init PROVE Inv
    OBVIOUS
<1>1. <<>> \in Seq(ExternalId \cup Fingerprint) /\ 0 \in 0..MaxFailures
    OBVIOUS
<1>2. TypeOK
    BY <1>1 DEF Init, TypeOK
<1>3. Exclusive /\ Closed /\ AckedMeansIngested
    BY DEF Init, Exclusive, Closed, AckedMeansIngested
<1>4. \A h \in Handler : HasInserted(h)
    BY DEF Init, HasInserted
<1> QED
    BY <1>2, <1>3, <1>4 DEF Inv

LEMMA CheckConnectionStep ==
    ASSUME Inv, NEW h \in Handler, CheckConnection(h)
    PROVE  Inv'
<1>1. CASE active
    <2>1. /\ TypeOK' /\ pc'[h] = "event" /\ UNCHANGED <<db, acked, body, todo, staged>>
          /\ \A g \in Handler \ {h} : pc'[g] = pc[g]
        BY <1>1 DEF CheckConnection, GoTo, Inv, TypeOK
    <2>2. HasInserted(h)'
        BY <2>1 DEF HasInserted, CheckConnection, Inv
    <2> QED
        BY <2>1, <2>2, MoveOn
<1>2. CASE ~active
    <2>1. active' \in BOOLEAN /\ failures' \in 0..MaxFailures /\ EndTransaction(h)
          /\ UNCHANGED <<db, acked>>
        BY <1>2 DEF CheckConnection, Inv, TypeOK
    <2> QED
        BY <2>1, RollbackStep
<1> QED
    BY <1>1, <1>2

LEMMA AbortStep ==
    ASSUME Inv, NEW h \in Handler, Abort(h) \/ AbortDeadlocked(h)
    PROVE  Inv'
<1>1. failures' \in 0..MaxFailures
    BY DEF Abort, AbortDeadlocked, Inv, TypeOK
<1> QED
    BY <1>1, RollbackStep DEF Abort, AbortDeadlocked, Inv, TypeOK

LEMMA IdleStep ==
    ASSUME Inv, UNCHANGED <<db, txVars, acked, failures>>, active' \in BOOLEAN
    PROVE  Inv'
<1>1. TypeOK'
    BY DEF Inv, TypeOK, txVars
<1>2. \A g \in Handler : HasInserted(g)'
    BY OthersKeep DEF Inv, txVars
<1> QED
    BY <1>1, <1>2 DEF Inv, Exclusive, Closed, AckedMeansIngested, txVars

LEMMA NextInv == Inv /\ [Next]_vars => Inv'
<1> SUFFICES ASSUME Inv, [Next]_vars PROVE Inv'
    OBVIOUS
<1>1. CASE UNCHANGED vars
    BY <1>1, IdleStep DEF vars, Inv, TypeOK
<1>2. CASE SetActive
    BY <1>2, IdleStep DEF SetActive, Inv, TypeOK
<1>3. CASE \E h \in Handler, b \in Body : Deliver(h, b)
    BY <1>3, DeliverStep
<1>4. CASE \E h \in Handler : Handle(h) \/ Abort(h)
    BY <1>4, CheckConnectionStep, InsertEventStep, InsertRowStep, EndMessagesStep, EndJobsStep,
       EndStatusesStep, CommitStep, AbortStep DEF Handle
<1> QED
    BY <1>1, <1>2, <1>3, <1>4 DEF Next

LEMMA Invariance == Spec => []Inv
BY InitInv, NextInv, PTL DEF Spec

\* Types are kept: what is inserted is a row of some body, what a loop has
\* left are keys of the payload (service.py:255).
THEOREM IngestionTypeCorrect == Spec => []TypeOK
<1>1. Inv => TypeOK
    BY DEF Inv
<1> QED
    BY <1>1, Invariance, PTL

\* A body that was acknowledged is committed with all its rows, for any bodies
\* and handlers: a duplicate waits for the first delivery (service.py:299).
THEOREM AckedAreIngested == Spec => []AckedMeansIngested
<1>1. Inv => AckedMeansIngested
    BY DEF Inv
<1> QED
    BY <1>1, Invariance, PTL

\* Only a commit changes the committed rows, and it adds those of one body.
LEMMA CommitIngests ==
    ASSUME Inv, NEW h \in Handler, Commit(h)
    PROVE  db' = db \/ \E b \in Body : Inbox!Ingest(b)
<1>1. PICK b \in Body : b = body[h]
    BY DEF Inv, HasInserted, Commit
<1>2. CASE Event(b) \in db /\ staged[h] = {}
    BY <1>2 DEF Commit
<1>3. CASE Event(b) \in staged[h] /\ staged[h] \subseteq RowsOf(b) /\ RowsOf(b) \subseteq Have(h)
    <2>1. Event(b) \notin db
        BY <1>3 DEF Inv, Exclusive
    <2>2. db' = db \cup RowsOf(b)
        BY <1>3 DEF Commit, Have
    <2> QED
        BY <2>1, <2>2 DEF Inbox!Ingest, Event
<1> QED
    BY <1>1, <1>2, <1>3 DEF Inv, HasInserted, Commit

\* The transactions of all handlers implement the inbox: whatever bodies
\* overlap, each is ingested whole, once, in one step (service.py:255).
THEOREM WholeBodies == Spec => IngestsWholeBodies
<1>1. Init => Inbox!InboxInit
    BY DEF Init, Inbox!InboxInit
<1>2. Inv /\ [Next]_vars => [Inbox!InboxNext]_db
    <2> SUFFICES ASSUME Inv, [Next]_vars PROVE [Inbox!InboxNext]_db
        OBVIOUS
    <2>1. CASE \E h \in Handler : Commit(h)
        BY <2>1, CommitIngests DEF Inbox!InboxNext
    <2>2. CASE ~\E h \in Handler : Commit(h)
        BY <2>2 DEF Next, vars, Deliver, Handle, Abort, SetActive, CheckConnection, InsertEvent,
                    InsertRow, EndMessages, EndJobs, EndStatuses, AbortDeadlocked
    <2> QED
        BY <2>1, <2>2
<1> QED
    BY <1>1, <1>2, Invariance, PTL DEF Spec, IngestsWholeBodies, Inbox!InboxSpec

----------------------------------------------------------------------------
(* No standstill.                                                          *)

Busy == {h \in Handler : pc[h] # "idle"}

\* While there are transactions, one of them needs nobody else's: its next
\* statement can run, or it is one the database aborts.
SomebodyMoves ==
    Busy # {} =>
        \E h \in Busy : \/ ~Waits(h)
                        \/ \E S \in SUBSET Handler : h \in S /\ Deadlocked(S)

\* What each of S waits for is in S.
WaitsWithin(S) == \A h \in S : \E g \in S : WaitsFor(h, g)

\* Of finitely many handlers that wait within themselves some are deadlocked:
\* in a smallest such set, whoever nobody waits for could be left out.
LEMMA SomeDeadlock ==
    ASSUME NEW W \in SUBSET Handler, W # {}, WaitsWithin(W)
    PROVE  \E S \in SUBSET W : S # {} /\ Deadlocked(S)
<1> DEFINE T == {S \in SUBSET Handler : S # {} /\ WaitsWithin(S)}
           T0 == {S \in T : S \subseteq W}
<1>1. IsWellFoundedOn(StrictSubsetOrdering(Handler), SUBSET Handler)
    <2>1. FiniteSubsetsOf(Handler) = SUBSET Handler
        BY FS_FiniteSubsetsOfFinite
    <2>2. IsWellFoundedOn(StrictSubsetOrdering(Handler), FiniteSubsetsOf(Handler))
        BY FS_StrictSubsetOrderingWellFounded
    <2> QED
        BY <2>1, <2>2
<1>2. T0 \subseteq SUBSET Handler
    OBVIOUS
<1>3. T0 # {}
    <2>1. W \in T
        OBVIOUS
    <2> QED
        BY <2>1
<1> HIDE DEF T0
<1>4. PICK S \in T0 : \A R \in T0 : <<R, S>> \notin StrictSubsetOrdering(Handler)
    BY <1>1, <1>2, <1>3, WFMin
<1>5. S \subseteq W /\ S \subseteq Handler /\ S # {} /\ WaitsWithin(S)
    BY DEF T0
<1>6. ASSUME NEW h \in S, \A g \in S : ~WaitsFor(g, h)
      PROVE  FALSE
    <2> DEFINE R == S \ {h}
    <2>1. PICK g \in S : WaitsFor(h, g)
        BY <1>5 DEF WaitsWithin
    <2>2. R # {}
        BY <2>1 DEF WaitsFor
    <2>3. WaitsWithin(R)
        BY <1>5, <1>6 DEF WaitsWithin
    <2>4. R \in T0
        BY <1>5, <2>2, <2>3 DEF T0
    <2>5. <<R, S>> \in StrictSubsetOrdering(Handler)
        BY <1>5, <1>6 DEF StrictSubsetOrdering
    <2> QED
        BY <1>4, <2>4, <2>5
<1>7. Deadlocked(S)
    BY <1>5, <1>6 DEF Deadlocked, WaitsWithin
<1> QED
    BY <1>5, <1>7

\* The transactions never come to a standstill that PostgreSQL does not end:
\* whatever bodies overlap and however many handlers there are, some of the
\* open transactions either runs its next statement or is in a deadlock, whose
\* detection aborts it (the inserts of service.py:155, 197, 230 and 283).
THEOREM NoStandstill == Spec => []SomebodyMoves
<1>1. Inv => SomebodyMoves
    <2> SUFFICES ASSUME Inv, Busy # {}, \A h \in Busy : Waits(h)
                 PROVE  \E h \in Busy : \E S \in SUBSET Handler : h \in S /\ Deadlocked(S)
        BY DEF SomebodyMoves
    <2>1. \A h, g \in Handler : WaitsFor(h, g) => g \in Busy
        BY DEF Inv, HasInserted, WaitsFor, Busy
    <2>2. WaitsWithin(Busy)
        BY <2>1 DEF Waits, WaitsWithin, Busy
    <2>3. PICK S \in SUBSET Busy : S # {} /\ Deadlocked(S)
        BY <2>2, SomeDeadlock DEF Busy
    <2> QED
        BY <2>3 DEF Busy
<1> QED
    BY <1>1, Invariance, PTL
=============================================================================
