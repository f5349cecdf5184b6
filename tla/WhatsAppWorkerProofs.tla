------------------------ MODULE WhatsAppWorkerProofs ------------------------
(***************************************************************************)
(* Proofs about WhatsAppWorker, for any number of workers, messages and    *)
(* claims.  The inductive invariant has four parts: Claims, what a held    *)
(* claim says of the job; Sets, what a worker between two transactions     *)
(* knows of the recommendation rows; Answers, how many answers the claims  *)
(* of a job account for; Order, that a job that overtook a waiting one is  *)
(* behind it when it waits again.  A step of a worker changes where it     *)
(* stands and its target, and little else: each part has a lemma about     *)
(* such steps.                                                             *)
(***************************************************************************)
EXTENDS WhatsAppWorker, FiniteSetTheorems, TLAPS

USE JobAssumption, WorkerAssumption

BeforeStore == {"dispatch", "lookup", "mark", "extract", "search", "supersede", "blocked",
                "insert"}
BeforeSend == BeforeStore \cup {"unmet", "send"}

\* A claim that is held names a job by a value its attempts have had, and is
\* held once.
Claims ==
    /\ \A w \in Worker :
          IF pc[w] = "idle" THEN current[w] = NoClaim
          ELSE /\ current[w] \in SetId
               /\ current[w].attempt <= attempts[MessageOf(w)]
               /\ status[MessageOf(w)] # "absent"
    /\ \A v, w \in Worker : pc[v] # "idle" /\ current[v] = current[w] => v = w

\* Sets are stored by claims that were granted, once; what an open transaction
\* has locked is active, and locked by nobody else.
Sets ==
    /\ \A s \in SetId : recommendation[s] # "absent" => s.attempt <= attempts[s.message]
    /\ \A w \in Worker :
          /\ pc[w] \in BeforeStore => recommendation[current[w]] = "absent"
          /\ pc[w] = "mark" => target[w] \in SetId /\ recommendation[target[w]] # "absent"
          /\ pc[w] = "insert" => target[w] = NoSet \/ target[w] \in Active
    /\ \A v, w \in Worker :
          pc[v] = "insert" /\ pc[w] = "insert" /\ target[v] = target[w] =>
              v = w \/ target[v] = NoSet

OneActive == \A s, t \in Active : s = t

\* Workers whose claim of m has not sent an answer.
Unsent(m) == {w \in Worker : pc[w] \in BeforeSend /\ MessageOf(w) = m}

Answers ==
    /\ \A m \in Message : sent[m] + Cardinality(Unsent(m)) <= attempts[m]
    /\ \A w \in Worker :
          pc[w] = "complete" /\ kind[MessageOf(w)] # "voice" => sent[MessageOf(w)] >= 1
    /\ \A m \in Message : status[m] = "completed" /\ kind[m] # "voice" => sent[m] >= 1

\* A completion that was reported is that of the claim the job ended with.
Reports ==
    \A r \in reports : r.outcome = "completed" =>
        status[r.claim.message] = "completed" /\ attempts[r.claim.message] = r.claim.attempt

\* A job was overtaken only while it waits; a job that overtook it and waits
\* again is ordered behind it.
Order ==
    \A n \in Message :
        /\ overtook[n] # {} => status[n] = "pending" /\ ripe[n]
        /\ \A m \in overtook[n] : status[m] = "pending" /\ ripe[m] => n \in earlier[m]

Inv == TypeOK /\ Claims /\ Sets /\ OneActive /\ Answers /\ Reports /\ Order

----------------------------------------------------------------------------
(* Lemmas.                                                                 *)

LEMMA SetIdFacts ==
    /\ NoClaim \notin SetId /\ NoSet \notin SetId /\ SetId \subseteq Claim
    /\ \A s \in SetId : s.message \in Message /\ s.attempt \in Nat
BY DEF SetId, Claim

LEMMA BusyWorker ==
    ASSUME Inv, NEW w \in Worker, pc[w] # "idle"
    PROVE  /\ current[w] \in SetId /\ MessageOf(w) \in Message
           /\ current[w] \in Claim
           /\ status[MessageOf(w)] # "absent"
BY SetIdFacts DEF Inv, Claims, MessageOf

\* One job joins the end, or stops waiting.
LEMMA OrderGo ==
    ASSUME Inv, NEW m \in Message, status[m] # "pending" \/ ~ripe[m],
           \A n \in Message \ {m} : status'[n] = status[n] /\ ripe'[n] = ripe[n],
           UNCHANGED overtook,
           JoinTheEnd(m) \/ (UNCHANGED earlier /\ (status'[m] # "pending" \/ ~ripe'[m]))
    PROVE  Order' /\ earlier' \in [Message -> SUBSET Message]
<1>1. /\ earlier \in [Message -> SUBSET Message] /\ overtook \in [Message -> SUBSET Message]
      /\ Order
    BY DEF Inv, TypeOK, JobTypeOK
<1>2. earlier' \in [Message -> SUBSET Message]
    BY <1>1 DEF JoinTheEnd
<1>3. overtook[m] = {}
    BY <1>1 DEF Order
<1>4. ASSUME NEW n \in Message, overtook'[n] # {}
      PROVE  n # m /\ status'[n] = "pending" /\ ripe'[n]
    BY <1>1, <1>3, <1>4 DEF Order
<1>5. ASSUME NEW n \in Message, NEW k \in overtook'[n], status'[k] = "pending", ripe'[k]
      PROVE  n \in earlier'[k]
    <2>1. n # m /\ k \in Message
        BY <1>1, <1>4, <1>5
    <2>2. CASE k = m
        BY <1>5, <2>1, <2>2 DEF JoinTheEnd
    <2>3. CASE k # m
        <3>1. n \in earlier[k]
            BY <1>1, <1>5, <2>1, <2>3 DEF Order
        <3> QED
            BY <2>1, <2>3, <3>1 DEF JoinTheEnd
    <2> QED
        BY <2>2, <2>3
<1> QED
    BY <1>2, <1>4, <1>5 DEF Order

\* A worker goes on, or goes idle.
Goes(w, to) ==
    /\ pc' = [pc EXCEPT ![w] = to]
    /\ current' = IF to = "idle" THEN [current EXCEPT ![w] = NoClaim] ELSE current

LEMMA ClaimsGo ==
    ASSUME Inv, NEW w \in Worker, NEW to, pc[w] # "idle", Goes(w, to), UNCHANGED attempts,
           \A m \in Message : status[m] # "absent" => status'[m] # "absent"
    PROVE  Claims'
<1>1. /\ pc \in [Worker -> Phase] /\ current \in [Worker -> Claim \cup {NoClaim}]
      /\ Claims
    BY DEF Inv, TypeOK
<1>2. \A v \in Worker : v # w => pc'[v] = pc[v] /\ current'[v] = current[v]
    BY <1>1 DEF Goes
<1>3. /\ pc'[w] = to
      /\ current'[w] = IF to = "idle" THEN NoClaim ELSE current[w]
    BY <1>1 DEF Goes
<1>4. ASSUME NEW v \in Worker
      PROVE  IF pc'[v] = "idle" THEN current'[v] = NoClaim
             ELSE /\ current'[v] \in SetId
                  /\ current'[v].attempt <= attempts'[MessageOf(v)']
                  /\ status'[MessageOf(v)'] # "absent"
    <2>1. pc'[v] # "idle" => pc[v] # "idle" /\ current'[v] = current[v]
        BY <1>2, <1>3
    <2>2. pc'[v] = "idle" => current'[v] = NoClaim
        BY <1>1, <1>2, <1>3 DEF Claims
    <2> QED
        BY <1>1, <2>1, <2>2, SetIdFacts DEF Claims, MessageOf
<1>5. ASSUME NEW u \in Worker, NEW v \in Worker, pc'[u] # "idle", current'[u] = current'[v]
      PROVE  u = v
    <2>1. pc[u] # "idle" /\ current'[u] = current[u] /\ current[u] \in SetId
        BY <1>1, <1>2, <1>3, <1>5 DEF Claims
    <2>2. current'[v] = current[v]
        BY <1>2, <1>3, <1>5, <2>1, SetIdFacts
    <2> QED
        BY <1>1, <1>5, <2>1, <2>2 DEF Claims
<1> QED
    BY <1>4, <1>5 DEF Claims, MessageOf

\* The worker gets a target: a row that exists, to mark it, or an active row
\* nobody has locked, to supersede it.
LEMMA SetsGo ==
    ASSUME Inv, NEW w \in Worker, NEW to, NEW t \in SetId \cup {NoSet}, pc[w] # "idle",
           Goes(w, to), target' = [target EXCEPT ![w] = t],
           UNCHANGED <<recommendation, attempts>>,
           to \in BeforeStore => pc[w] \in BeforeStore,
           to = "mark" => t \in SetId /\ recommendation[t] # "absent",
           to = "insert" => t = NoSet \/ (t \in Active /\ t \notin LockedSets)
    PROVE  Sets'
<1>1. /\ pc \in [Worker -> Phase] /\ current \in [Worker -> Claim \cup {NoClaim}]
      /\ target \in [Worker -> SetId \cup {NoSet}] /\ Sets
    BY DEF Inv, TypeOK
<1>2. \A v \in Worker : v # w => pc'[v] = pc[v] /\ current'[v] = current[v]
                                 /\ target'[v] = target[v]
    BY <1>1 DEF Goes
<1>3. pc'[w] = to /\ target'[w] = t /\ (to # "idle" => current'[w] = current[w])
    BY <1>1 DEF Goes
<1>4. Active' = Active
    BY DEF Active
<1>5. to \in BeforeStore => to # "idle"
    BY DEF BeforeStore
<1>6. ASSUME NEW v \in Worker
      PROVE  /\ pc'[v] \in BeforeStore => recommendation'[current'[v]] = "absent"
             /\ pc'[v] = "mark" => target'[v] \in SetId /\ recommendation'[target'[v]] # "absent"
             /\ pc'[v] = "insert" => target'[v] = NoSet \/ target'[v] \in Active'
    <2>1. CASE v = w
        BY <1>1, <1>3, <1>4, <1>5, <2>1 DEF Sets
    <2>2. CASE v # w
        BY <1>1, <1>2, <1>4, <2>2 DEF Sets
    <2> QED
        BY <2>1, <2>2
<1>7. ASSUME NEW u \in Worker, NEW v \in Worker, u # v, pc'[u] = "insert", pc'[v] = "insert",
             target'[u] = target'[v]
      PROVE  target'[u] = NoSet
    <2>1. CASE u # w /\ v # w
        BY <1>1, <1>2, <1>7, <2>1 DEF Sets
    <2>2. CASE u = w
        BY <1>2, <1>3, <1>7, <2>2 DEF LockedSets
    <2>3. CASE v = w
        BY <1>2, <1>3, <1>7, <2>3 DEF LockedSets
    <2> QED
        BY <2>1, <2>2, <2>3
<1>8. \A s \in SetId : recommendation'[s] # "absent" => s.attempt <= attempts'[s.message]
    BY <1>1 DEF Sets
<1> QED
    BY <1>6, <1>7, <1>8 DEF Sets

\* Nothing is sent.  A job is completed by a worker that is done with it.
LEMMA AnswersGo ==
    ASSUME Inv, NEW w \in Worker, NEW to, pc[w] # "idle", Goes(w, to),
           UNCHANGED <<sent, kind, attempts>>,
           to \in BeforeSend => pc[w] \in BeforeSend,
           to = "complete" => kind[MessageOf(w)] = "voice",
           \A m \in Message : status'[m] = "completed" =>
               status[m] = "completed" \/ (pc[w] = "complete" /\ m = MessageOf(w))
    PROVE  Answers'
<1>1. /\ pc \in [Worker -> Phase] /\ current \in [Worker -> Claim \cup {NoClaim}]
      /\ attempts \in [Message -> Nat] /\ sent \in [Message -> Nat]
      /\ Answers /\ Claims
    BY DEF Inv, TypeOK, JobTypeOK
<1>2. \A v \in Worker : v # w => pc'[v] = pc[v] /\ current'[v] = current[v]
    BY <1>1 DEF Goes
<1>3. pc'[w] = to /\ (to # "idle" => current'[w] = current[w])
    BY <1>1 DEF Goes
<1>4. ASSUME NEW m \in Message
      PROVE  sent'[m] + Cardinality(Unsent(m)') <= attempts'[m]
    <2>1. Unsent(m)' \subseteq Unsent(m)
        BY <1>2, <1>3 DEF Unsent, MessageOf, BeforeSend, BeforeStore
    <2>2. IsFiniteSet(Unsent(m))
        BY FS_Subset DEF Unsent
    <2>3. /\ Cardinality(Unsent(m)') <= Cardinality(Unsent(m))
          /\ Cardinality(Unsent(m)) \in Nat /\ Cardinality(Unsent(m)') \in Nat
        BY <2>1, <2>2, FS_Subset, FS_CardinalityType
    <2> QED
        BY <1>1, <2>3 DEF Answers
<1>5. ASSUME NEW v \in Worker, pc'[v] = "complete", kind'[MessageOf(v)'] # "voice"
      PROVE  sent'[MessageOf(v)'] >= 1
    <2>1. v # w
        BY <1>3, <1>5 DEF MessageOf
    <2> QED
        BY <1>1, <1>2, <1>5, <2>1 DEF Answers, MessageOf
<1>6. ASSUME NEW m \in Message, status'[m] = "completed", kind'[m] # "voice"
      PROVE  sent'[m] >= 1
    BY <1>1, <1>6 DEF Answers
<1> QED
    BY <1>4, <1>5, <1>6 DEF Answers

----------------------------------------------------------------------------
(* The steps of a worker that leave the rows as they are.                  *)

LEMMA MoveInv ==
    ASSUME Inv, NEW w \in Worker, pc[w] # "idle",
           NEW to \in Phase, NEW t \in SetId \cup {NoSet}, NEW r \in {"none", "set", "text"},
           Goes(w, to), target' = [target EXCEPT ![w] = t], reply' = [reply EXCEPT ![w] = r],
           UNCHANGED <<jobVars, customerVars, recommendation, selection, chosen>>,
           demand' \subseteq Message, losses' \in Nat,
           reports' \subseteq reports \cup [claim : Claim, outcome : Outcome \ {"completed"}],
           to \in BeforeStore => pc[w] \in BeforeStore,
           to \in BeforeSend => pc[w] \in BeforeSend,
           to = "mark" => t \in SetId /\ recommendation[t] # "absent",
           to = "insert" => t = NoSet \/ (t \in Active /\ t \notin LockedSets),
           to = "complete" => kind[MessageOf(w)] = "voice"
    PROVE  Inv'
<1> USE DEF jobVars, customerVars
<1>1. TypeOK'
    BY DEF Inv, TypeOK, JobTypeOK, Goes, Outcome
<1>2. Claims'
    BY ClaimsGo
<1>3. Sets'
    BY SetsGo
<1>4. OneActive'
    BY DEF Inv, OneActive, Active
<1>5. Answers'
    BY AnswersGo
<1>6. Reports' /\ Order'
    BY DEF Inv, Reports, Order
<1> QED
    BY <1>1, <1>2, <1>3, <1>4, <1>5, <1>6 DEF Inv

LEMMA StepInv ==
    ASSUME Inv, NEW w \in Worker, NEW from, NEW to \in Phase \ {"idle", "mark", "insert"},
           Step(w, from, to), from # "idle",
           to \in BeforeStore => from \in BeforeStore,
           to \in BeforeSend => from \in BeforeSend,
           to = "complete" => kind[MessageOf(w)] = "voice"
    PROVE  Inv'
<1>1. /\ Goes(w, to) /\ pc[w] = from
      /\ target' = [target EXCEPT ![w] = target[w]] /\ reply' = [reply EXCEPT ![w] = reply[w]]
      /\ target[w] \in SetId \cup {NoSet} /\ reply[w] \in {"none", "set", "text"}
    BY DEF Step, GoTo, Goes, Inv, TypeOK
<1>2. /\ UNCHANGED <<jobVars, customerVars, recommendation, selection, chosen, reports>>
      /\ demand' \subseteq Message /\ losses' \in Nat
    BY DEF Step, stateVars, Inv, TypeOK
<1> QED
    BY <1>1, <1>2, MoveInv

\* The call ends, with the rows as they are.
LEMMA RaiseInv ==
    ASSUME Inv, NEW w \in Worker, pc[w] # "idle", Raise(w), losses' \in Nat
    PROVE  Inv'
<1>1. /\ Goes(w, "idle") /\ target' = [target EXCEPT ![w] = NoSet]
      /\ reply' = [reply EXCEPT ![w] = "none"]
    BY DEF Raise, Leave, GoTo, Goes
<1>2. /\ UNCHANGED <<jobVars, customerVars, recommendation, selection, chosen, reports>>
      /\ demand' \subseteq Message
    BY DEF Raise, stateVars, Inv, TypeOK
<1>3. "idle" \in Phase /\ "idle" \notin BeforeSend
    BY DEF Phase, BeforeSend, BeforeStore
<1> QED
    BY <1>1, <1>2, <1>3, MoveInv DEF BeforeSend

LEMMA BreakOffInv ==
    ASSUME Inv, NEW w \in Worker, BreakOff(w)
    PROVE  Inv'
BY RaiseInv DEF BreakOff, Inv, TypeOK

LEMMA DispatchInv ==
    ASSUME Inv, NEW w \in Worker, Dispatch(w)
    PROVE  Inv'
<1> USE DEF Phase, BeforeSend, BeforeStore
<1>1. CASE Step(w, "dispatch", "release") \/ Step(w, "dispatch", "extract")
           \/ Step(w, "dispatch", "lookup")
    BY <1>1, StepInv
<1>2. CASE kind[MessageOf(w)] = "voice" /\ Step(w, "dispatch", "complete")
    BY <1>2, StepInv
<1>3. CASE pc[w] = "dispatch" /\ Raise(w) /\ UNCHANGED losses
    BY <1>3, RaiseInv DEF Inv, TypeOK
<1> QED
    BY <1>1, <1>2, <1>3 DEF Dispatch

LEMMA LookupInv ==
    ASSUME Inv, NEW w \in Worker, Lookup(w)
    PROVE  Inv'
<1> USE DEF Phase, BeforeSend, BeforeStore
<1>1. CASE Step(w, "lookup", "extract") \/ Step(w, "lookup", "fail")
    BY <1>1, StepInv
<1>2. ASSUME NEW s \in Active, pc[w] = "lookup",
             UNCHANGED <<jobVars, customerVars, stateVars, current, reports, losses>>,
             IF kind[MessageOf(w)] = "choice"
             THEN /\ target' = [target EXCEPT ![w] = s]
                  /\ GoTo(w, "mark")
                  /\ UNCHANGED reply
             ELSE /\ reply' = [reply EXCEPT ![w] = "text"]
                  /\ GoTo(w, "send")
                  /\ UNCHANGED target
      PROVE  Inv'
    <2>1. /\ target' = [target EXCEPT ![w] = target'[w]]
          /\ reply' = [reply EXCEPT ![w] = reply'[w]]
          /\ target'[w] \in SetId \cup {NoSet} /\ reply'[w] \in {"none", "set", "text"}
        BY <1>2 DEF Inv, TypeOK, Active
    <2>2. /\ UNCHANGED <<jobVars, customerVars, recommendation, selection, chosen, reports>>
          /\ demand' \subseteq Message /\ losses' \in Nat
        BY <1>2 DEF stateVars, Inv, TypeOK
    <2>3. CASE Goes(w, "mark") /\ target'[w] = s
        <3>1. s \in SetId /\ recommendation[s] # "absent"
            BY <1>2 DEF Active
        <3> QED
            BY <1>2, <2>1, <2>2, <2>3, <3>1, MoveInv
    <2>4. CASE Goes(w, "send")
        BY <1>2, <2>1, <2>2, <2>4, MoveInv
    <2> QED
        BY <1>2, <2>3, <2>4 DEF Goes, GoTo, Inv, TypeOK, Active
<1> QED
    BY <1>1, <1>2 DEF Lookup

LEMMA ExtractInv ==
    ASSUME Inv, NEW w \in Worker, Extract(w)
    PROVE  Inv'
<1> USE DEF Phase, BeforeSend, BeforeStore
<1>1. CASE Step(w, "extract", "search") \/ Step(w, "extract", "fail")
    BY <1>1, StepInv
<1>2. CASE /\ pc[w] = "extract"
           /\ reply' = [reply EXCEPT ![w] = "text"]
           /\ GoTo(w, "send")
           /\ UNCHANGED <<jobVars, customerVars, stateVars, current, target, reports, losses>>
    <2>1. /\ Goes(w, "send") /\ target' = [target EXCEPT ![w] = target[w]]
          /\ target[w] \in SetId \cup {NoSet}
          /\ UNCHANGED <<jobVars, customerVars, recommendation, selection, chosen, reports>>
          /\ demand' \subseteq Message /\ losses' \in Nat
        BY <1>2 DEF GoTo, Goes, stateVars, Inv, TypeOK
    <2> QED
        BY <1>2, <2>1, MoveInv
<1> QED
    BY <1>1, <1>2, BreakOffInv DEF Extract

LEMMA SearchInv ==
    ASSUME Inv, NEW w \in Worker, Search(w)
    PROVE  Inv'
BY StepInv, BreakOffInv DEF Search, Phase, BeforeSend, BeforeStore

LEMMA SupersedeInv ==
    ASSUME Inv, NEW w \in Worker, Supersede(w)
    PROVE  Inv'
<1> USE DEF Phase, BeforeSend, BeforeStore
<1>1. PICK s \in IF Active = {} THEN {NoSet} ELSE Active :
         /\ target' = [target EXCEPT ![w] = s]
         /\ GoTo(w, IF s \in LockedSets THEN "blocked" ELSE "insert")
    BY DEF Supersede
<1>2. s \in SetId \cup {NoSet} /\ (s = NoSet \/ s \in Active)
    BY <1>1 DEF Active
<1>3. /\ pc[w] = "supersede" /\ reply' = [reply EXCEPT ![w] = reply[w]]
      /\ reply[w] \in {"none", "set", "text"}
      /\ UNCHANGED <<jobVars, customerVars, recommendation, selection, chosen, reports, current>>
      /\ demand' \subseteq Message /\ losses' \in Nat
    BY DEF Supersede, stateVars, Inv, TypeOK
<1>4. CASE s \in LockedSets /\ Goes(w, "blocked")
    BY <1>1, <1>2, <1>3, <1>4, MoveInv
<1>5. CASE s \notin LockedSets /\ Goes(w, "insert")
    BY <1>1, <1>2, <1>3, <1>5, MoveInv
<1> QED
    BY <1>1, <1>3, <1>4, <1>5 DEF GoTo, Goes

LEMMA ResumeInv ==
    ASSUME Inv, NEW w \in Worker, Resume(w)
    PROVE  Inv'
<1> USE DEF Phase, BeforeSend, BeforeStore
<1> DEFINE s == IF target[w] \in Active THEN target[w] ELSE NoSet
<1>1. /\ target' = [target EXCEPT ![w] = s] /\ Goes(w, "insert")
    BY DEF Resume, GoTo, Goes, Inv, TypeOK
<1>2. s \in SetId \cup {NoSet} /\ (s = NoSet \/ (s \in Active /\ s \notin LockedSets))
    BY DEF Active, Resume
<1>3. /\ pc[w] = "blocked" /\ reply' = [reply EXCEPT ![w] = reply[w]]
      /\ reply[w] \in {"none", "set", "text"}
      /\ UNCHANGED <<jobVars, customerVars, recommendation, selection, chosen, reports, current>>
      /\ demand' \subseteq Message /\ losses' \in Nat
    BY DEF Resume, stateVars, Inv, TypeOK
<1> HIDE DEF s
<1> QED
    BY <1>1, <1>2, <1>3, MoveInv

LEMMA PersistInv ==
    ASSUME Inv, NEW w \in Worker, PersistUnmetDemand(w)
    PROVE  Inv'
<1> USE DEF Phase, BeforeSend, BeforeStore
<1>1. CASE Step(w, "unmet", "fail")
    BY <1>1, StepInv
<1>2. CASE /\ pc[w] = "unmet"
           /\ demand' = demand \cup {MessageOf(w)}
           /\ reply' = [reply EXCEPT ![w] = "text"]
           /\ GoTo(w, "send")
           /\ UNCHANGED <<jobVars, customerVars, recommendation, selection, chosen, current, target,
                          reports, losses>>
    <2>1. /\ Goes(w, "send") /\ target' = [target EXCEPT ![w] = target[w]]
          /\ target[w] \in SetId \cup {NoSet} /\ losses' \in Nat
        BY <1>2 DEF GoTo, Goes, Inv, TypeOK
    <2>2. demand' \subseteq Message
        BY <1>2, BusyWorker DEF Inv, TypeOK
    <2> QED
        BY <1>2, <2>1, <2>2, MoveInv
<1> QED
    BY <1>1, <1>2 DEF PersistUnmetDemand

----------------------------------------------------------------------------
(* The steps that write sets.                                              *)

\* A set that exists and that nobody has locked is selected.
LEMMA MarkSelectedInv ==
    ASSUME Inv, NEW w \in Worker, MarkSelected(w)
    PROVE  Inv' /\ \A s \in SetId : recommendation[s] = "selected" => recommendation'[s] = "selected"
<1> USE DEF Phase, BeforeSend, BeforeStore
<1>1. CASE Step(w, "mark", "fail")
    BY <1>1, StepInv DEF Step, stateVars
<1>2. CASE /\ pc[w] = "mark"
           /\ target[w] \notin LockedSets
           /\ recommendation' = [recommendation EXCEPT ![target[w]] = "selected"]
           /\ selection' = [selection EXCEPT ![target[w]] = current[w]]
           /\ chosen' = [chosen EXCEPT ![MessageOf(w)] = target[w]]
           /\ target' = [target EXCEPT ![w] = NoSet]
           /\ reply' = [reply EXCEPT ![w] = "text"]
           /\ GoTo(w, "send")
           /\ UNCHANGED <<jobVars, customerVars, demand, current, reports, losses>>
    <2> USE <1>2 DEF jobVars, customerVars
    <2>1. /\ Goes(w, "send") /\ MessageOf(w) \in Message /\ current[w] \in SetId
          /\ target[w] \in SetId /\ recommendation[target[w]] # "absent"
        BY BusyWorker DEF GoTo, Goes, Inv, Sets
    <2>2. TypeOK'
        BY <2>1, SetIdFacts DEF Inv, TypeOK, JobTypeOK, Goes
    <2>3. Claims'
        BY <2>1, ClaimsGo
    <2>4. /\ \A s \in SetId : recommendation'[s] = IF s = target[w] THEN "selected"
                                                  ELSE recommendation[s]
          /\ Active' \subseteq Active
        BY <2>1 DEF Active, Inv, TypeOK
    <2>5. Sets'
        <3>1. /\ pc \in [Worker -> Phase] /\ target \in [Worker -> SetId \cup {NoSet}]
              /\ pc'[w] = "send"
              /\ \A v \in Worker : v # w => pc'[v] = pc[v] /\ target'[v] = target[v]
            BY <2>1 DEF Inv, TypeOK, Goes
        <3>2. \A s \in SetId : recommendation'[s] # "absent" => s.attempt <= attempts'[s.message]
            BY <2>1, <2>4 DEF Inv, Sets
        <3>3. ASSUME NEW v \in Worker, v # w
              PROVE  /\ pc[v] \in BeforeStore => recommendation'[current[v]] = "absent"
                     /\ pc[v] = "mark" => recommendation'[target[v]] # "absent"
                     /\ pc[v] = "insert" => target[v] = NoSet \/ target[v] \in Active'
            <4>1. pc[v] \in BeforeStore => current[v] \in SetId
                  /\ recommendation[current[v]] = "absent"
                BY BusyWorker DEF Inv, Sets
            <4>2. pc[v] = "mark" => target[v] \in SetId /\ recommendation[target[v]] # "absent"
                BY DEF Inv, Sets
            <4>3. ASSUME pc[v] = "insert", target[v] # NoSet PROVE target[v] \in Active'
                <5>1. target[v] \in LockedSets /\ target[v] \in Active
                    BY <4>3 DEF LockedSets, Inv, Sets
                <5> QED
                    BY <2>4, <5>1 DEF Active
            <4> QED
                BY <2>1, <2>4, <4>1, <4>2, <4>3
        <3> QED
            BY <3>1, <3>2, <3>3 DEF Inv, Sets
    <2>6. OneActive'
        BY <2>4 DEF Inv, OneActive
    <2>7. Answers'
        BY <2>1, AnswersGo
    <2>8. Reports' /\ Order'
        BY DEF Inv, Reports, Order
    <2> QED
        BY <2>2, <2>3, <2>4, <2>5, <2>6, <2>7, <2>8 DEF Inv
<1> QED
    BY <1>1, <1>2 DEF MarkSelected

\* The row that was locked is superseded, the new row is active alone.
LEMMA InsertSetInv ==
    ASSUME Inv, NEW w \in Worker, InsertSet(w)
    PROVE  Inv' /\ \A s \in SetId : recommendation[s] = "selected" => recommendation'[s] = "selected"
<1> USE DEF Phase, BeforeSend, BeforeStore
<1>0. UNCHANGED <<jobVars, customerVars, selection, chosen, demand, current, reports, losses>>
    BY DEF InsertSet
<1>1. CASE /\ pc[w] = "insert" /\ target' = [target EXCEPT ![w] = NoSet] /\ GoTo(w, "fail")
           /\ UNCHANGED <<recommendation, reply>>
    <2>1. /\ Goes(w, "fail") /\ reply' = [reply EXCEPT ![w] = reply[w]]
          /\ reply[w] \in {"none", "set", "text"}
          /\ demand' \subseteq Message /\ losses' \in Nat
        BY <1>0, <1>1 DEF GoTo, Goes, Inv, TypeOK
    <2> QED
        BY <1>0, <1>1, <2>1, MoveInv
<1>2. CASE /\ pc[w] = "insert"
           /\ ~ViolatesUniqueActive(w)
           /\ recommendation' = [s \in SetId |->
                 IF s = target[w] THEN "superseded"
                 ELSE IF s = current[w] THEN "active"
                 ELSE recommendation[s]]
           /\ target' = [target EXCEPT ![w] = NoSet]
           /\ reply' = [reply EXCEPT ![w] = "set"]
           /\ GoTo(w, "send")
    <2> USE <1>0, <1>2 DEF jobVars, customerVars
    <2>1. /\ Goes(w, "send") /\ MessageOf(w) \in Message /\ current[w] \in SetId
          /\ recommendation[current[w]] = "absent"
          /\ target[w] = NoSet \/ target[w] \in Active
          /\ current[w].attempt <= attempts[current[w].message]
        BY BusyWorker DEF GoTo, Goes, Inv, Sets, Claims, MessageOf
    <2>2. TypeOK'
        BY <2>1 DEF Inv, TypeOK, JobTypeOK, Goes
    <2>3. Claims'
        BY <2>1, ClaimsGo
    <2>4. Active \subseteq {target[w]} /\ Active' \subseteq {current[w]} /\ current[w] # target[w]
        BY <2>1, SetIdFacts DEF ViolatesUniqueActive, Active
    <2>5. Sets'
        <3>1. /\ pc \in [Worker -> Phase] /\ target \in [Worker -> SetId \cup {NoSet}]
              /\ pc'[w] = "send"
              /\ \A v \in Worker : v # w => pc'[v] = pc[v] /\ target'[v] = target[v]
            BY <2>1 DEF Inv, TypeOK, Goes
        <3>2. ASSUME NEW s \in SetId, recommendation'[s] # "absent"
              PROVE  s.attempt <= attempts'[s.message]
            <4>1. s = current[w] \/ recommendation[s] # "absent"
                BY <2>1, <3>2, SetIdFacts DEF Active
            <4>2. recommendation[s] # "absent" => s.attempt <= attempts[s.message]
                BY DEF Inv, Sets
            <4> QED
                BY <2>1, <4>1, <4>2
        <3>3. ASSUME NEW v \in Worker, v # w
              PROVE  /\ pc[v] \in BeforeStore => recommendation'[current[v]] = "absent"
                     /\ pc[v] = "mark" => recommendation'[target[v]] # "absent"
                     /\ pc[v] = "insert" => target[v] = NoSet
            <4>1. ASSUME pc[v] \in BeforeStore PROVE recommendation'[current[v]] = "absent"
                <5>1. /\ current[v] \in SetId /\ recommendation[current[v]] = "absent"
                      /\ current[v] # current[w]
                    BY <4>1, BusyWorker, <3>3 DEF Inv, Sets, Claims
                <5>2. current[v] # target[w]
                    BY <2>1, <5>1, SetIdFacts DEF Active
                <5> QED
                    BY <5>1, <5>2
            <4>2. ASSUME pc[v] = "mark" PROVE recommendation'[target[v]] # "absent"
                <5>1. target[v] \in SetId /\ recommendation[target[v]] # "absent"
                    BY <4>2 DEF Inv, Sets
                <5> QED
                    BY <5>1
            <4>3. ASSUME pc[v] = "insert" PROVE target[v] = NoSet
                <5>1. target[v] = NoSet \/ target[v] = target[w]
                    BY <2>4, <4>3 DEF Inv, Sets
                <5> QED
                    BY <3>3, <4>3, <5>1 DEF Inv, Sets
            <4> QED
                BY <4>1, <4>2, <4>3
        <3>4. ASSUME NEW v \in Worker
              PROVE  /\ pc'[v] \in BeforeStore => recommendation'[current'[v]] = "absent"
                     /\ pc'[v] = "mark" =>
                            target'[v] \in SetId /\ recommendation'[target'[v]] # "absent"
                     /\ pc'[v] = "insert" => target'[v] = NoSet \/ target'[v] \in Active'
            <4>1. CASE v = w
                BY <3>1, <4>1
            <4>2. CASE v # w
                <5>1. pc[v] = "mark" => target[v] \in SetId
                    BY DEF Inv, Sets
                <5> QED
                    BY <3>1, <3>3, <4>2, <5>1
            <4> QED
                BY <4>1, <4>2
        <3>5. ASSUME NEW u \in Worker, NEW v \in Worker, pc'[u] = "insert"
              PROVE  target'[u] = NoSet
            BY <3>1, <3>3, <3>5
        <3> QED
            BY <3>2, <3>4, <3>5 DEF Sets
    <2>6. OneActive'
        BY <2>4 DEF OneActive
    <2>7. Answers'
        BY <2>1, AnswersGo
    <2>8. Reports' /\ Order'
        BY DEF Inv, Reports, Order
    <2>9. \A s \in SetId : recommendation[s] = "selected" => recommendation'[s] = "selected"
        BY <2>1, SetIdFacts DEF Active
    <2> QED
        BY <2>2, <2>3, <2>5, <2>6, <2>7, <2>8, <2>9 DEF Inv
<1> QED
    BY <1>1, <1>2 DEF InsertSet

----------------------------------------------------------------------------
(* The steps that send, and those that change the job.                     *)

\* An answer is sent by a claim that has sent none.
LEMMA SendInv ==
    ASSUME Inv, NEW w \in Worker, Send(w)
    PROVE  Inv'
<1> USE DEF Phase, BeforeSend, BeforeStore
<1>1. CASE Step(w, "send", "fail")
    BY <1>1, StepInv
<1>2. ASSUME NEW to \in {"complete", "fail"}, pc[w] = "send", Deliver(w), GoTo(w, to),
             UNCHANGED <<jobVars, stateVars, current, target, reply, reports, losses>>
      PROVE  Inv'
    <2> USE <1>2 DEF jobVars, stateVars
    <2>1. /\ Goes(w, to) /\ MessageOf(w) \in Message /\ current[w] \in SetId
          /\ sent' = [sent EXCEPT ![MessageOf(w)] = @ + 1] /\ UNCHANGED <<kind, replyTo>>
        BY BusyWorker DEF GoTo, Goes, Deliver
    <2>2. TypeOK'
        <3>1. shown' \in SetId \cup {NoSet}
            BY <2>1 DEF Deliver, Inv, TypeOK
        <3> QED
            BY <2>1, <3>1 DEF Inv, TypeOK, JobTypeOK, Goes
    <2>3. Claims'
        BY <2>1, ClaimsGo
    <2>4. Sets'
        <3>1. target' = [target EXCEPT ![w] = target[w]] /\ target[w] \in SetId \cup {NoSet}
            BY DEF Inv, TypeOK
        <3> QED
            BY <2>1, <3>1, SetsGo
    <2>5. OneActive' /\ Reports' /\ Order'
        BY DEF Inv, OneActive, Active, Reports, Order
    <2>6. Answers'
        <3>1. /\ pc \in [Worker -> Phase] /\ sent \in [Message -> Nat]
              /\ attempts \in [Message -> Nat]
              /\ pc'[w] = to /\ current' = current
              /\ \A v \in Worker : v # w => pc'[v] = pc[v]
            BY <2>1 DEF Inv, TypeOK, JobTypeOK, Goes
        <3>2. /\ sent'[MessageOf(w)] = sent[MessageOf(w)] + 1
              /\ \A m \in Message : m # MessageOf(w) => sent'[m] = sent[m]
              /\ \A m \in Message : sent'[m] >= sent[m] /\ sent'[m] \in Nat
            BY <2>1, <3>1
        <3>3. ASSUME NEW m \in Message
              PROVE  sent'[m] + Cardinality(Unsent(m)') <= attempts'[m]
            <4>1. IsFiniteSet(Unsent(m)) /\ Cardinality(Unsent(m)) \in Nat
                BY FS_Subset, FS_CardinalityType DEF Unsent
            <4>2. Unsent(m)' = Unsent(m) \ {w}
                BY <3>1 DEF Unsent, MessageOf
            <4>3. w \in Unsent(m) <=> m = MessageOf(w)
                BY DEF Unsent
            <4>4. Cardinality(Unsent(m)') = IF m = MessageOf(w) THEN Cardinality(Unsent(m)) - 1
                                            ELSE Cardinality(Unsent(m))
                <5>1. Cardinality(Unsent(m) \ {w}) =
                          IF w \in Unsent(m) THEN Cardinality(Unsent(m)) - 1
                          ELSE Cardinality(Unsent(m))
                    BY ONLY <4>1, FS_RemoveElement
                <5> QED
                    BY <4>2, <4>3, <5>1
            <4>5. sent[m] + Cardinality(Unsent(m)) <= attempts[m]
                BY DEF Inv, Answers
            <4> QED
                BY <3>1, <3>2, <4>1, <4>4, <4>5
        <3>4. ASSUME NEW v \in Worker, pc'[v] = "complete", kind'[MessageOf(v)'] # "voice"
              PROVE  sent'[MessageOf(v)'] >= 1
            <4>1. CASE v = w
                BY <3>1, <3>2, <4>1, <2>1 DEF MessageOf
            <4>2. CASE v # w
                <5>1. /\ MessageOf(v) \in Message /\ sent[MessageOf(v)] >= 1
                      /\ MessageOf(v)' = MessageOf(v)
                    BY <2>1, <3>1, <3>4, <4>2, BusyWorker DEF Inv, Answers, MessageOf
                <5> QED
                    BY <3>1, <3>2, <5>1
            <4> QED
                BY <4>1, <4>2
        <3>5. ASSUME NEW m \in Message, status'[m] = "completed", kind'[m] # "voice"
              PROVE  sent'[m] >= 1
            <4>1. sent[m] >= 1
                BY <2>1, <3>5 DEF Inv, Answers
            <4> QED
                BY <3>1, <3>2, <4>1
        <3> QED
            BY <3>3, <3>4, <3>5 DEF Answers
    <2> QED
        BY <2>2, <2>3, <2>4, <2>5, <2>6 DEF Inv
<1> QED
    BY <1>1, <1>2 DEF Send

\* A transition of the job by the claim that owns it; the call ends.
LEMMA TransitionInv ==
    ASSUME Inv, NEW w \in Worker, pc[w] # "idle", NEW outcome \in Outcome, Finish(w, outcome),
           OwnsClaim(current[w]), NEW s \in {"pending", "completed", "failed"},
           status' = [status EXCEPT ![MessageOf(w)] = s], ripe' \in [Message -> BOOLEAN],
           UNCHANGED <<attempts, customerVars, stateVars>>,
           s = "completed" => pc[w] = "complete",
           s = "completed" <=> outcome = "completed",
           \A n \in Message \ {MessageOf(w)} : ripe'[n] = ripe[n], UNCHANGED overtook,
           \/ JoinTheEnd(MessageOf(w))
           \/ UNCHANGED earlier /\ (s # "pending" \/ ~ripe'[MessageOf(w)])
    PROVE  Inv'
<1> USE DEF customerVars, stateVars
<1>1. /\ Goes(w, "idle") /\ MessageOf(w) \in Message /\ current[w] \in Claim
      /\ status \in [Message -> {"absent", "pending", "processing", "completed", "failed"}]
    BY BusyWorker DEF GoTo, Goes, Finish, Leave, Inv, TypeOK, JobTypeOK
<1>2. \A m \in Message : status'[m] = IF m = MessageOf(w) THEN s ELSE status[m]
    BY <1>1
<1>9. Order' /\ earlier' \in [Message -> SUBSET Message]
    <2>1. status[MessageOf(w)] # "pending"
        BY DEF OwnsClaim, MessageOf
    <2> QED
        BY <1>1, <1>2, <2>1, OrderGo
<1>3. TypeOK'
    BY <1>1, <1>9 DEF Inv, TypeOK, JobTypeOK, Finish, Leave, GoTo, Phase
<1>4. Claims'
    BY <1>1, <1>2, ClaimsGo
<1>5. Sets'
    BY <1>1, SetsGo DEF Finish, Leave, BeforeStore
<1>6. OneActive'
    BY DEF Inv, OneActive, Active
<1>7. Answers'
    BY <1>1, <1>2, AnswersGo DEF BeforeSend, BeforeStore
<1>8. Reports'
    <2> SUFFICES ASSUME NEW r \in reports', r.outcome = "completed"
                 PROVE  /\ status'[r.claim.message] = "completed"
                        /\ attempts'[r.claim.message] = r.claim.attempt
        BY DEF Reports
    <2>1. CASE r \in reports
        <3>1. status[r.claim.message] = "completed" /\ attempts[r.claim.message] = r.claim.attempt
              /\ r.claim.message \in Message
            BY <2>1 DEF Inv, Reports, TypeOK, Claim
        <3>2. r.claim.message # MessageOf(w)
            BY <3>1 DEF OwnsClaim, MessageOf
        <3> QED
            BY <1>2, <3>1, <3>2
    <2>2. CASE r = [claim |-> current[w], outcome |-> outcome]
        BY <1>1, <1>2, <2>2 DEF OwnsClaim, MessageOf
    <2> QED
        BY <2>1, <2>2 DEF Finish
<1> QED
    BY <1>3, <1>4, <1>5, <1>6, <1>7, <1>8, <1>9 DEF Inv

LEMMA EndInv ==
    ASSUME Inv, NEW w \in Worker, Complete(w) \/ Release(w) \/ Fail(w)
    PROVE  Inv'
<1>0. /\ UNCHANGED <<customerVars, stateVars>> /\ pc[w] # "idle"
      /\ MessageOf(w) \in Message /\ ripe \in [Message -> BOOLEAN]
    BY BusyWorker DEF Complete, Release, Fail, Raise, Inv, TypeOK, JobTypeOK
<1>1. CASE Raise(w) /\ UNCHANGED losses
    BY <1>0, <1>1, RaiseInv DEF Inv, TypeOK
<1>2. CASE pc[w] = "complete" /\ OwnsClaim(current[w]) /\ CompleteJob(MessageOf(w))
           /\ Finish(w, "completed")
    <2>1. ripe' \in [Message -> BOOLEAN]
        BY <1>2 DEF CompleteJob, Inv, TypeOK, JobTypeOK
    <2> QED
        BY <1>0, <1>2, <2>1, TransitionInv DEF CompleteJob, Outcome
<1>3. CASE OwnsClaim(current[w]) /\ ReleaseJob(MessageOf(w)) /\ Finish(w, "released")
    <2>1. /\ ripe' \in [Message -> BOOLEAN]
          /\ \A n \in Message \ {MessageOf(w)} : ripe'[n] = ripe[n]
        BY <1>0, <1>3 DEF ReleaseJob
    <2> QED
        BY <1>0, <1>3, <2>1, TransitionInv DEF ReleaseJob, Outcome
<1>4. CASE OwnsClaim(current[w]) /\ FailJob(MessageOf(w))
           /\ Finish(w, FailureResult(MessageOf(w)))
    <2>1. /\ ripe' \in [Message -> BOOLEAN] /\ ~ripe'[MessageOf(w)]
          /\ \A n \in Message \ {MessageOf(w)} : ripe'[n] = ripe[n]
        BY <1>0, <1>4 DEF FailJob
    <2>2. /\ FailureOutcome(MessageOf(w)) \in {"pending", "failed"}
          /\ FailureResult(MessageOf(w)) \in {"retry", "dead"}
        BY DEF FailureOutcome, FailureResult
    <2>3. /\ status' = [status EXCEPT ![MessageOf(w)] = FailureOutcome(MessageOf(w))]
          /\ UNCHANGED <<attempts, earlier, overtook>>
        BY <1>4 DEF FailJob
    <2> QED
        BY <1>0, <1>4, <2>1, <2>2, <2>3, TransitionInv DEF Outcome
<1> QED
    BY <1>1, <1>2, <1>3, <1>4 DEF Complete, Release, Fail

\* Nobody holds a claim of a message that has not arrived.
LEMMA ReceiveInv ==
    ASSUME Inv, NEW m \in Message, NEW k \in Kinds, Receive(m, k)
    PROVE  Inv'
<1>0. /\ status[m] = "absent" /\ status' = [status EXCEPT ![m] = "pending"]
      /\ kind' = [kind EXCEPT ![m] = k] /\ ripe' = [ripe EXCEPT ![m] = TRUE]
      /\ UNCHANGED <<attempts, sent, stateVars, workerVars, reports, losses>>
      /\ replyTo' \in [Message -> SetId \cup {NoSet}] /\ shown' \in SetId \cup {NoSet}
      /\ status \in [Message -> {"absent", "pending", "processing", "completed", "failed"}]
      /\ kind \in [Message -> Kinds \cup {"none"}] /\ ripe \in [Message -> BOOLEAN]
      /\ JoinTheEnd(m) /\ UNCHANGED overtook
    BY DEF Receive, InsertJob, Inv, TypeOK, JobTypeOK
<1>7. Order' /\ earlier' \in [Message -> SUBSET Message]
    BY <1>0, OrderGo
<1> USE <1>0 DEF stateVars, workerVars
<1>1. TypeOK'
    BY <1>7 DEF Inv, TypeOK, JobTypeOK
<1>2. \A n \in Message : /\ status'[n] = IF n = m THEN "pending" ELSE status[n]
                         /\ n # m => kind'[n] = kind[n]
    OBVIOUS
<1>3. Claims'
    BY <1>2, BusyWorker DEF Inv, Claims, MessageOf
<1>4. Sets' /\ OneActive'
    BY DEF Inv, Sets, OneActive, Active
<1>5. Answers'
    <2>1. \A v \in Worker : pc[v] = "complete" => MessageOf(v) \in Message /\ MessageOf(v) # m
        BY BusyWorker
    <2>2. \A n \in Message : Unsent(n)' = Unsent(n)
        BY DEF Unsent, MessageOf
    <2> QED
        BY <1>2, <2>1, <2>2 DEF Inv, Answers, MessageOf
<1>6. Reports'
    <2>1. \A r \in reports : r.claim.message \in Message
        BY DEF Inv, TypeOK, Claim
    <2> QED
        BY <1>2, <2>1 DEF Inv, Reports
<1> QED
    BY <1>1, <1>3, <1>4, <1>5, <1>6, <1>7 DEF Inv

\* The job that is claimed does not wait; it has overtaken jobs that do.
LEMMA ClaimKeepsOrder ==
    ASSUME Inv, NEW w \in Worker, NEW m \in Message, ClaimJob(w, m)
    PROVE  Order' /\ overtook' \in [Message -> SUBSET Message]
<1>1. /\ \A n \in Message : n # m => status'[n] = status[n] /\ ripe'[n] = ripe[n]
      /\ status'[m] = "processing" /\ UNCHANGED earlier
      /\ overtook \in [Message -> SUBSET Message] /\ Order
    BY DEF ClaimJob, ClaimOneJob, Inv, TypeOK, JobTypeOK
<1>2. /\ overtook' \in [Message -> SUBSET Message] /\ overtook'[m] = {}
      /\ \A n \in Message \ {m} :
            /\ overtook'[n] \subseteq overtook[n] \cup {m}
            /\ overtook'[n] # {} => overtook[n] # {} \/ Waits(n)
    BY <1>1 DEF ClaimJob, ClaimOneJob
<1>3. ASSUME NEW n \in Message, overtook'[n] # {}
      PROVE  status'[n] = "pending" /\ ripe'[n]
    BY <1>1, <1>2, <1>3 DEF Order, Waits, Due
<1>4. ASSUME NEW n \in Message, NEW k \in overtook'[n], status'[k] = "pending", ripe'[k]
      PROVE  n \in earlier'[k]
    BY <1>1, <1>2, <1>4 DEF Order
<1> QED
    BY <1>2, <1>3, <1>4 DEF Order

\* A new claim counts one more attempt than any before.
LEMMA ClaimInv ==
    ASSUME Inv, NEW w \in Worker, NEW m \in Message, ClaimJob(w, m)
    PROVE  Inv'
<1> DEFINE c == ClaimedJob(m)
<1>0. /\ pc[w] = "idle" /\ status[m] \in {"pending", "processing"} /\ attempts[m] < MaxClaims
      /\ status' = [status EXCEPT ![m] = "processing"]
      /\ attempts' = [attempts EXCEPT ![m] = attempts[m] + 1]
      /\ ripe' = [ripe EXCEPT ![m] = FALSE]
      /\ current' = [current EXCEPT ![w] = c] /\ pc' = [pc EXCEPT ![w] = "dispatch"]
      /\ UNCHANGED <<customerVars, stateVars, target, reply, reports, losses, earlier>>
    BY DEF ClaimJob, ClaimOneJob, Due, GoTo, Inv, TypeOK, JobTypeOK
<1> USE <1>0 DEF customerVars, stateVars
<1>1. /\ status \in [Message -> {"absent", "pending", "processing", "completed", "failed"}]
      /\ attempts \in [Message -> Nat] /\ sent \in [Message -> Nat]
      /\ pc \in [Worker -> Phase] /\ current \in [Worker -> Claim \cup {NoClaim}]
    BY DEF Inv, TypeOK, JobTypeOK
<1>2. c \in SetId /\ c.message = m /\ c.attempt = attempts[m] + 1 /\ c \in Claim
    BY <1>1, SetIdFacts DEF ClaimedJob, SetId
<1> HIDE DEF c
<1>3. /\ pc'[w] = "dispatch" /\ current'[w] = c
      /\ \A v \in Worker : v # w => pc'[v] = pc[v] /\ current'[v] = current[v]
      /\ \A n \in Message : /\ attempts'[n] = IF n = m THEN attempts[n] + 1 ELSE attempts[n]
                            /\ attempts'[n] >= attempts[n]
                            /\ status'[n] = IF n = m THEN "processing" ELSE status[n]
    BY <1>1
<1>11. Order' /\ overtook' \in [Message -> SUBSET Message]
    BY ClaimKeepsOrder
<1>4. TypeOK'
    <2>1. JobTypeOK'
        BY <1>1, <1>11 DEF Inv, TypeOK, JobTypeOK
    <2>2. current' \in [Worker -> Claim \cup {NoClaim}] /\ pc' \in [Worker -> Phase]
        BY <1>1, <1>2 DEF Phase
    <2> QED
        BY <2>1, <2>2 DEF Inv, TypeOK
<1>5. Claims'
    <2>1. ASSUME NEW v \in Worker, v # w, pc[v] # "idle"
          PROVE  /\ current[v] \in SetId /\ current[v].attempt <= attempts[MessageOf(v)]
                 /\ current[v].attempt <= attempts'[MessageOf(v)] /\ current[v] # c
                 /\ status'[MessageOf(v)] # "absent"
        <3>1. /\ current[v] \in SetId /\ current[v].attempt <= attempts[MessageOf(v)]
              /\ MessageOf(v) \in Message /\ status[MessageOf(v)] # "absent"
              /\ current[v].attempt \in Nat
            BY <2>1, BusyWorker, SetIdFacts DEF Inv, Claims
        <3>2. current[v] # c
            BY <1>1, <1>2, <3>1 DEF MessageOf
        <3>3. current[v].attempt <= attempts'[MessageOf(v)]
            BY <1>1, <1>3, <3>1
        <3> QED
            BY <1>3, <3>1, <3>2, <3>3
    <2>2. ASSUME NEW v \in Worker
          PROVE  IF pc'[v] = "idle" THEN current'[v] = NoClaim
                 ELSE /\ current'[v] \in SetId
                      /\ current'[v].attempt <= attempts'[current'[v].message]
                      /\ status'[current'[v].message] # "absent"
        <3>1. CASE v = w
            BY <1>1, <1>2, <1>3, <3>1
        <3>2. CASE v # w
            BY <1>3, <2>1, <3>2 DEF Inv, Claims, MessageOf
        <3> QED
            BY <3>1, <3>2
    <2>3. ASSUME NEW u \in Worker, NEW v \in Worker, pc'[u] # "idle", current'[u] = current'[v]
          PROVE  u = v
        <3>1. CASE u = w /\ v # w
            <4>1. current[v] = c
                BY <1>3, <2>3, <3>1
            <4>2. pc[v] # "idle"
                BY <1>2, <4>1, SetIdFacts DEF Inv, Claims
            <4> QED
                BY <2>1, <3>1, <4>1, <4>2
        <3>2. CASE u # w /\ v = w
            BY <1>3, <2>1, <2>3, <3>2
        <3>3. CASE u # w /\ v # w
            BY <1>3, <2>3, <3>3 DEF Inv, Claims
        <3> QED
            BY <3>1, <3>2, <3>3
    <2> QED
        BY <2>2, <2>3 DEF Claims, MessageOf
<1>6. recommendation[c] = "absent"
    BY <1>1, <1>2 DEF Inv, Sets
<1>7. Sets'
    <2>1. \A s \in SetId : recommendation'[s] # "absent" => s.attempt <= attempts'[s.message]
        <3> SUFFICES ASSUME NEW s \in SetId, recommendation[s] # "absent"
                     PROVE  s.attempt <= attempts'[s.message]
            OBVIOUS
        <3>1. s.attempt <= attempts[s.message] /\ s.message \in Message /\ s.attempt \in Nat
            BY SetIdFacts DEF Inv, Sets
        <3> QED
            BY <1>1, <1>3, <3>1
    <2>2. Active' = Active
        BY DEF Active
    <2>3. ASSUME NEW v \in Worker
          PROVE  /\ pc'[v] \in BeforeStore => recommendation'[current'[v]] = "absent"
                 /\ pc'[v] = "mark" => target'[v] \in SetId /\ recommendation'[target'[v]] # "absent"
                 /\ pc'[v] = "insert" => target'[v] = NoSet \/ target'[v] \in Active'
        BY <1>3, <1>6, <2>2 DEF Inv, Sets
    <2>4. ASSUME NEW u \in Worker, NEW v \in Worker, pc'[u] = "insert", pc'[v] = "insert",
                 target'[u] = target'[v]
          PROVE  u = v \/ target'[u] = NoSet
        BY <1>3, <2>4 DEF Inv, Sets
    <2> QED
        BY <2>1, <2>3, <2>4 DEF Sets
<1>8. OneActive'
    BY DEF Inv, OneActive, Active
<1>9. Answers'
    <2>1. ASSUME NEW n \in Message
          PROVE  sent'[n] + Cardinality(Unsent(n)') <= attempts'[n]
        <3>1. IsFiniteSet(Unsent(n)) /\ Cardinality(Unsent(n)) \in Nat
            BY FS_Subset, FS_CardinalityType DEF Unsent
        <3>2. w \notin Unsent(n)
            BY DEF Unsent, BeforeSend, BeforeStore
        <3>3. Unsent(n)' = IF n = m THEN Unsent(n) \cup {w} ELSE Unsent(n)
            BY <1>2, <1>3, <3>2 DEF Unsent, BeforeSend, BeforeStore, MessageOf
        <3>4. Cardinality(Unsent(n)') = IF n = m THEN Cardinality(Unsent(n)) + 1
                                        ELSE Cardinality(Unsent(n))
            BY <3>1, <3>2, <3>3, FS_AddElement
        <3>5. sent[n] + Cardinality(Unsent(n)) <= attempts[n]
            BY DEF Inv, Answers
        <3> QED
            BY <1>1, <1>3, <3>1, <3>4, <3>5
    <2>2. ASSUME NEW v \in Worker, pc'[v] = "complete", kind'[MessageOf(v)'] # "voice"
          PROVE  sent'[MessageOf(v)'] >= 1
        BY <1>3, <2>2 DEF Inv, Answers, MessageOf
    <2>3. ASSUME NEW n \in Message, status'[n] = "completed", kind'[n] # "voice"
          PROVE  sent'[n] >= 1
        BY <1>3, <2>3 DEF Inv, Answers
    <2> QED
        BY <2>1, <2>2, <2>3 DEF Answers
<1>10. Reports'
    <2> SUFFICES ASSUME NEW r \in reports, r.outcome = "completed"
                 PROVE  /\ status'[r.claim.message] = "completed"
                        /\ attempts'[r.claim.message] = r.claim.attempt
        BY DEF Reports
    <2>1. r.claim.message \in Message /\ status[r.claim.message] = "completed"
          /\ attempts[r.claim.message] = r.claim.attempt
        BY DEF Inv, TypeOK, Claim, Reports
    <2> QED
        BY <1>3, <2>1
<1> QED
    BY <1>4, <1>5, <1>7, <1>8, <1>9, <1>10, <1>11 DEF Inv

LEMMA ClockInv ==
    ASSUME Inv, NEW m \in Message, ClockPasses(m)
    PROVE  Inv'
<1>4. Order' /\ earlier' \in [Message -> SUBSET Message]
    <2>1. /\ ~ripe[m] /\ UNCHANGED <<status, overtook>>
          /\ \A n \in Message \ {m} : ripe'[n] = ripe[n]
          /\ JoinTheEnd(m) \/ (UNCHANGED earlier /\ status'[m] # "pending")
        BY DEF ClockPasses, Ripen, Inv, TypeOK, JobTypeOK
    <2> QED
        BY <2>1, OrderGo
<1> USE DEF ClockPasses, Ripen, customerVars, stateVars, workerVars
<1>1. TypeOK'
    BY <1>4 DEF Inv, TypeOK, JobTypeOK
<1>2. Claims' /\ Sets' /\ OneActive'
    BY DEF Inv, Claims, Sets, OneActive, Active, MessageOf
<1>3. Answers' /\ Reports'
    <2>1. \A n \in Message : Unsent(n)' = Unsent(n)
        BY DEF Unsent, MessageOf
    <2> QED
        BY <2>1 DEF Inv, Answers, Reports, MessageOf
<1> QED
    BY <1>1, <1>2, <1>3, <1>4 DEF Inv

LEMMA StutterInv ==
    ASSUME Inv, UNCHANGED vars
    PROVE  Inv'
<1> USE DEF vars, jobVars, customerVars, stateVars, workerVars
<1>1. TypeOK'
    BY DEF Inv, TypeOK, JobTypeOK
<1>2. Claims' /\ Sets' /\ OneActive' /\ Order'
    BY DEF Inv, Claims, Sets, OneActive, Active, MessageOf, Order
<1>3. Answers' /\ Reports'
    <2>1. \A n \in Message : Unsent(n)' = Unsent(n)
        BY DEF Unsent, MessageOf
    <2> QED
        BY <2>1 DEF Inv, Answers, Reports, MessageOf
<1> QED
    BY <1>1, <1>2, <1>3 DEF Inv

LEMMA InitInv == Init => Inv
<1> SUFFICES ASSUME Init PROVE Inv
    OBVIOUS
<1> USE DEF Init, JobInit
<1>1. TypeOK
    BY DEF TypeOK, JobTypeOK, Phase
<1>2. Claims /\ Sets /\ OneActive /\ Reports /\ Order
    BY DEF Claims, Sets, OneActive, Active, Reports, BeforeStore, Order
<1>3. Answers
    <2>1. \A m \in Message : Unsent(m) = {}
        BY DEF Unsent, BeforeSend, BeforeStore
    <2>2. \A m \in Message : Cardinality(Unsent(m)) = 0
        BY ONLY <2>1, FS_EmptySet
    <2> QED
        BY <2>2 DEF Answers
<1> QED
    BY <1>1, <1>2, <1>3 DEF Inv

LEMMA NextInv ==
    ASSUME Inv, [Next]_vars
    PROVE  Inv'
BY ReceiveInv, ClaimInv, DispatchInv, LookupInv, MarkSelectedInv, ExtractInv, SearchInv,
   SupersedeInv, ResumeInv, InsertSetInv, PersistInv, SendInv, EndInv, BreakOffInv, ClockInv,
   StutterInv
DEF Next, Process

LEMMA Invariance == Spec => []Inv
<1>1. Init => Inv
    BY InitInv
<1>2. Inv /\ [Next]_vars => Inv'
    BY NextInv
<1> QED
    BY <1>1, <1>2, PTL DEF Spec

----------------------------------------------------------------------------
(* Theorems.                                                               *)

\* Types are kept; in particular a set is named after a claim that was granted
\* (whatsapp_echo.py:386, service.py:87).
THEOREM WorkerTypeCorrect == Spec => []TypeOK
<1>1. Inv => TypeOK
    BY DEF Inv
<1> QED
    BY <1>1, Invariance, PTL

\* However often jobs are released and retried, none is claimed from PENDING
\* twice while another one waits (jobs.py:113, jobs.py:201).
THEOREM NoOvertaking == Spec => WaitingJobsAreNotOvertaken
<1>1. ASSUME Inv, [Next]_vars, NEW m \in Message, NEW n \in Message, Waits(m), Waits(n),
             attempts'[m] # attempts[m]
      PROVE  m \notin overtook[n]
    <2>1. PICK w \in Worker, k \in Message : ClaimJob(w, k)
        BY <1>1
        DEF Next, Process, vars, jobVars, Receive, InsertJob, Dispatch, Step, Lookup,
            MarkSelected, Extract, Search, Supersede, Resume, InsertSet, PersistUnmetDemand,
            Send, Complete, CompleteJob, Release, ReleaseJob, Fail, FailJob, Raise, BreakOff,
            ClockPasses, Ripen
    <2>2. k = m
        BY <1>1, <2>1 DEF ClaimJob, ClaimOneJob, Inv, TypeOK, JobTypeOK
    <2>3. n \notin earlier[m]
        BY <1>1, <2>1, <2>2 DEF ClaimJob, ClaimOneJob, Waits
    <2> QED
        BY <1>1, <2>3 DEF Inv, Order, Waits, Due
<1>2. Inv /\ [Next]_vars =>
          [\A m, n \in Message :
              /\ Waits(m) /\ Waits(n) /\ m # n
              /\ attempts'[m] # attempts[m]
              => m \notin overtook[n]]_vars
    BY <1>1
<1> QED
    BY <1>2, Invariance, PTL DEF Spec, WaitingJobsAreNotOvertaken

\* Whatever workers die or lose their claims, a COMPLETED text was answered,
\* and no more often than the job was claimed (client.py:99, jobs.py:140).
THEOREM CompletedIsAnswered == Spec => []CompletedMeansAnswered
<1>1. Inv => CompletedMeansAnswered
    <2> SUFFICES ASSUME Inv, NEW m \in Message
                 PROVE  /\ status[m] = "completed" /\ kind[m] # "voice" => sent[m] >= 1
                        /\ sent[m] <= attempts[m]
        BY DEF CompletedMeansAnswered
    <2>1. sent[m] \in Nat /\ attempts[m] \in Nat
        BY DEF Inv, TypeOK, JobTypeOK
    <2>2. Cardinality(Unsent(m)) \in Nat
        BY FS_Subset, FS_CardinalityType DEF Unsent
    <2> QED
        BY <2>1, <2>2 DEF Inv, Answers
<1> QED
    BY <1>1, Invariance, PTL

\* Steps of a worker that leave the sets as they are, and look none of them up.
LEMMA NoLookupKeeps ==
    ASSUME Inv, NEW w \in Worker, UNCHANGED <<recommendation, selection>>,
           \A v \in Worker \ {w} :
               pc'[v] = pc[v] /\ target'[v] = target[v] /\ current'[v] = current[v],
           pc'[w] = "mark" => /\ target'[w] \in Active
                              /\ UNCHANGED current,
           NEW s \in SetId, recommendation[s] = "selected"
    PROVE  /\ recommendation'[s] = "selected" /\ UNCHANGED selection
           /\ Marking(s)' \subseteq Marking(s)
<1>1. ASSUME NEW v \in Worker, pc'[v] = "mark", target'[v] = s
      PROVE  current'[v] \in Marking(s)
    <2>1. v # w
        BY <1>1 DEF Active
    <2> QED
        BY <1>1, <2>1 DEF Marking
<1> QED
    BY <1>1 DEF Marking

\* A set a customer selected from stays selected, and only a call that had
\* looked it up before overwrites what he selected (service.py:121, service.py:149).
THEOREM SelectionStays == Spec => SelectionIsKept
<1> DEFINE Kept(s) == /\ recommendation'[s] = "selected"
                      /\ Marking(s)' \subseteq Marking(s)
                      /\ selection'[s] # selection[s] =>
                            selection'[s] \in Marking(s) \ Marking(s)'
<1>1. ASSUME Inv, [Next]_vars, NEW s \in SetId, recommendation[s] = "selected"
      PROVE  Kept(s)
    <2>0. /\ pc \in [Worker -> Phase] /\ target \in [Worker -> SetId \cup {NoSet}]
          /\ current \in [Worker -> Claim \cup {NoClaim}]
        BY <1>1 DEF Inv, TypeOK
    <2>1. ASSUME NEW w \in Worker, MarkSelected(w) PROVE Kept(s)
        <3>1. recommendation'[s] = "selected"
            BY <1>1, <2>1, MarkSelectedInv
        <3>2. /\ pc[w] = "mark" /\ pc'[w] # "mark" /\ UNCHANGED current
              /\ \A v \in Worker \ {w} : pc'[v] = pc[v] /\ target'[v] = target[v]
            BY <2>0, <2>1 DEF MarkSelected, Step, GoTo
        <3>3. Marking(s)' \subseteq Marking(s)
            BY <3>2 DEF Marking
        <3>4. ASSUME selection'[s] # selection[s]
              PROVE  selection'[s] \in Marking(s) \ Marking(s)'
            <4>1. target[w] = s /\ selection'[s] = current[w]
                BY <1>1, <2>1, <3>4 DEF MarkSelected, Step, stateVars, Inv, TypeOK
            <4>2. current[w] \in Marking(s)
                BY <3>2, <4>1 DEF Marking
            <4>3. \A v \in Worker : pc'[v] = "mark" => current[v] # current[w]
                BY <1>1, <3>2 DEF Inv, Claims
            <4>4. current[w] \notin Marking(s)'
                BY <3>2, <4>3 DEF Marking
            <4> QED
                BY <4>1, <4>2, <4>4
        <3> QED
            BY <3>1, <3>3, <3>4
    <2>2. ASSUME NEW w \in Worker, InsertSet(w) PROVE Kept(s)
        <3>1. recommendation'[s] = "selected"
            BY <1>1, <2>2, InsertSetInv
        <3>2. /\ pc'[w] # "mark" /\ UNCHANGED <<current, selection>>
              /\ \A v \in Worker \ {w} : pc'[v] = pc[v] /\ target'[v] = target[v]
            BY <2>0, <2>2 DEF InsertSet, GoTo
        <3> QED
            BY <3>1, <3>2 DEF Marking
    <2>3. ASSUME NEW w \in Worker, Process(w) \/ BreakOff(w), ~MarkSelected(w), ~InsertSet(w)
          PROVE  Kept(s)
        <3>1. UNCHANGED <<recommendation, selection>>
            BY <2>3
            DEF Process, stateVars, Dispatch, Step, Lookup, Extract, Search, Supersede, Resume,
                PersistUnmetDemand, Send, Complete, Release, Fail, Raise, BreakOff
        <3>2. \A v \in Worker \ {w} :
                  pc'[v] = pc[v] /\ target'[v] = target[v] /\ current'[v] = current[v]
            BY <2>0, <2>3
            DEF Process, GoTo, Dispatch, Step, Lookup, Extract, Search, Supersede, Resume,
                PersistUnmetDemand, Send, Complete, Release, Fail, Raise, BreakOff, Finish, Leave
        <3>3. pc'[w] = "mark" => target'[w] \in Active /\ UNCHANGED current
            BY <2>0, <2>3
            DEF Process, GoTo, Dispatch, Step, Lookup, Extract, Search, Supersede, Resume,
                PersistUnmetDemand, Send, Complete, Release, Fail, Raise, BreakOff, Finish, Leave
        <3> QED
            BY <1>1, <3>1, <3>2, <3>3, NoLookupKeeps
    <2>4. ASSUME NEW w \in Worker, NEW m \in Message, ClaimJob(w, m) PROVE Kept(s)
        <3>1. /\ pc'[w] = "dispatch" /\ UNCHANGED <<recommendation, selection, target>>
              /\ \A v \in Worker \ {w} : pc'[v] = pc[v] /\ current'[v] = current[v]
            BY <2>0, <2>4 DEF ClaimJob, GoTo, stateVars
        <3> QED
            BY <1>1, <3>1, NoLookupKeeps
    <2>5. ASSUME UNCHANGED <<stateVars, workerVars>> PROVE Kept(s)
        BY <1>1, <2>5 DEF stateVars, workerVars, Marking
    <2> QED
        BY <1>1, <2>1, <2>2, <2>3, <2>4, <2>5 DEF Next, vars, Receive, ClockPasses
<1>2. Inv /\ [Next]_vars =>
          [\A s \in SetId : recommendation[s] = "selected" => Kept(s)]_vars
    BY <1>1
<1> QED
    BY <1>2, Invariance, PTL DEF Spec, SelectionIsKept

----------------------------------------------------------------------------
(* The job table implements LeasedQueue.                                   *)

LEMMA QueueStutters ==
    ASSUME UNCHANGED <<status, attempts>>,
           \A m \in Message : Completions(m)' = Completions(m)
    PROVE  UNCHANGED Queue!abstractVars
BY DEF QueuePhase, SettledBy, Queue!abstractVars

LEMMA ReceivePublishes ==
    ASSUME Inv, NEW m \in Message, NEW k \in Kinds, Receive(m, k)
    PROVE  Queue!Publish
<1>1. /\ status[m] = "absent" /\ UNCHANGED <<attempts, reports>>
      /\ \A n \in Message : status'[n] = IF n = m THEN "pending" ELSE status[n]
    BY DEF Receive, InsertJob, Inv, TypeOK, JobTypeOK
<1>2. QueuePhase' = [n \in Message |-> IF n \in {m} THEN "ready" ELSE QueuePhase[n]]
    BY <1>1 DEF QueuePhase
<1>3. {m} \in SUBSET {n \in Message : QueuePhase[n] = "absent"}
    BY <1>1 DEF QueuePhase
<1>4. UNCHANGED <<attempts, SettledBy>>
    BY <1>1 DEF SettledBy, Completions
<1> QED
    BY <1>2, <1>3, <1>4 DEF Queue!Publish

LEMMA ClaimLeases ==
    ASSUME Inv, NEW w \in Worker, NEW m \in Message, ClaimJob(w, m)
    PROVE  Queue!Lease
<1>1. /\ status[m] \in {"pending", "processing"} /\ UNCHANGED reports
      /\ \A n \in Message : status'[n] = IF n = m THEN "processing" ELSE status[n]
    BY DEF ClaimJob, ClaimOneJob, Due, Inv, TypeOK, JobTypeOK
<1>0. attempts' = [n \in Message |-> attempts[n] + IF n \in {m} THEN 1 ELSE 0]
    <2>1. attempts' = [attempts EXCEPT ![m] = attempts[m] + 1] /\ attempts \in [Message -> Nat]
        BY DEF ClaimJob, ClaimOneJob, Inv, TypeOK, JobTypeOK
    <2>2. /\ attempts' \in [Message -> Nat]
          /\ \A n \in Message : attempts'[n] = attempts[n] + IF n \in {m} THEN 1 ELSE 0
        BY <2>1
    <2> QED
        BY <2>2
<1>2. QueuePhase' = [n \in Message |-> IF n \in {m} THEN "leased" ELSE QueuePhase[n]]
    BY <1>1 DEF QueuePhase
<1>3. {m} \in SUBSET {n \in Message : QueuePhase[n] \in {"ready", "leased"}}
    BY <1>1 DEF QueuePhase
<1>4. UNCHANGED SettledBy
    BY <1>1 DEF SettledBy, Completions
<1> QED
    BY <1>0, <1>2, <1>3, <1>4 DEF Queue!Lease

LEMMA CompleteSettles ==
    ASSUME Inv, Inv', NEW w \in Worker, pc[w] # "idle", OwnsClaim(current[w]),
           CompleteJob(MessageOf(w)), Finish(w, "completed")
    PROVE  \E m \in Message : Queue!Settle(m)
<1>0. PICK m \in Message : m = MessageOf(w)
    BY BusyWorker
<1>1. /\ status[m] = "processing" /\ UNCHANGED attempts
      /\ \A n \in Message : status'[n] = IF n = m THEN "completed" ELSE status[n]
      /\ reports' = reports \cup {[claim |-> current[w], outcome |-> "completed"]}
      /\ current[w].message = m
    BY <1>0 DEF OwnsClaim, CompleteJob, MessageOf, Finish, Inv, TypeOK, JobTypeOK
<1>2. QueuePhase[m] = "leased" /\ QueuePhase' = [QueuePhase EXCEPT ![m] = "settled"]
    <2>1. QueuePhase[m] = "leased"
        BY ONLY <1>1 DEF QueuePhase
    <2>2. \A n \in Message :
              QueuePhase'[n] = IF n = m THEN "settled" ELSE QueuePhase[n]
        BY ONLY <1>1 DEF QueuePhase
    <2>3. DOMAIN QueuePhase = Message /\ QueuePhase' = [n \in Message |-> QueuePhase'[n]]
          /\ QueuePhase = [n \in Message |-> QueuePhase[n]]
        BY DEF QueuePhase
    <2> QED
        BY ONLY <2>1, <2>2, <2>3
<1>3. \A n \in Message \ {m} : Completions(n)' = Completions(n)
    BY <1>1 DEF Completions
<1>4. Completions(m)' # {} /\ \A r \in Completions(m)' : r.claim.attempt = attempts[m]
    <2>0. [claim |-> current[w], outcome |-> "completed"] \in reports'
        BY <1>1
    <2>1. [claim |-> current[w], outcome |-> "completed"] \in Completions(m)'
        BY <1>1, <2>0 DEF Completions
    <2>2. \A r \in reports' : r.outcome = "completed" =>
              attempts'[r.claim.message] = r.claim.attempt
        BY DEF Inv, Reports
    <2> QED
        BY <1>1, <2>1, <2>2 DEF Completions
<1>5. AnyOf(Completions(m)').claim.attempt = attempts[m]
    BY <1>4 DEF AnyOf
<1>6. SettledBy' = [SettledBy EXCEPT ![m] = attempts[m]]
    <2>1. SettledBy'[m] = attempts[m]
        <3>1. m \in Message /\ Completions(m)' # {}
            BY <1>1, <1>4
        <3> QED
            BY <1>5, <3>1 DEF SettledBy
    <2>2. \A n \in Message \ {m} : SettledBy'[n] = SettledBy[n]
        BY <1>3 DEF SettledBy
    <2>3. DOMAIN SettledBy = Message /\ SettledBy' = [n \in Message |-> SettledBy'[n]]
          /\ SettledBy = [n \in Message |-> SettledBy[n]]
        BY DEF SettledBy
    <2> QED
        BY ONLY <2>1, <2>2, <2>3
<1> QED
    BY <1>1, <1>2, <1>6 DEF Queue!Settle

\* A call that ends otherwise puts the job back, or gives it up.
LEMMA OtherEndings ==
    ASSUME Inv, NEW w \in Worker, pc[w] # "idle", OwnsClaim(current[w]),
           NEW s \in {"pending", "failed"}, status' = [status EXCEPT ![MessageOf(w)] = s],
           NEW o \in {"released", "retry", "dead"}, Finish(w, o), UNCHANGED attempts
    PROVE  \E m \in Message : Queue!Bury(m) \/ Queue!PutBack(m)
<1> DEFINE m == MessageOf(w)
<1>1. /\ m \in Message /\ status[m] = "processing"
      /\ \A n \in Message : status'[n] = IF n = m THEN s ELSE status[n]
    BY BusyWorker DEF OwnsClaim, MessageOf, Inv, TypeOK, JobTypeOK
<1>2. UNCHANGED SettledBy
    <2>1. reports' = reports \cup {[claim |-> current[w], outcome |-> o]} /\ o # "completed"
        BY DEF Finish
    <2>2. \A n \in Message : Completions(n)' = Completions(n)
        BY <2>1 DEF Completions
    <2> QED
        BY <2>2 DEF SettledBy
<1> HIDE DEF m
<1>3. QueuePhase[m] = "leased"
    BY <1>1 DEF QueuePhase
<1>4. CASE s = "pending"
    <2>1. QueuePhase' = [QueuePhase EXCEPT ![m] = "ready"]
        BY <1>1, <1>4 DEF QueuePhase
    <2> QED
        BY <1>1, <1>2, <1>3, <2>1 DEF Queue!PutBack
<1>5. CASE s = "failed"
    <2>1. QueuePhase' = [QueuePhase EXCEPT ![m] = "buried"]
        BY <1>1, <1>5 DEF QueuePhase
    <2> QED
        BY <1>1, <1>2, <1>3, <2>1 DEF Queue!Bury
<1> QED
    BY <1>4, <1>5

\* Other steps do not show in the queue.
LEMMA RaiseStutters ==
    ASSUME UNCHANGED <<jobVars, reports>>
    PROVE  UNCHANGED Queue!abstractVars
<1>1. \A m \in Message : Completions(m)' = Completions(m)
    BY DEF Completions
<1> QED
    BY <1>1, QueueStutters DEF jobVars

LEMMA EndStep ==
    ASSUME Inv, Inv', NEW w \in Worker, Complete(w) \/ Release(w) \/ Fail(w)
    PROVE  [Queue!AbstractNext]_(Queue!abstractVars)
<1> USE DEF Queue!AbstractNext
<1>1. CASE Raise(w)
    BY <1>1, RaiseStutters DEF Raise
<1>2. CASE pc[w] = "complete" /\ OwnsClaim(current[w]) /\ CompleteJob(MessageOf(w))
           /\ Finish(w, "completed")
    BY <1>2, CompleteSettles
<1>3. CASE pc[w] = "release" /\ OwnsClaim(current[w]) /\ ReleaseJob(MessageOf(w))
           /\ Finish(w, "released")
    BY <1>3, OtherEndings DEF ReleaseJob
<1>4. CASE pc[w] = "fail" /\ OwnsClaim(current[w]) /\ FailJob(MessageOf(w))
           /\ Finish(w, FailureResult(MessageOf(w)))
    <2>1. /\ FailureOutcome(MessageOf(w)) \in {"pending", "failed"}
          /\ FailureResult(MessageOf(w)) \in {"released", "retry", "dead"}
        BY DEF FailureOutcome, FailureResult
    <2> QED
        BY <1>4, <2>1, OtherEndings DEF FailJob
<1> QED
    BY <1>1, <1>2, <1>3, <1>4 DEF Complete, Release, Fail

LEMMA WorkerStep ==
    ASSUME Inv, Inv', NEW w \in Worker, Process(w) \/ BreakOff(w)
    PROVE  [Queue!AbstractNext]_(Queue!abstractVars)
<1>1. CASE Complete(w) \/ Release(w) \/ Fail(w)
    BY <1>1, EndStep
<1>2. CASE ~(Complete(w) \/ Release(w) \/ Fail(w))
    <2>1. UNCHANGED <<jobVars, reports>>
        BY <1>2 DEF Process, Dispatch, Step, Lookup, MarkSelected, Extract, Search, Supersede,
                    Resume, InsertSet, PersistUnmetDemand, Send, Raise, BreakOff
    <2> QED
        BY <2>1, RaiseStutters
<1> QED
    BY <1>1, <1>2

LEMMA ClockStutters ==
    ASSUME NEW m \in Message, ClockPasses(m)
    PROVE  UNCHANGED Queue!abstractVars
<1>1. \A n \in Message : Completions(n)' = Completions(n)
    BY DEF ClockPasses, Completions
<1> QED
    BY <1>1, QueueStutters DEF ClockPasses, Ripen

\* The job table and its workers implement the leased queue: a worker that
\* lost its claim has no effect on any job (jobs.py:140).
THEOREM MessageQueueRefinement == Spec => ImplementsLeasedQueue
<1>1. Init => Queue!AbstractInit
    BY DEF Init, JobInit, Queue!AbstractInit, QueuePhase, SettledBy, Completions
<1>2. Inv /\ Inv' /\ [Next]_vars => [Queue!AbstractNext]_(Queue!abstractVars)
    <2> SUFFICES ASSUME Inv, Inv', [Next]_vars
                 PROVE  [Queue!AbstractNext]_(Queue!abstractVars)
        OBVIOUS
    <2>1. CASE UNCHANGED vars
        <3>1. \A n \in Message : Completions(n)' = Completions(n)
            BY <2>1 DEF vars, Completions
        <3> QED
            BY <2>1, <3>1, QueueStutters DEF vars, jobVars
    <2>2. CASE \E m \in Message, k \in Kinds : Receive(m, k)
        BY <2>2, ReceivePublishes DEF Queue!AbstractNext
    <2>3. CASE \E w \in Worker, m \in Message : ClaimJob(w, m)
        BY <2>3, ClaimLeases DEF Queue!AbstractNext
    <2>4. CASE \E w \in Worker : Process(w) \/ BreakOff(w)
        BY <2>4, WorkerStep
    <2>5. CASE \E m \in Message : ClockPasses(m)
        BY <2>5, ClockStutters
    <2> QED
        BY <2>1, <2>2, <2>3, <2>4, <2>5 DEF Next
<1> QED
    BY <1>1, <1>2, Invariance, PTL DEF Spec, ImplementsLeasedQueue, Queue!AbstractSpec
=============================================================================
