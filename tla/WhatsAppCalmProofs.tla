-------------------------- MODULE WhatsAppCalmProofs --------------------------
(***************************************************************************)
(* What a number the customer sends is resolved to, proved for any number  *)
(* of workers, messages and claims under the assumptions of CalmSpec.      *)
(* They leave one message of his open at a time, with one worker on it,    *)
(* who owns its job.  The set shown last is then the active one until the  *)
(* customer answers it, and stays active until his answer is resolved.     *)
(***************************************************************************)
EXTENDS WhatsAppWorkerProofs

Open == {m \in Message : status[m] \in {"pending", "processing"} /\ kind[m] # "telegram"}
Busy == {w \in Worker : pc[w] # "idle" /\ kind[MessageOf(w)] # "telegram"}
Done == {"send", "complete"}

\* Whoever works on a job owns it, and its lease has not expired.
Leases ==
    \A w \in Worker : pc[w] # "idle" => OwnsClaim(current[w]) /\ ~ripe[MessageOf(w)]

OneOpen == \A m, n \in Open : m = n

Origins ==
    \A m \in Message :
        /\ status[m] = "absent" =>
              kind[m] = "none" /\ replyTo[m] = NoSet /\ chosen[m] = NoSet
        /\ replyTo[m] # NoSet => kind[m] = "choice"

\* Where a worker can be, and what it has at hand there.
Place(w) ==
    IF kind[MessageOf(w)] = "telegram" THEN pc[w] \in {"dispatch", "release"}
    ELSE /\ replyTo[MessageOf(w)] # NoSet =>
               pc[w] \in {"dispatch", "lookup", "mark", "send", "complete", "fail"}
         /\ pc[w] = "mark" => kind[MessageOf(w)] = "choice" /\ target[w] \in Active
         /\ pc[w] = "send" /\ reply[w] = "set" => current[w] \in Active

Places ==
    \A w \in Worker :
        /\ pc[w] # "idle" => Place(w)
        /\ reply[w] = "set" => pc[w] \in Done

\* What the customer was shown last is active, or about to be replaced; while a
\* number of his is open, nothing new has been shown.
Display ==
    /\ shown # NoSet =>
          shown \in Active \/ \E w \in Worker : pc[w] = "send" /\ reply[w] = "set"
    /\ \A m \in Open : kind[m] = "choice" =>
          shown = NoSet \/ \E w \in Busy : pc[w] = "complete"

\* The set a number answers is active until the number is resolved to it.
Resolution ==
    \A m \in Message : replyTo[m] # NoSet =>
        /\ chosen[m] \in {NoSet, replyTo[m]}
        /\ m \in Open =>
              IF chosen[m] = NoSet
              THEN replyTo[m] \in Active /\ \A w \in Busy : pc[w] \notin Done
              ELSE \E w \in Busy : pc[w] \in Done

Calm == Leases /\ OneOpen /\ Origins /\ Places /\ Display /\ Resolution

CalmNext == Next /\ Patient /\ ReliableSends /\ Uninterrupted /\ Timely

----------------------------------------------------------------------------
(* Lemmas.                                                                 *)

\* Two workers on messages of the customer would hold one claim.
LEMMA OneBusy ==
    ASSUME Inv, Calm, NEW w \in Busy
    PROVE  /\ MessageOf(w) \in Open /\ Open = {MessageOf(w)} /\ Busy = {w}
           /\ status[MessageOf(w)] = "processing"
<1>1. ASSUME NEW v \in Busy
      PROVE  /\ MessageOf(v) \in Open /\ current[v] \in SetId
             /\ attempts[MessageOf(v)] = current[v].attempt
             /\ status[MessageOf(v)] = "processing"
    BY <1>1, BusyWorker DEF Calm, Leases, OwnsClaim, Busy, Open, MessageOf
<1>2. \A m \in Open : m = MessageOf(w)
    BY <1>1 DEF Calm, OneOpen
<1>3. ASSUME NEW v \in Busy PROVE v = w
    <2>1. current[v].message = current[w].message /\ current[v].attempt = current[w].attempt
        BY <1>1, <1>2 DEF MessageOf
    <2>2. current[v] = current[w]
        BY <1>1, <2>1 DEF SetId
    <2> QED
        BY <2>2 DEF Inv, Claims, Busy
<1> QED
    BY <1>1, <1>2, <1>3

\* A worker goes on; the rows stay as they are, nothing is shown or answered.
LEMMA MoveCalm ==
    ASSUME Inv, Calm, NEW w \in Worker, NEW to \in Phase \ {"idle"},
           NEW t, NEW r, pc[w] # "idle", Goes(w, to),
           target' = [target EXCEPT ![w] = t], reply' = [reply EXCEPT ![w] = r],
           UNCHANGED <<jobVars, customerVars, recommendation, selection, chosen>>,
           pc[w] \notin Done, r # "set", to # "send" \/ replyTo[MessageOf(w)] = NoSet,
           to = "complete" => kind[MessageOf(w)] = "voice",
           IF kind[MessageOf(w)] = "telegram" THEN to = "release"
           ELSE /\ replyTo[MessageOf(w)] # NoSet => to \in {"lookup", "mark", "fail"}
                /\ to = "mark" => kind[MessageOf(w)] = "choice" /\ t \in Active
    PROVE  Calm'
<1> USE DEF jobVars, customerVars
<1>1. /\ pc' \in [Worker -> Phase] /\ pc'[w] = to /\ target'[w] = t /\ reply'[w] = r
      /\ \A v \in Worker \ {w} :
            pc'[v] = pc[v] /\ target'[v] = target[v] /\ reply'[v] = reply[v]
      /\ current' = current
    BY DEF Goes, Inv, TypeOK
<1>2. /\ \A v \in Worker : MessageOf(v)' = MessageOf(v) /\ OwnsClaim(current[v])' = OwnsClaim(current[v])
      /\ Open' = Open /\ Active' = Active /\ Busy' = Busy
    BY <1>1 DEF MessageOf, OwnsClaim, Open, Active, Busy
<1>3. Leases'
    BY <1>1, <1>2 DEF Calm, Leases, OwnsClaim
<1>4. OneOpen' /\ Origins'
    BY <1>2 DEF Calm, OneOpen, Origins
<1>5. Places'
    <2>1. Place(w)'
        BY <1>1, <1>2, BusyWorker DEF Place, Done
    <2>2. ASSUME NEW v \in Worker \ {w}, pc[v] # "idle" PROVE Place(v)'
        BY <1>1, <1>2, <2>2 DEF Place, Calm, Places
    <2>3. \A v \in Worker : reply'[v] = "set" => pc'[v] \in Done
        BY <1>1 DEF Calm, Places
    <2> QED
        BY <1>1, <2>1, <2>2, <2>3 DEF Places
<1>6. ASSUME NEW v \in Worker, pc[v] = "send" \/ pc[v] = "complete"
      PROVE  v # w /\ pc'[v] = pc[v] /\ reply'[v] = reply[v]
    BY <1>1, <1>6 DEF Done
<1>7. Display'
    <2>1. shown # NoSet =>
              shown \in Active \/ \E v \in Worker : pc'[v] = "send" /\ reply'[v] = "set"
        BY <1>6 DEF Calm, Display
    <2>2. ASSUME NEW m \in Open, kind[m] = "choice", shown # NoSet
          PROVE  \E v \in Busy : pc'[v] = "complete"
        BY <1>6, <2>2 DEF Calm, Display, Busy
    <2> QED
        BY <1>2, <2>1, <2>2 DEF Display
<1>8. Resolution'
    <2>1. ASSUME NEW m \in Open, replyTo[m] # NoSet, chosen[m] = NoSet, NEW v \in Busy
          PROVE  pc'[v] \notin Done
        <3>1. v = w => to \notin Done
            BY <2>1, OneBusy DEF Calm, Origins, Done, Busy, Open
        <3>2. pc[v] \notin Done
            BY <2>1 DEF Calm, Resolution, Open
        <3> QED
            BY <1>1, <3>1, <3>2 DEF Busy
    <2>2. ASSUME NEW m \in Open, replyTo[m] # NoSet, chosen[m] # NoSet
          PROVE  \E v \in Busy : pc'[v] \in Done
        BY <1>6, <2>2 DEF Calm, Resolution, Busy, Done, Open
    <2> QED
        BY <1>2, <2>1, <2>2 DEF Calm, Resolution, Open
<1> QED
    BY <1>3, <1>4, <1>5, <1>7, <1>8 DEF Calm

----------------------------------------------------------------------------
(* The steps of a worker.                                                  *)

LEMMA StepCalm ==
    ASSUME Inv, Calm, NEW w \in Worker, NEW from, NEW to \in Phase \ {"idle"},
           Step(w, from, to), from \notin Done \cup {"idle"},
           to # "send", to # "mark", to = "complete" => kind[MessageOf(w)] = "voice",
           IF kind[MessageOf(w)] = "telegram" THEN to = "release"
           ELSE replyTo[MessageOf(w)] # NoSet => to \in {"lookup", "fail"}
    PROVE  Calm'
<1>1. /\ Goes(w, to) /\ pc[w] = from
      /\ target' = [target EXCEPT ![w] = target[w]] /\ reply' = [reply EXCEPT ![w] = reply[w]]
    BY DEF Step, GoTo, Goes, Inv, TypeOK
<1>2. UNCHANGED <<jobVars, customerVars, recommendation, selection, chosen>>
    BY DEF Step, stateVars
<1>3. reply[w] # "set"
    BY <1>1 DEF Calm, Places
<1> QED
    BY <1>1, <1>2, <1>3, MoveCalm

LEMMA MovesCalm ==
    ASSUME Inv, Calm, NEW w \in Worker,
           \/ Dispatch(w) /\ pc'[w] # "idle"
           \/ (Extract(w) \/ Search(w)) /\ ~BreakOff(w)
           \/ Lookup(w) \/ Supersede(w) \/ Resume(w)
           \/ PersistUnmetDemand(w)
           \/ MarkSelected(w) /\ pc'[w] = "fail"
           \/ InsertSet(w) /\ pc'[w] = "fail"
    PROVE  Calm'
<1> USE DEF Done, Phase
<1> DEFINE telegram == kind[MessageOf(w)] = "telegram"
           answers == replyTo[MessageOf(w)] # NoSet
<1>1. /\ pc[w] # "idle" => Place(w)
      /\ pc[w] # "idle" => reply[w] # "set" \/ pc[w] \in Done
      /\ pc \in [Worker -> Phase]
    BY DEF Calm, Places, Inv, TypeOK
<1>2. ASSUME NEW t, NEW r, NEW to \in {"send", "mark", "insert", "blocked", "fail"},
             pc[w] \in {"lookup", "mark", "extract", "supersede", "blocked", "insert", "unmet"},
             GoTo(w, to), target' = [target EXCEPT ![w] = t], reply' = [reply EXCEPT ![w] = r],
             UNCHANGED <<jobVars, customerVars, recommendation, selection, chosen, current>>, r # "set",
             to = "send" => ~answers, answers => to \in {"mark", "fail"},
             to = "mark" => kind[MessageOf(w)] = "choice" /\ t \in Active
      PROVE  Calm'
    <2>1. Goes(w, to) /\ ~telegram
        BY <1>1, <1>2 DEF GoTo, Goes, Place
    <2> QED
        BY <1>2, <2>1, MoveCalm
<1>3. /\ target' = target => target' = [target EXCEPT ![w] = target[w]]
      /\ reply' = reply => reply' = [reply EXCEPT ![w] = reply[w]]
    BY DEF Inv, TypeOK
<1>4. CASE Dispatch(w) /\ pc'[w] # "idle"
    <2>1. kind[MessageOf(w)] # "choice" => ~answers
        BY <1>4, BusyWorker DEF Dispatch, Step, Calm, Origins
    <2>2. ~Raise(w)
        BY <1>1, <1>4 DEF Raise, Leave, GoTo
    <2> QED
        BY <1>4, <2>1, <2>2, StepCalm DEF Dispatch
<1>5. CASE Lookup(w)
    <2>1. pc[w] = "lookup" /\ ~telegram /\ w \in Busy
        BY <1>1, <1>5 DEF Lookup, Step, Place, Busy
    <2>2. MessageOf(w) \in Open /\ MessageOf(w) \in Message
        BY <2>1, OneBusy DEF Open
    <2>3. answers => kind[MessageOf(w)] = "choice" /\ Active # {}
        BY <2>1, <2>2, OneBusy DEF Calm, Origins, Resolution
    <2>4. CASE Active = {} /\ Step(w, "lookup", "extract")
        BY <2>1, <2>3, <2>4, StepCalm
    <2>5. CASE Step(w, "lookup", "fail")
        BY <2>1, <2>5, StepCalm
    <2>6. ASSUME NEW a \in Active,
                 IF kind[MessageOf(w)] = "choice"
                 THEN target' = [target EXCEPT ![w] = a] /\ GoTo(w, "mark") /\ UNCHANGED reply
                 ELSE reply' = [reply EXCEPT ![w] = "text"] /\ GoTo(w, "send") /\ UNCHANGED target,
                 UNCHANGED <<jobVars, customerVars, stateVars, current, reports, losses>>
          PROVE  Calm'
        <3>1. CASE kind[MessageOf(w)] = "choice"
            BY <1>1, <1>2, <1>3, <2>1, <2>6, <3>1 DEF stateVars
        <3>2. CASE kind[MessageOf(w)] # "choice"
            BY <1>2, <1>3, <2>1, <2>3, <2>6, <3>2 DEF stateVars
        <3> QED
            BY <3>1, <3>2
    <2> QED
        BY <1>5, <2>4, <2>5, <2>6 DEF Lookup
<1>6. CASE Extract(w) /\ ~BreakOff(w)
    <2>1. pc[w] = "extract" /\ ~answers /\ ~telegram
        BY <1>1, <1>6 DEF Extract, Step, Place
    <2>2. CASE \E to \in {"search", "fail"} : Step(w, "extract", to)
        BY <2>1, <2>2, StepCalm
    <2>3. CASE /\ reply' = [reply EXCEPT ![w] = "text"] /\ GoTo(w, "send")
               /\ UNCHANGED <<jobVars, customerVars, stateVars, current, target>>
        BY <1>2, <1>3, <2>1, <2>3 DEF stateVars
    <2> QED
        BY <1>6, <2>2, <2>3 DEF Extract
<1>7. CASE Search(w) /\ ~BreakOff(w)
    <2>1. pc[w] = "search" /\ ~answers /\ ~telegram
        BY <1>1, <1>7 DEF Search, Step, Place
    <2> QED
        BY <1>7, <2>1, StepCalm DEF Search
<1>8. CASE Supersede(w)
    <2>1. pc[w] = "supersede" /\ ~answers /\ reply[w] # "set"
        BY <1>1, <1>8 DEF Supersede, Place
    <2>2. PICK t : target' = [target EXCEPT ![w] = t]
                   /\ GoTo(w, IF t \in LockedSets THEN "blocked" ELSE "insert")
        BY <1>8 DEF Supersede
    <2> QED
        BY <1>2, <1>3, <1>8, <2>1, <2>2 DEF Supersede, stateVars
<1>9. CASE Resume(w)
    <2>1. pc[w] = "blocked" /\ ~answers /\ reply[w] # "set"
        BY <1>1, <1>9 DEF Resume, Place
    <2>2. target' = [target EXCEPT ![w] = IF target[w] \in Active THEN target[w] ELSE NoSet]
        BY <1>9 DEF Resume
    <2> QED
        BY <1>2, <1>3, <1>9, <2>1, <2>2 DEF Resume, stateVars
<1>10. CASE PersistUnmetDemand(w)
    <2>1. pc[w] = "unmet" /\ ~answers /\ ~telegram
        BY <1>1, <1>10 DEF PersistUnmetDemand, Step, Place
    <2>2. CASE Step(w, "unmet", "fail")
        BY <2>1, <2>2, StepCalm
    <2>3. CASE ~Step(w, "unmet", "fail")
        BY <1>2, <1>3, <1>10, <2>1, <2>3 DEF PersistUnmetDemand
    <2> QED
        BY <2>2, <2>3
<1>11. CASE MarkSelected(w) /\ pc'[w] = "fail"
    <2>1. Step(w, "mark", "fail") /\ pc[w] = "mark" /\ ~telegram
        BY <1>1, <1>11 DEF MarkSelected, GoTo, Step, Place
    <2> QED
        BY <2>1, StepCalm
<1>12. CASE InsertSet(w) /\ pc'[w] = "fail"
    <2>1. /\ pc[w] = "insert" /\ target' = [target EXCEPT ![w] = NoSet] /\ GoTo(w, "fail")
          /\ UNCHANGED <<jobVars, customerVars, recommendation, selection, chosen, current, reply>>
        BY <1>1, <1>12 DEF InsertSet, GoTo
    <2>2. reply[w] # "set"
        BY <1>1, <2>1
    <2> QED
        BY <1>2, <1>3, <2>1, <2>2
<1> QED
    BY <1>4, <1>5, <1>6, <1>7, <1>8, <1>9, <1>10, <1>11, <1>12

\* A worker on a message of the customer changes the sets; no other worker is
\* past the point where a set matters.
LEMMA OthersPlaces ==
    ASSUME Inv, Calm, NEW w \in Busy, NEW v \in Worker \ {w}, pc[v] # "idle",
           UNCHANGED <<current, kind>>, pc'[v] = pc[v], reply'[v] = reply[v]
    PROVE  Place(v)' /\ (reply'[v] = "set" => pc'[v] \in Done)
<1>1. kind[MessageOf(v)] = "telegram"
    BY OneBusy DEF Busy
<1> QED
    BY <1>1 DEF Calm, Places, Place, MessageOf

\* The number is resolved to the active set.
LEMMA MarkSelectedCalm ==
    ASSUME Inv, Calm, NEW w \in Worker, MarkSelected(w), pc'[w] # "fail"
    PROVE  Calm'
<1> DEFINE m == MessageOf(w)
           s == target[w]
<1>1. /\ pc[w] = "mark" /\ pc' = [pc EXCEPT ![w] = "send"]
      /\ recommendation' = [recommendation EXCEPT ![s] = "selected"]
      /\ chosen' = [chosen EXCEPT ![m] = s]
      /\ target' = [target EXCEPT ![w] = NoSet] /\ reply' = [reply EXCEPT ![w] = "text"]
      /\ UNCHANGED <<jobVars, customerVars, current>>
    BY DEF MarkSelected, GoTo, Step, Inv, TypeOK
<1>2. w \in Busy /\ kind[m] = "choice" /\ s \in Active
    BY <1>1 DEF Calm, Places, Place, Busy
<1>3. /\ m \in Open /\ m \in Message /\ Open = {m} /\ Busy = {w}
    BY <1>2, OneBusy DEF Open
<1>4. /\ Open' = Open /\ Busy' = Busy /\ m' = m
      /\ \A v \in Worker : v # w => pc'[v] = pc[v] /\ reply'[v] = reply[v]
      /\ pc'[w] = "send" /\ reply'[w] = "text"
    BY <1>1 DEF Open, Busy, MessageOf, jobVars, customerVars, Inv, TypeOK
<1>5. Leases' /\ OneOpen'
    BY <1>1, <1>4 DEF Calm, Leases, OneOpen, OwnsClaim, MessageOf, jobVars, Inv, TypeOK
<1>6. Origins'
    BY <1>1, <1>3 DEF Calm, Origins, Open, jobVars, customerVars, Inv, TypeOK
<1>7. Places'
    <2>1. Place(w)'
        BY <1>2, <1>4, <1>1 DEF Place, customerVars
    <2>2. \A v \in Worker : reply'[v] = "set" => pc'[v] \in Done
        BY <1>4 DEF Calm, Places
    <2> QED
        BY <1>1, <1>2, <1>4, <2>1, <2>2, OthersPlaces DEF Places, customerVars
<1>8. shown = NoSet
    BY <1>1, <1>2, <1>3 DEF Calm, Display
<1>9. Display'
    BY <1>1, <1>8 DEF Display, customerVars
<1>10. Resolution'
    <2>1. replyTo[m] # NoSet => replyTo[m] = s
        <3>1. replyTo[m] # NoSet => replyTo[m] \in Active
            BY <1>1, <1>3 DEF Calm, Resolution, Done
        <3> QED
            BY <1>2, <3>1 DEF Inv, OneActive
    <2>2. chosen'[m] = s /\ \A n \in Message : n # m => chosen'[n] = chosen[n]
        BY <1>1, <1>3 DEF Inv, TypeOK
    <2>3. s # NoSet
        BY <1>2, SetIdFacts DEF Active
    <2>4. \A n \in Message : replyTo[n] # NoSet =>
              /\ chosen'[n] \in {NoSet, replyTo[n]}
              /\ n \in Open => chosen'[n] # NoSet /\ \E v \in Busy : pc'[v] \in Done
        BY <1>3, <1>4, <2>1, <2>2, <2>3 DEF Calm, Resolution, Done
    <2> QED
        BY <1>1, <1>4, <2>4 DEF Resolution, customerVars
<1> QED
    BY <1>5, <1>6, <1>7, <1>9, <1>10 DEF Calm

\* A request of the customer replaces the active set by a new one.
LEMMA InsertSetCalm ==
    ASSUME Inv, Inv', Calm, NEW w \in Worker, InsertSet(w), pc'[w] # "fail"
    PROVE  Calm'
<1> DEFINE m == MessageOf(w)
<1>1. /\ pc[w] = "insert" /\ pc' = [pc EXCEPT ![w] = "send"]
      /\ recommendation' = [s \in SetId |->
            IF s = target[w] THEN "superseded"
            ELSE IF s = current[w] THEN "active"
            ELSE recommendation[s]]
      /\ target' = [target EXCEPT ![w] = NoSet] /\ reply' = [reply EXCEPT ![w] = "set"]
      /\ UNCHANGED <<jobVars, customerVars, current, chosen>>
    BY DEF InsertSet, GoTo, Inv, TypeOK
<1>2. w \in Busy /\ replyTo[m] = NoSet /\ kind[m] # "telegram"
    BY <1>1 DEF Calm, Places, Place, Busy
<1>3. /\ m \in Open /\ m \in Message /\ Open = {m} /\ Busy = {w}
    BY <1>2, OneBusy DEF Open
<1>4. /\ Open' = Open /\ Busy' = Busy /\ m' = m
      /\ \A v \in Worker : v # w => pc'[v] = pc[v] /\ reply'[v] = reply[v]
      /\ pc'[w] = "send" /\ reply'[w] = "set"
    BY <1>1 DEF Open, Busy, MessageOf, jobVars, customerVars, Inv, TypeOK
<1>5. Leases' /\ OneOpen'
    BY <1>1, <1>4 DEF Calm, Leases, OneOpen, OwnsClaim, MessageOf, jobVars, Inv, TypeOK
<1>6. Origins'
    BY <1>1 DEF Calm, Origins, jobVars, customerVars
<1>7. current[w] \in Active'
    <2>1. current[w] \in SetId /\ recommendation[current[w]] = "absent"
        BY <1>1, BusyWorker DEF Inv, Sets, BeforeStore
    <2>2. current[w] # target[w]
        BY <1>1, <2>1, SetIdFacts DEF Inv, Sets, Active
    <2> QED
        BY <1>1, <2>1, <2>2 DEF Active
<1>8. Places'
    <2>1. Place(w)'
        BY <1>1, <1>2, <1>4, <1>7 DEF Place, customerVars
    <2>2. \A v \in Worker : reply'[v] = "set" => pc'[v] \in Done
        BY <1>4 DEF Calm, Places, Done
    <2> QED
        BY <1>1, <1>2, <1>4, <2>1, <2>2, OthersPlaces DEF Places, customerVars
<1>9. Display'
    <2>1. \E v \in Worker : pc'[v] = "send" /\ reply'[v] = "set"
        BY <1>4
    <2>2. kind[m] = "choice" => shown = NoSet
        BY <1>1, <1>3 DEF Calm, Display
    <2> QED
        BY <1>1, <1>3, <1>4, <2>1, <2>2 DEF Display, customerVars
<1>10. Resolution'
    BY <1>1, <1>2, <1>3, <1>4 DEF Calm, Resolution, customerVars
<1> QED
    BY <1>5, <1>6, <1>8, <1>9, <1>10 DEF Calm

\* The answer is sent; a set that is shown is the active one.
LEMMA SendCalm ==
    ASSUME Inv, Calm, NEW w \in Worker, Send(w), pc'[w] # "fail"
    PROVE  Calm'
<1> DEFINE m == MessageOf(w)
<1>1. /\ pc[w] = "send" /\ pc' = [pc EXCEPT ![w] = "complete"] /\ Deliver(w)
      /\ UNCHANGED <<jobVars, stateVars, current, target, reply>>
    BY DEF Send, GoTo, Step, Inv, TypeOK
<1>2. UNCHANGED <<status, attempts, ripe, kind, replyTo, recommendation, selection, chosen>>
    BY <1>1 DEF Deliver, jobVars, stateVars
<1>3. w \in Busy
    BY <1>1 DEF Calm, Places, Place, Busy
<1>4. m \in Message /\ Open = {m} /\ Busy = {w}
    BY <1>3, OneBusy DEF Open
<1>5. /\ Open' = Open /\ Busy' = Busy /\ Active' = Active /\ m' = m
      /\ \A v \in Worker : v # w => pc'[v] = pc[v] /\ reply'[v] = reply[v]
      /\ pc'[w] = "complete"
    BY <1>1, <1>2 DEF Open, Busy, Active, MessageOf, Inv, TypeOK
<1>6. Leases' /\ OneOpen' /\ Origins'
    BY <1>1, <1>2, <1>5 DEF Calm, Leases, OneOpen, Origins, OwnsClaim, MessageOf
<1>7. Places'
    <2>1. Place(w)'
        BY <1>1, <1>2, <1>3, <1>5 DEF Place, Busy
    <2>2. \A v \in Worker : reply'[v] = "set" => pc'[v] \in Done
        BY <1>1, <1>5 DEF Calm, Places, Done
    <2> QED
        BY <1>1, <1>2, <1>3, <1>5, <2>1, <2>2, OthersPlaces DEF Places
<1>8. shown' # NoSet => shown' \in Active
    <2>1. CASE reply[w] = "set"
        BY <1>1, <2>1 DEF Deliver, Calm, Places, Place, Busy
    <2>2. CASE reply[w] # "set"
        <3>1. \A v \in Worker : pc[v] = "send" /\ reply[v] = "set" => v \in Busy
            BY DEF Calm, Places, Place, Busy
        <3> QED
            BY <1>1, <1>4, <2>2, <3>1 DEF Deliver, Calm, Display
    <2> QED
        BY <2>1, <2>2
<1>9. Display'
    BY <1>2, <1>4, <1>5, <1>8 DEF Display
<1>10. Resolution'
    BY <1>1, <1>2, <1>4, <1>5 DEF Calm, Resolution, Done
<1> QED
    BY <1>6, <1>7, <1>9, <1>10 DEF Calm

\* Workers of one job would hold one claim.
LEMMA OneOwner ==
    ASSUME Inv, Calm, NEW v \in Worker, NEW w \in Worker, pc[v] # "idle", pc[w] # "idle",
           MessageOf(v) = MessageOf(w)
    PROVE  v = w
<1>1. /\ current[v] \in SetId /\ current[w] \in SetId
      /\ attempts[MessageOf(v)] = current[v].attempt
      /\ attempts[MessageOf(w)] = current[w].attempt
    BY BusyWorker DEF Calm, Leases, OwnsClaim, MessageOf
<1>2. current[v] = current[w]
    BY <1>1 DEF MessageOf, SetId
<1> QED
    BY <1>2 DEF Inv, Claims

\* The call ends.  Only a completion ends it after an answer.
LEMMA EndCalm ==
    ASSUME Inv, Calm, NEW w \in Worker, pc[w] \notin {"idle", "send"},
           Leave(w), UNCHANGED <<attempts, customerVars, stateVars>>,
           NEW S \in {"pending", "processing", "completed", "failed"},
           status' = [status EXCEPT ![MessageOf(w)] = S],
           NEW R \in BOOLEAN, ripe' = [ripe EXCEPT ![MessageOf(w)] = R],
           pc[w] = "complete" => S = "completed"
    PROVE  Calm'
<1> DEFINE m == MessageOf(w)
<1> USE DEF customerVars, stateVars
<1>1. /\ pc' = [pc EXCEPT ![w] = "idle"] /\ current' = [current EXCEPT ![w] = NoClaim]
      /\ reply' = [reply EXCEPT ![w] = "none"] /\ target' = [target EXCEPT ![w] = NoSet]
    BY DEF Leave, GoTo
<1>2. /\ \A v \in Worker : v # w => /\ pc'[v] = pc[v] /\ reply'[v] = reply[v]
                                    /\ current'[v] = current[v] /\ target'[v] = target[v]
      /\ pc'[w] = "idle" /\ reply'[w] = "none"
    BY <1>1 DEF Inv, TypeOK
<1>3. /\ m \in Message /\ status[m] = "processing" /\ status'[m] = S
      /\ \A n \in Message : n # m => status'[n] = status[n] /\ ripe'[n] = ripe[n]
    BY BusyWorker DEF Calm, Leases, OwnsClaim, MessageOf, Inv, TypeOK, JobTypeOK
<1>4. ASSUME NEW v \in Worker, pc'[v] # "idle"
      PROVE  /\ v # w /\ pc[v] # "idle" /\ MessageOf(v)' = MessageOf(v)
             /\ MessageOf(v) # m /\ MessageOf(v) \in Message
    <2>1. v # w /\ pc[v] # "idle"
        BY <1>2, <1>4
    <2> QED
        BY <1>2, <2>1, OneOwner, BusyWorker DEF MessageOf
<1>5. /\ Open' \subseteq Open /\ Active' = Active
      /\ \A v \in Busy' : v \in Busy /\ pc'[v] = pc[v]
      /\ \A v \in Busy : v # w => v \in Busy'
    BY <1>2, <1>3, <1>4 DEF Open, Active, Busy, MessageOf
<1>6. pc[w] = "complete" /\ w \in Busy => Open' = {}
    BY <1>3, <1>5, OneBusy DEF Open
<1>7. Leases'
    BY <1>2, <1>3, <1>4 DEF Calm, Leases, OwnsClaim, MessageOf
<1>8. OneOpen' /\ Origins'
    BY <1>3, <1>5 DEF Calm, OneOpen, Origins
<1>9. Places'
    BY <1>2, <1>4, <1>5 DEF Calm, Places, Place
<1>10. Display'
    <2>1. \A v \in Worker : pc[v] = "send" => pc'[v] = "send" /\ reply'[v] = reply[v]
        BY <1>2
    <2>2. ASSUME NEW n \in Open', kind[n] = "choice", NEW v \in Busy, pc[v] = "complete"
          PROVE  v \in Busy' /\ pc'[v] = "complete"
        BY <1>2, <1>5, <1>6, <2>2
    <2>3. shown # NoSet =>
              shown \in Active \/ \E v \in Worker : pc'[v] = "send" /\ reply'[v] = "set"
        BY <2>1 DEF Calm, Display
    <2>4. \A n \in Open' : kind[n] = "choice" =>
              shown = NoSet \/ \E v \in Busy' : pc'[v] = "complete"
        BY <1>5, <2>2 DEF Calm, Display
    <2> QED
        BY <1>5, <2>3, <2>4 DEF Display
<1>11. Resolution'
    <2>1. ASSUME NEW n \in Open', NEW v \in Busy, pc[v] \in Done
          PROVE  v \in Busy' /\ pc'[v] \in Done
        BY <1>2, <1>5, <1>6, <2>1 DEF Done
    <2> QED
        BY <1>5, <2>1 DEF Calm, Resolution, Done
<1> QED
    BY <1>7, <1>8, <1>9, <1>10, <1>11 DEF Calm

\* Transitions find the job owned; the one of a number that was answered is
\* the completion.
LEMMA EndsCalm ==
    ASSUME Inv, Calm, NEW w \in Worker,
           \/ Complete(w) \/ Release(w) \/ Fail(w)
           \/ Dispatch(w) /\ pc'[w] = "idle"
           \/ BreakOff(w) /\ pc[w] \notin {"send", "complete"}
    PROVE  Calm'
<1> DEFINE m == MessageOf(w)
<1>1. /\ pc[w] # "idle" => OwnsClaim(current[w])
      /\ status = [status EXCEPT ![m] = status[m]] /\ ripe = [ripe EXCEPT ![m] = ripe[m]]
      /\ pc \in [Worker -> Phase]
    BY DEF Calm, Leases, Inv, TypeOK, JobTypeOK
<1>2. pc[w] # "idle" => m \in Message /\ status[m] = "processing" /\ ripe[m] \in BOOLEAN
    BY BusyWorker DEF Calm, Leases, OwnsClaim, MessageOf, Inv, TypeOK, JobTypeOK
<1>3. CASE Complete(w)
    <2>1. /\ pc[w] = "complete" /\ Leave(w)
          /\ UNCHANGED <<attempts, customerVars, stateVars>>
          /\ status' = [status EXCEPT ![m] = "completed"]
          /\ ripe' = [ripe EXCEPT ![m] = ripe[m]]
        BY <1>1, <1>3 DEF Complete, CompleteJob, Finish
    <2>2. m = MessageOf(w)
        OBVIOUS
    <2> HIDE DEF m
    <2> QED
        BY <1>2, <2>1, <2>2, EndCalm
<1>4. CASE Release(w)
    BY <1>1, <1>4, EndCalm DEF Release, ReleaseJob, Finish
<1>5. CASE Fail(w)
    BY <1>1, <1>5, EndCalm DEF Fail, FailJob, FailureOutcome, Finish
<1>6. CASE Dispatch(w) /\ pc'[w] = "idle"
    <2>1. pc[w] = "dispatch" /\ Raise(w)
        BY <1>1, <1>6 DEF Dispatch, Step, GoTo
    <2> QED
        BY <1>1, <1>2, <2>1, EndCalm DEF Raise, jobVars
<1>7. CASE BreakOff(w) /\ pc[w] \notin {"send", "complete"}
    BY <1>1, <1>2, <1>7, EndCalm DEF BreakOff, Raise, jobVars
<1> QED
    BY <1>3, <1>4, <1>5, <1>6, <1>7

----------------------------------------------------------------------------
(* The customer, the queue and the clock.                                  *)

\* He answers the set that is active.
LEMMA ReceiveCalm ==
    ASSUME Inv, Calm, NEW m \in Message, NEW k \in Kinds, Receive(m, k), Patient
    PROVE  Calm'
<1>1. /\ status[m] = "absent" /\ status' = [status EXCEPT ![m] = "pending"]
      /\ kind' = [kind EXCEPT ![m] = k] /\ ripe' = [ripe EXCEPT ![m] = TRUE]
      /\ IF k = "choice"
         THEN replyTo' = [replyTo EXCEPT ![m] = shown] /\ shown' = NoSet
         ELSE UNCHANGED <<replyTo, shown>>
      /\ UNCHANGED <<attempts, sent, recommendation, selection, chosen, pc, current, target,
                     reply>>
    BY DEF Receive, InsertJob, stateVars, workerVars
<1>2. /\ kind'[m] = k /\ status'[m] = "pending" /\ Active' = Active
      /\ \A n \in Message : n # m =>
            /\ kind'[n] = kind[n] /\ status'[n] = status[n] /\ ripe'[n] = ripe[n]
            /\ replyTo'[n] = replyTo[n]
      /\ replyTo'[m] = IF k = "choice" THEN shown ELSE NoSet
      /\ chosen[m] = NoSet
    BY <1>1 DEF Active, Calm, Origins, Inv, TypeOK, JobTypeOK
<1>3. \A w \in Worker : pc[w] # "idle" =>
          /\ MessageOf(w) \in Message /\ MessageOf(w) # m /\ MessageOf(w)' = MessageOf(w)
          /\ OwnsClaim(current[w])
    BY <1>1, BusyWorker DEF MessageOf, Calm, Leases
<1>4. /\ Busy' = Busy
      /\ Open' = IF k = "telegram" THEN Open ELSE Open \cup {m}
      /\ k # "telegram" => Open = {} /\ Busy = {}
    <2>1. Busy' = Busy
        BY <1>1, <1>2, <1>3 DEF Busy
    <2>2. Open' = IF k = "telegram" THEN Open ELSE Open \cup {m}
        BY <1>1, <1>2 DEF Open
    <2>3. k # "telegram" => Open = {}
        BY <1>1, <1>2 DEF Patient, Open, Ended
    <2> QED
        BY <2>1, <2>2, <2>3, OneBusy
<1>5. Leases'
    BY <1>1, <1>2, <1>3 DEF Calm, Leases, OwnsClaim, MessageOf
<1>6. OneOpen'
    BY <1>4 DEF Calm, OneOpen
<1>7. Origins'
    BY <1>1, <1>2 DEF Calm, Origins
<1>8. Places'
    BY <1>1, <1>2, <1>3 DEF Calm, Places, Place
<1>9. k # "telegram" => shown = NoSet \/ shown \in Active
    BY <1>4 DEF Calm, Display, Places, Place, Busy
<1>10. Display'
    <2>1. CASE k = "telegram"
        BY <1>1, <1>2, <1>4, <2>1 DEF Calm, Display, Open
    <2>2. CASE k # "telegram"
        BY <1>1, <1>2, <1>4, <1>9, <2>2 DEF Display
    <2> QED
        BY <2>1, <2>2
<1>11. Resolution'
    <2>1. CASE k = "telegram"
        BY <1>1, <1>2, <1>4, <2>1 DEF Calm, Resolution
    <2>2. CASE k # "telegram"
        BY <1>1, <1>2, <1>4, <1>9, <2>2 DEF Calm, Resolution
    <2> QED
        BY <2>1, <2>2
<1> QED
    BY <1>5, <1>6, <1>7, <1>8, <1>10, <1>11 DEF Calm

\* A job can be claimed when nobody works on it.
LEMMA ClaimCalm ==
    ASSUME Inv, Calm, NEW w \in Worker, NEW m \in Message, ClaimJob(w, m)
    PROVE  Calm'
<1>1. /\ pc[w] = "idle" /\ status[m] \in {"pending", "processing"} /\ ripe[m]
      /\ status' = [status EXCEPT ![m] = "processing"]
      /\ attempts' = [attempts EXCEPT ![m] = attempts[m] + 1]
      /\ ripe' = [ripe EXCEPT ![m] = FALSE]
      /\ current' = [current EXCEPT ![w] = [message |-> m, attempt |-> attempts[m] + 1]]
      /\ pc' = [pc EXCEPT ![w] = "dispatch"]
      /\ UNCHANGED <<kind, replyTo, shown, recommendation, selection, chosen, target, reply>>
    BY DEF ClaimJob, ClaimOneJob, Due, ClaimedJob, GoTo, customerVars, stateVars, Inv, TypeOK, JobTypeOK
<1>2. /\ \A v \in Worker : v # w => pc'[v] = pc[v] /\ current'[v] = current[v]
      /\ pc'[w] = "dispatch" /\ current'[w].message = m
      /\ current'[w].attempt = attempts[m] + 1
      /\ status'[m] = "processing" /\ attempts'[m] = attempts[m] + 1 /\ ~ripe'[m]
      /\ \A n \in Message : n # m =>
            status'[n] = status[n] /\ attempts'[n] = attempts[n] /\ ripe'[n] = ripe[n]
    BY <1>1 DEF Inv, TypeOK, JobTypeOK
<1>3. ASSUME NEW v \in Worker, pc[v] # "idle"
      PROVE  v # w /\ MessageOf(v) \in Message /\ MessageOf(v) # m /\ MessageOf(v)' = MessageOf(v)
    BY <1>1, <1>2, <1>3, BusyWorker DEF Calm, Leases, MessageOf
<1>4. /\ Open' = Open /\ Active' = Active /\ MessageOf(w)' = m
      /\ kind[m] = "telegram" => Busy' = Busy
      /\ kind[m] # "telegram" => m \in Open /\ Busy = {} /\ Busy' = {w}
    <2>1. Open' = Open /\ Active' = Active /\ MessageOf(w)' = m
        BY <1>1, <1>2 DEF Open, Active, MessageOf
    <2>2. kind[m] # "telegram" => m \in Open /\ Busy = {}
        BY <1>1, <1>3, OneBusy DEF Open, Busy
    <2>3. Busy' = {v \in Worker : v \in Busy \/ (v = w /\ kind[m] # "telegram")}
        BY <1>1, <1>2, <1>3, <2>1 DEF Busy
    <2>4. w \notin Busy /\ Busy \subseteq Worker
        BY <1>1 DEF Busy
    <2> QED
        BY <2>1, <2>2, <2>3, <2>4
<1>5. Leases'
    <2>1. ASSUME NEW v \in Worker, pc'[v] # "idle"
          PROVE  OwnsClaim(current[v])' /\ ~ripe'[MessageOf(v)']
        <3>1. CASE v = w
            BY <1>2, <1>4, <3>1 DEF OwnsClaim, MessageOf
        <3>2. CASE v # w
            BY <1>2, <1>3, <2>1, <3>2 DEF Calm, Leases, OwnsClaim, MessageOf
        <3> QED
            BY <3>1, <3>2
    <2> QED
        BY <2>1 DEF Leases
<1>6. OneOpen' /\ Origins'
    BY <1>1, <1>2, <1>4 DEF Calm, OneOpen, Origins
<1>7. Places'
    <2>1. Place(w)'
        BY <1>1, <1>2, <1>4 DEF Place
    <2>2. ASSUME NEW v \in Worker, v # w, pc[v] # "idle" PROVE Place(v)'
        BY <1>1, <1>2, <1>3, <1>4, <2>2 DEF Calm, Places, Place
    <2>3. \A v \in Worker : reply'[v] = "set" => pc'[v] \in Done
        BY <1>1, <1>2 DEF Calm, Places, Done
    <2> QED
        BY <1>2, <2>1, <2>2, <2>3 DEF Places
<1>8. Display'
    BY <1>1, <1>2, <1>4 DEF Calm, Display, Open
<1>9. Resolution'
    BY <1>1, <1>2, <1>4 DEF Calm, Resolution, OneOpen, Done, Open
<1> QED
    BY <1>5, <1>6, <1>7, <1>8, <1>9 DEF Calm

\* No lease expires that somebody has.
LEMMA ClockCalm ==
    ASSUME Inv, Calm, NEW m \in Message, ClockPasses(m), Timely
    PROVE  Calm'
<1>1. /\ status[m] \in {"pending", "processing"} /\ ~ripe[m]
      /\ ripe' = [ripe EXCEPT ![m] = TRUE]
      /\ UNCHANGED <<status, attempts, customerVars, stateVars, workerVars>>
    BY DEF ClockPasses, Ripen
<1>2. ripe'[m] /\ \A n \in Message : n # m => ripe'[n] = ripe[n]
    BY <1>1 DEF Inv, TypeOK, JobTypeOK
<1>3. ASSUME NEW w \in Worker, pc[w] # "idle"
      PROVE  MessageOf(w) # m /\ MessageOf(w) \in Message
    <2>1. current[w] \in SetId /\ OwnsClaim(current[w]) /\ MessageOf(w) \in Message
        BY <1>3, BusyWorker DEF Calm, Leases
    <2>2. ASSUME MessageOf(w) = m PROVE FALSE
        <3>1. status[m] = "processing" /\ current[w] = [message |-> m, attempt |-> attempts[m]]
            BY <2>1, <2>2 DEF OwnsClaim, MessageOf, SetId
        <3> QED
            BY <1>1, <1>2, <3>1 DEF Timely
    <2> QED
        BY <2>1, <2>2
<1> USE <1>1 DEF customerVars, stateVars, workerVars
<1>4. /\ Open' = Open /\ Active' = Active /\ Busy' = Busy
      /\ \A w \in Worker : MessageOf(w)' = MessageOf(w)
    BY DEF Open, Active, Busy, MessageOf
<1>5. Leases'
    BY <1>2, <1>3, <1>4 DEF Calm, Leases, OwnsClaim
<1>6. OneOpen' /\ Origins' /\ Display' /\ Resolution'
    BY <1>4 DEF Calm, OneOpen, Origins, Display, Resolution
<1>7. Places'
    BY <1>4 DEF Calm, Places, Place
<1> QED
    BY <1>5, <1>6, <1>7 DEF Calm

LEMMA StutterCalm ==
    ASSUME Calm, UNCHANGED vars
    PROVE  Calm'
<1> USE DEF vars, jobVars, customerVars, stateVars, workerVars
<1>1. /\ Open' = Open /\ Active' = Active /\ Busy' = Busy
      /\ \A w \in Worker : MessageOf(w)' = MessageOf(w)
    BY DEF Open, Active, Busy, MessageOf
<1>2. Leases' /\ OneOpen' /\ Origins'
    BY <1>1 DEF Calm, Leases, OneOpen, Origins, OwnsClaim
<1>3. Display' /\ Resolution'
    BY <1>1 DEF Calm, Display, Resolution
<1>4. Places'
    BY <1>1 DEF Calm, Places, Place
<1> QED
    BY <1>2, <1>3, <1>4 DEF Calm

----------------------------------------------------------------------------
(* The theorems.                                                           *)

LEMMA CalmInit == Init => Calm
<1> SUFFICES ASSUME Init PROVE Calm
    OBVIOUS
<1>1. Open = {} /\ Busy = {}
    BY DEF Init, JobInit, Open, Busy
<1>2. Leases /\ OneOpen /\ Origins /\ Places
    BY <1>1 DEF Init, JobInit, Leases, OneOpen, Origins, Places
<1>3. Display /\ Resolution
    BY <1>1 DEF Init, Display, Resolution
<1> QED
    BY <1>2, <1>3 DEF Calm

LEMMA CalmStep ==
    ASSUME Inv, Inv', Calm, [CalmNext]_vars
    PROVE  Calm'
<1>1. ASSUME NEW m \in Message, NEW k \in Kinds, Receive(m, k), Patient PROVE Calm'
    BY <1>1, ReceiveCalm
<1>2. ASSUME NEW w \in Worker, NEW m \in Message, ClaimJob(w, m) PROVE Calm'
    BY <1>2, ClaimCalm
<1>4. ASSUME NEW w \in Worker, BreakOff(w), Uninterrupted PROVE Calm'
    <2>1. losses' # losses
        BY <1>4 DEF BreakOff, Inv, TypeOK
    <2>2. pc'[w] = "idle"
        BY <1>4 DEF BreakOff, Raise, Leave, GoTo, Inv, TypeOK
    <2>3. pc[w] \notin {"send", "complete"}
        BY <1>4, <2>1, <2>2 DEF Uninterrupted
    <2> QED
        BY <1>4, <2>3, EndsCalm
<1>3. ASSUME NEW w \in Worker, Process(w), ReliableSends, Uninterrupted PROVE Calm'
    <2>1. CASE Dispatch(w)
        BY <2>1, MovesCalm, EndsCalm
    <2>2. CASE Lookup(w) \/ Supersede(w) \/ Resume(w) \/ PersistUnmetDemand(w)
        BY <2>2, MovesCalm
    <2>7. CASE Extract(w) \/ Search(w)
        BY <1>3, <1>4, <2>7, MovesCalm
    <2>3. CASE MarkSelected(w)
        BY <2>3, MovesCalm, MarkSelectedCalm
    <2>4. CASE InsertSet(w)
        BY <2>4, MovesCalm, InsertSetCalm
    <2>5. CASE Send(w)
        <3>1. pc[w] = "send"
            BY <2>5 DEF Send, Step
        <3> QED
            BY <1>3, <2>5, <3>1, SendCalm DEF ReliableSends
    <2>6. CASE Complete(w) \/ Release(w) \/ Fail(w)
        BY <2>6, EndsCalm
    <2> QED
        BY <1>3, <2>1, <2>2, <2>3, <2>4, <2>5, <2>6, <2>7 DEF Process
<1>5. ASSUME NEW m \in Message, ClockPasses(m), Timely PROVE Calm'
    BY <1>5, ClockCalm
<1>6. CASE UNCHANGED vars
    BY <1>6, StutterCalm
<1> QED
    BY <1>1, <1>2, <1>3, <1>4, <1>5, <1>6 DEF CalmNext, Next

LEMMA CalmInvariance == CalmSpec => [](Inv /\ Calm)
<1>1. Init => Inv /\ Calm
    BY InitInv, CalmInit
<1>2. Inv /\ Calm /\ [CalmNext]_vars => (Inv /\ Calm)'
    <2> SUFFICES ASSUME Inv, Calm, [CalmNext]_vars PROVE Inv' /\ Calm'
        OBVIOUS
    <2>1. Inv'
        BY NextInv DEF CalmNext
    <2> QED
        BY <2>1, CalmStep
<1> QED
    BY <1>1, <1>2, PTL DEF CalmSpec, CalmNext

----------------------------------------------------------------------------
(* Theorems.                                                               *)

\* However many workers run, a number the customer answers the displayed set
\* with selects from the set he was shown last before he answered, or from none
\* (whatsapp_echo.py:255, service.py:136), when he writes once at a time, sends
\* succeed, and calls neither outlive their leases nor break off on their way
\* from the send to the completion.
THEOREM ChoicesResolved == CalmSpec => []ChoicesResolveTheirSet
<1>1. Calm => ChoicesResolveTheirSet
    BY DEF Calm, Resolution, ChoicesResolveTheirSet
<1> QED
    BY <1>1, CalmInvariance, PTL

\* Under the same assumptions no such number reaches the extractor or the
\* product search (whatsapp_echo.py:361, README.md:24).
THEOREM ChoicesNotExtracted == CalmSpec => []ChoicesAreNotExtracted
<1>1. ASSUME Inv, Calm, NEW w \in Worker, pc[w] \in {"extract", "search"}
      PROVE  kind[MessageOf(w)] # "choice" \/ replyTo[MessageOf(w)] = NoSet
    BY <1>1 DEF Calm, Places, Place
<1>2. Inv /\ Calm => ChoicesAreNotExtracted
    BY <1>1 DEF ChoicesAreNotExtracted
<1> QED
    BY <1>2, CalmInvariance, PTL
=============================================================================
