---------------------------- MODULE Proxy_proofs ----------------------------
(***************************************************************************)
(* Proofs about Proxy, for any endpoints, any requests and any number of   *)
(* network faults.                                                         *)
(***************************************************************************)
EXTENDS Proxy, TLAPS

USE MaxFaultsAssumption

LEMMA InitEstablishes == Init => IInv
<1> SUFFICES ASSUME Init PROVE IInv
  OBVIOUS
<1>1. \A r \in Requests : <<r, "original">> \in Messages /\ <<r, "duplicate">> \in Messages
  BY DEF Messages
<1>2. TypeOK
  BY DEF Init, TypeOK, Place, Record
<1>3. HealOrder
  BY DEF Init, HealOrder
<1>4. ASSUME NEW m \in Messages
      PROVE  Watched(m) /\ Trail(m)
  <2>1. at[m] = "idle" /\ record[m] = "none" /\ m \notin reached
    BY DEF Init
  <2> QED BY <2>1 DEF Watched, Trail, Checking
<1>5. ASSUME NEW r \in Requests
      PROVE  Paired(r)
  <2>1. arrivals[r] = 0 /\ at[<<r, "duplicate">>] = "idle"
    BY <1>1 DEF Init
  <2>2. \A m : One(m) = 0
    BY DEF Init, One
  <2> QED BY <2>1, <2>2 DEF Paired
<1>6. PassedWhenOpen /\ ReasonIsTrue
  BY DEF Init, PassedWhenOpen, Passed, ReasonIsTrue, Blocking
<1>7. OneEcho /\ RecordIsTrue
  BY <1>1 DEF Init, OneEcho, RecordIsTrue
<1> QED BY <1>2, <1>3, <1>4, <1>5, <1>6, <1>7 DEF IInv

(* What a link's condition is, without its definition by cases.            *)
LEMMA ConditionIs ==
  ASSUME NEW l
  PROVE  /\ \A k \in Blocking : l \in rules[k] <=> k \in Condition(l)
         /\ "open" \in Condition(l) <=> \A k \in Blocking : l \notin rules[k]
BY DEF Condition, Blocking

LEMMA ConditionWillBe ==
  ASSUME NEW l
  PROVE  /\ \A k \in Blocking : l \in rules'[k] <=> k \in Condition(l)'
         /\ "open" \in Condition(l)' <=> \A k \in Blocking : l \notin rules'[k]
BY DEF Condition, Blocking

(* A history only grows, and takes in the present while it is kept.        *)
LEMMA SeenGrows ==
  ASSUME Observe, NEW m \in Messages
  PROVE  /\ seen[m] \subseteq seen'[m]
         /\ at'[m] \in Checking => Condition(link[m[1]])' \subseteq seen'[m]
         /\ at'[m] \notin Checking => seen'[m] = seen[m]
BY DEF Observe

LEMMA CopyIsMessage ==
  ASSUME NEW m \in Messages
  PROVE  /\ m[1] \in Requests /\ m[2] \in {"original", "duplicate"}
         /\ m = <<m[1], m[2]>>
         /\ <<m[1], "original">> \in Messages /\ <<m[1], "duplicate">> \in Messages
BY DEF Messages

(* Type correctness of a step.                                             *)
LEMMA TypeStep == TypeOK /\ Next => TypeOK'
<1> SUFFICES ASSUME TypeOK, Next PROVE TypeOK'
  OBVIOUS
<1>1. ASSUME link' = link
      PROVE  (seen \in [Messages -> SUBSET (Blocking \cup {"open"})])'
  <2>1. \A l : Condition(l)' \subseteq Blocking \cup {"open"}
    BY DEF Condition
  <2> QED BY <1>1, <2>1 DEF TypeOK, Next, Observe
<1>2. ASSUME NEW kind \in RuleKinds, NEW l \in Links, SetRule(kind, l)
      PROVE  TypeOK'
  BY <1>1, <1>2 DEF TypeOK, SetRule, Fault, handlers
<1>3. ASSUME SetPartition
      PROVE  TypeOK'
  <2>1. \A side : Divided(side) \subseteq Links
    BY DEF Divided
  <2> QED BY <1>1, <1>3, <2>1 DEF TypeOK, SetPartition, Fault, handlers, RuleKinds, Blocking
<1>4. ASSUME Heal
      PROVE  TypeOK'
  BY <1>1, <1>4 DEF TypeOK, Heal, Clear, Fault, handlers
<1>5. ASSUME NEW r \in Requests, Receive(r)
      PROVE  TypeOK'
  BY <1>1, <1>5 DEF TypeOK, Receive, Go, Place
<1>6. ASSUME NEW m \in Messages, Handle(m)
      PROVE  TypeOK'
  <2> USE DEF TypeOK
  <2>1. m[1] \in Requests /\ <<m[1], "duplicate">> \in Messages
    BY CopyIsMessage
  <2>2. \A place \in Place : Go(m, place) => at' \in [Messages -> Place]
    BY DEF Go
  <2>3. \A what \in Record :
          record' = [record EXCEPT ![m] = what] => record' \in [Messages -> Record]
    OBVIOUS
  <2>4. CASE Check(m)
    BY <1>1, <2>2, <2>4 DEF Check, Look, Place
  <2>5. CASE Explain(m)
    <3>1. \A reason \in {"drop", "asymmetric", "partition"} :
            Block(m, reason) => at' \in [Messages -> Place] /\ record' \in [Messages -> Record]
      BY <2>2, <2>3 DEF Block, Place, Record
    <3>2. Go(m, "why asymmetric") => at' \in [Messages -> Place]
      BY <2>2 DEF Place
    <3> QED BY <1>1, <2>5, <3>1, <3>2 DEF Explain
  <2>6. CASE Double(m)
    <3>1. doubled' \in [Messages -> BOOLEAN]
      BY <2>6 DEF Double, Applies
    <3> QED BY <1>1, <2>2, <2>6, <3>1 DEF Double, Place
  <2>7. CASE Delay(m)
    <3>1. Send(m) => at' \in [Messages -> Place] /\ record' \in [Messages -> Record]
      BY <2>2, <2>3 DEF Send, Place, Record
    <3>2. Go(m, "delaying") => at' \in [Messages -> Place]
      BY <2>2 DEF Place
    <3> QED BY <1>1, <2>7, <3>1, <3>2 DEF Delay, Send
  <2>8. CASE GiveUpInDelay(m) \/ SenderGone(m) \/ Resend(m)
    BY <1>1, <2>2, <2>8 DEF GiveUpInDelay, SenderGone, Resend, Place
  <2>9. CASE Arrive(m)
    <3>1. arrivals' \in [Requests -> Nat] /\ reached' \in SUBSET Messages
      BY <2>1, <2>9 DEF Arrive
    <3> QED BY <1>1, <2>2, <2>9, <3>1 DEF Arrive, Place
  <2>10. CASE Deliver(m) \/ Fail(m)
    BY <1>1, <2>2, <2>3, <2>10 DEF Deliver, Fail, Place, Record
  <2>11. CASE Finish(m)
    BY <1>1, <2>1, <2>11 DEF Finish, Place
  <2> QED BY <1>6, <2>4, <2>5, <2>6, <2>7, <2>8, <2>9, <2>10, <2>11 DEF Handle
<1> QED BY <1>2, <1>3, <1>4, <1>5, <1>6 DEF Next, NetworkFault

(* While a heal runs nothing else sets a rule.                             *)
LEMMA HealOrderStep == TypeOK /\ HealOrder /\ Next => HealOrder'
<1> SUFFICES ASSUME TypeOK, HealOrder, Next PROVE HealOrder'
  OBVIOUS
<1>1. CASE UNCHANGED <<rules, healing>>
  BY <1>1 DEF HealOrder
<1>2. CASE \E kind \in RuleKinds, l \in Links : SetRule(kind, l)
  BY <1>2 DEF SetRule, Fault, HealOrder
<1>3. CASE SetPartition
  BY <1>3 DEF SetPartition, Fault, HealOrder
<1>4. CASE Heal
  BY <1>4 DEF Heal, Clear, Clears, HealOrder, RuleKinds, Blocking, TypeOK
<1>5. ASSUME NEW m \in Messages, Handle(m)
      PROVE  UNCHANGED <<rules, healing>>
  BY <1>5 DEF Handle, Check, Look, Explain, Double, Delay, Send, GiveUpInDelay,
       Arrive, Deliver, Fail, Finish, SenderGone, Resend
<1>6. (\E r \in Requests : Receive(r)) => UNCHANGED <<rules, healing>>
  BY DEF Receive
<1> QED BY <1>1, <1>2, <1>3, <1>4, <1>5, <1>6 DEF Next, NetworkFault

(* What a step of the handler of m leaves alone: the rules, and every      *)
(* other message, but for a duplicate it puts to sleep.                    *)
LEMMA HandleIsLocal ==
  ASSUME TypeOK, NEW m \in Messages, Handle(m)
  PROVE  /\ UNCHANGED <<rules, link>>
         /\ \A n \in Messages \ {m} :
              /\ record'[n] = record[n]
              /\ n \in reached' <=> n \in reached
              /\ \/ at'[n] = at[n]
                 \/ /\ at[m] = "served" /\ m[2] = "original"
                    /\ n = <<m[1], "duplicate">> /\ at'[n] = "sleeping"
                    /\ Finish(m)
<1> USE DEF TypeOK, Go
<1>1. CASE Finish(m)
  BY <1>1 DEF Finish, Doubles
<1>2. CASE Check(m)
  BY <1>2 DEF Check, Look
<1>3. CASE Explain(m)
  BY <1>3 DEF Explain, Block
<1>4. CASE Delay(m)
  BY <1>4 DEF Delay, Send
<1>5. CASE Double(m) \/ GiveUpInDelay(m) \/ SenderGone(m) \/ Resend(m)
  BY <1>5 DEF Double, GiveUpInDelay, SenderGone, Resend
<1>6. CASE Arrive(m) \/ Deliver(m) \/ Fail(m)
  BY <1>6 DEF Arrive, Deliver, Fail
<1> QED BY <1>1, <1>2, <1>3, <1>4, <1>5, <1>6 DEF Handle

(* The history of a message that a step does not concern: the rules are as *)
(* they were, or it is not being checked.                                  *)
LEMMA WatchedStays ==
  ASSUME TypeOK, Observe, NEW m \in Messages, Watched(m),
         link' = link, at'[m] = at[m],
         rules' = rules
  PROVE  Watched(m)'
<1>1. link[m[1]] = link'[m[1]] /\ Condition(link[m[1]])' = Condition(link[m[1]])
  BY DEF Condition
<1> QED BY <1>1, SeenGrows DEF Watched, Applies

LEMMA WatchedAside ==
  ASSUME Observe, NEW m \in Messages,
         at'[m] \notin Checking
  PROVE  Watched(m)'
BY DEF Watched, Checking

(* The rules change under a message.  Only the last call of a heal can     *)
(* clear the rule that still blocks it, and then its link is open.         *)
LEMMA WatchedFault ==
  ASSUME TypeOK, HealOrder, Observe, NEW m \in Messages, Watched(m),
         NetworkFault
  PROVE  Watched(m)'
<1> DEFINE l == link[m[1]]
<1>1. link' = link /\ at' = at
  BY DEF NetworkFault, SetRule, SetPartition, Heal, Clear, handlers
<1>2. /\ at'[m] \in Checking => Condition(l)' \subseteq seen'[m]
      /\ seen[m] \subseteq seen'[m]
  BY SeenGrows
<1>3. CASE at[m] \notin Checking
  BY <1>1, <1>3, WatchedAside
<1>4. CASE at[m] \in Checking /\ "open" \in seen'[m]
  BY <1>1, <1>2, <1>4 DEF Watched, Checking
<1>5. CASE at[m] \in Checking /\ "open" \notin seen'[m]
  <2>1. \E k \in Blocking : l \in rules'[k]
    BY <1>1, <1>2, <1>5, ConditionWillBe
  <2>2. /\ l \in rules["drop"] \cup rules["asymmetric"] => l \in rules'["drop"] \cup rules'["asymmetric"]
        /\ l \in rules["asymmetric"] => l \in rules'["asymmetric"]
    <3>1. CASE ~Heal
      BY <3>1 DEF NetworkFault, SetRule, SetPartition, TypeOK, RuleKinds, Blocking
    <3>2. CASE Heal
      BY <2>1, <3>2 DEF Heal, Clear, Clears, HealOrder, RuleKinds, Blocking
    <3> QED BY <3>1, <3>2
  <2> QED BY <1>1, <1>2, <1>5, <2>2 DEF Watched, Applies
<1> QED BY <1>3, <1>4, <1>5

(* The message whose handler takes the step.                               *)
LEMMA WatchedHandled ==
  ASSUME TypeOK, Observe, NEW m \in Messages, Watched(m), Handle(m)
  PROVE  Watched(m)'
<1> DEFINE l == link[m[1]]
<1>1. UNCHANGED <<rules, link>>
  BY HandleIsLocal
<1>2. /\ at'[m] \in Checking => Condition(l)' \subseteq seen'[m]
      /\ seen[m] \subseteq seen'[m]
  BY SeenGrows
<1>3. CASE at'[m] \notin Checking
  BY <1>3, WatchedAside
<1>4. CASE at'[m] \in Checking /\ at[m] \notin Checking
  <2>1. at[m] = "sleeping" /\ at'[m] = "partition"
    BY <1>4 DEF Handle, Check, Look, Explain, Double, Delay, Send, GiveUpInDelay,
         Arrive, Deliver, Fail, Finish, SenderGone, Resend, Go, Checking, TypeOK, Block
  <2> QED BY <1>1, <1>2, <2>1 DEF Watched
<1>5. CASE at'[m] \in Checking /\ at[m] \in Checking
  <2>1. Check(m) \/ Explain(m)
    BY <1>5 DEF Handle, Double, Delay, Send, GiveUpInDelay,
         Arrive, Deliver, Fail, Finish, SenderGone, Resend, Checking
  <2>2. /\ Condition(l) \subseteq seen[m]
        /\ \A k \in Blocking : Applies(k, m) <=> k \in Condition(l)
        /\ "open" \in Condition(l) <=> \A k \in Blocking : ~Applies(k, m)
    BY <1>5, ConditionIs DEF Watched, Applies
  <2>3. CASE at[m] \in {"partition", "drop", "asymmetric"}
    <3>1. /\ at'[m] = "why drop" => Applies(at[m], m)
          /\ at'[m] = "drop" => at[m] = "partition" /\ ~Applies("partition", m)
          /\ at'[m] = "asymmetric" => at[m] = "drop" /\ ~Applies("drop", m)
          /\ at'[m] \notin {"partition", "why asymmetric"}
      BY <2>1, <2>3 DEF Check, Look, Explain, Go, TypeOK
    <3> QED BY <1>1, <1>2, <2>2, <2>3, <3>1 DEF Watched, Applies, Blocking
  <2>4. CASE at[m] \in {"why drop", "why asymmetric"}
    <3>1. at[m] = "why drop" /\ at'[m] = "why asymmetric" /\ ~Applies("drop", m)
      BY <1>5, <2>1, <2>4 DEF Check, Look, Explain, Block, Go, TypeOK, Checking
    <3> QED BY <1>1, <1>2, <2>2, <3>1 DEF Watched, Applies, Blocking
  <2> QED BY <1>5, <2>3, <2>4 DEF Checking
<1> QED BY <1>3, <1>4, <1>5

(* The part of the invariant about the check holds after every step.       *)
LEMMA WatchedStep ==
  ASSUME TypeOK, HealOrder, Next, \A m \in Messages : Watched(m)
  PROVE  \A m \in Messages : Watched(m)'
<1> SUFFICES ASSUME NEW n \in Messages PROVE Watched(n)'
  OBVIOUS
<1>1. Observe
  BY DEF Next
<1>2. CASE NetworkFault
  BY <1>1, <1>2, WatchedFault
<1>3. ASSUME NEW r \in Requests, Receive(r)
      PROVE  Watched(n)'
  <2>1. UNCHANGED <<rules, link>>
    BY <1>3 DEF Receive
  <2>2. CASE n # <<r, "original">>
    BY <1>1, <1>3, <2>1, <2>2, WatchedStays DEF Receive, Go, TypeOK
  <2>3. CASE n = <<r, "original">>
    <3>1. at'[n] = "partition"
      BY <1>3, <2>3 DEF Receive, Go, TypeOK
    <3> QED BY <1>1, <2>1, <3>1, SeenGrows DEF Watched, Checking
  <2> QED BY <2>2, <2>3
<1>4. ASSUME NEW m \in Messages, Handle(m)
      PROVE  Watched(n)'
  <2>1. CASE n = m
    BY <1>1, <1>4, <2>1, WatchedHandled
  <2>2. CASE n # m /\ at'[n] = at[n]
    BY <1>1, <1>4, <2>2, WatchedStays, HandleIsLocal
  <2>3. CASE n # m /\ at'[n] = "sleeping"
    BY <1>1, <2>3, WatchedAside DEF Checking
  <2> QED BY <1>4, <2>1, <2>2, <2>3, HandleIsLocal
<1> QED BY <1>2, <1>3, <1>4 DEF Next

(* A message passes only the check's last look, and by then an unblocked   *)
(* link has been seen open.                                                *)
LEMMA PassedStep ==
  ASSUME TypeOK, Next, PassedWhenOpen, \A m \in Messages : Watched(m)
  PROVE  PassedWhenOpen'
<1> SUFFICES ASSUME NEW n \in Messages, Passed(n)' PROVE "open" \in seen'[n]
  BY DEF PassedWhenOpen
<1>1. Observe /\ seen[n] \subseteq seen'[n]
  BY SeenGrows DEF Next
<1>2. CASE Passed(n)
  BY <1>1, <1>2 DEF PassedWhenOpen
<1>3. CASE ~Passed(n)
  <2>1. at[n] # at'[n]
    BY <1>3 DEF Passed
  <2>2. PICK m \in Messages : Handle(m)
    <3>1. NetworkFault => at' = at
      BY DEF NetworkFault, SetRule, SetPartition, Heal, Clear, handlers
    <3>2. ASSUME NEW r \in Requests, Receive(r) PROVE FALSE
      BY <2>1, <3>2 DEF Receive, Go, TypeOK, Passed
    <3> QED BY <2>1, <3>1, <3>2 DEF Next
  <2>3. n = m
    BY <2>1, <2>2, HandleIsLocal DEF Passed
  <2>4. at[n] = "asymmetric" /\ ~Applies("asymmetric", n)
    BY <1>3, <2>2, <2>3 DEF Handle, Check, Look, Explain, Double, Delay, Send,
       GiveUpInDelay, Arrive, Deliver, Fail, Finish, SenderGone, Resend, Go, Block,
       Passed, TypeOK
  <2> QED BY <1>1, <2>4 DEF Watched
<1> QED BY <1>2, <1>3

(* The reason is recorded from what has been seen.                         *)
LEMMA ReasonStep ==
  ASSUME TypeOK, Next, ReasonIsTrue, \A m \in Messages : Watched(m)
  PROVE  ReasonIsTrue'
<1> SUFFICES ASSUME NEW n \in Messages, record'[n] \in Blocking
             PROVE  /\ seen'[n] \cap Blocking # {}
                    /\ "open" \in seen'[n] \/ record'[n] \in seen'[n]
  BY DEF ReasonIsTrue
<1>1. Observe /\ seen[n] \subseteq seen'[n]
  BY SeenGrows DEF Next
<1>2. CASE record'[n] = record[n]
  BY <1>1, <1>2 DEF ReasonIsTrue
<1>3. CASE record'[n] # record[n]
  <2>1. PICK m \in Messages : Handle(m)
    BY <1>3 DEF Next, NetworkFault, SetRule, SetPartition, Heal, Clear, handlers, Receive
  <2>2. n = m
    BY <1>3, <2>1, HandleIsLocal
  <2>3. Explain(n)
    BY <1>3, <2>1, <2>2 DEF Handle, Check, Look, Double, Delay, Send, GiveUpInDelay,
       Arrive, Deliver, Fail, Finish, SenderGone, Resend, TypeOK, Blocking
  <2>4. /\ at[n] \in {"why drop", "why asymmetric"}
        /\ record'[n] \in {"drop", "asymmetric"} => Applies(record'[n], n)
        /\ record'[n] = "partition" =>
             at[n] = "why asymmetric" /\ ~Applies("asymmetric", n)
    BY <1>3, <2>3 DEF Explain, Block, TypeOK
  <2>5. \A k \in Blocking : Applies(k, n) => k \in seen[n]
    BY <2>4, ConditionIs DEF Watched, Applies, Checking
  <2> QED BY <1>1, <2>4, <2>5 DEF Watched, Blocking
<1> QED BY <1>2, <1>3

(* The start of an original's handler.                                     *)
Starts(n) == at[n] = "idle" /\ at'[n] = "partition" /\ n[2] = "original"

(* A step that is no handler's changes no record, and starts at most one   *)
(* handler of an original.                                                 *)
LEMMA NotHandled ==
  ASSUME TypeOK, Next, ~ \E m \in Messages : Handle(m)
  PROVE  /\ UNCHANGED <<record, reached, arrivals>>
         /\ \A n \in Messages : at'[n] = at[n] \/ Starts(n)
<1>1. CASE NetworkFault
  <2>1. handlers' = handlers
    BY <1>1 DEF NetworkFault, SetRule, SetPartition, Heal, Clear
  <2> QED BY <2>1 DEF handlers
<1>2. ASSUME NEW r \in Requests, Receive(r)
      PROVE  /\ UNCHANGED <<record, reached, arrivals>>
             /\ \A n \in Messages : at'[n] = at[n] \/ Starts(n)
  <2>1. <<r, "original">> \in Messages
    BY DEF Messages
  <2>2. ASSUME NEW n \in Messages, at'[n] # at[n]
        PROVE  n = <<r, "original">> /\ at[n] = "idle" /\ at'[n] = "partition"
    BY <1>2, <2>1, <2>2 DEF Receive, Go, TypeOK
  <2> QED BY <1>2, <2>2 DEF Receive, Starts
<1> QED BY <1>1, <1>2 DEF Next

(* What the step of a handler does to its own message.                     *)
Advances(m) ==
  \/ /\ record'[m] = record[m] /\ (m \in reached' <=> m \in reached)
     /\ at[m] \in Checking \cup {"duplicate", "sleeping"}
     /\ at'[m] \in Checking \cup {"duplicate", "delay"}
  \/ /\ at[m] \in Checking /\ at'[m] = "done"
     /\ record'[m] \in Blocking /\ (m \in reached' <=> m \in reached)
  \/ /\ record'[m] = record[m] /\ (m \in reached' <=> m \in reached)
     /\ at[m] = "delay" /\ at'[m] = "delaying"
  \/ /\ record'[m] = record[m] /\ (m \in reached' <=> m \in reached)
     /\ at[m] \in {"delaying", "served", "sleeping"} /\ at'[m] = "done"
  \/ /\ record'[m] = "sent" /\ (m \in reached' <=> m \in reached)
     /\ at[m] \in {"delay", "delaying"} /\ at'[m] = "forward"
  \/ /\ record'[m] = record[m] /\ m \in reached'
     /\ at[m] = "forward" /\ at'[m] = "waiting"
  \/ /\ record'[m] \in {"delivered", "unreachable"}
     /\ (m \in reached' <=> m \in reached)
     /\ record'[m] = "delivered" => m \in reached
     /\ at[m] \in {"forward", "waiting"} /\ at'[m] = "served"

LEMMA HandleAdvances ==
  ASSUME TypeOK, NEW m \in Messages, Handle(m), Trail(m)
  PROVE  Advances(m)
<1> USE DEF TypeOK, Go, Advances, Checking
<1>1. CASE Check(m) \/ Double(m) \/ Resend(m)
  BY <1>1 DEF Check, Look, Double, Resend
<1>2. CASE Explain(m)
  BY <1>2 DEF Explain, Block, Blocking
<1>3. CASE Delay(m)
  BY <1>3 DEF Delay, Send
<1>4. CASE GiveUpInDelay(m) \/ SenderGone(m)
  BY <1>4 DEF GiveUpInDelay, SenderGone
<1>5. CASE Finish(m)
  <2>1. at[m] = "served" /\ at'[m] = "done"
    BY <1>5 DEF Finish, Doubles
  <2> QED BY <1>5, <2>1 DEF Finish
<1>6. CASE Arrive(m)
  BY <1>6 DEF Arrive
<1>7. CASE Deliver(m) \/ Fail(m)
  BY <1>7 DEF Deliver, Fail, Trail
<1> QED BY <1>1, <1>2, <1>3, <1>4, <1>5, <1>6, <1>7 DEF Handle

(* The record of every message goes with its place after every step.       *)
LEMMA TrailStep ==
  ASSUME TypeOK, Next, RecordIsTrue, \A m \in Messages : Trail(m),
         \A r \in Requests : Paired(r)
  PROVE  (\A m \in Messages : Trail(m))' /\ RecordIsTrue'
<1> SUFFICES ASSUME NEW n \in Messages
             PROVE  /\ Trail(n)'
                    /\ n \in reached' => record'[n] \in {"sent", "delivered", "unreachable"}
                    /\ record'[n] = "delivered" => n \in reached'
                    /\ record'[n] = "sent" => at'[n] \in {"forward", "waiting"}
  BY DEF RecordIsTrue
<1>1. CASE ~ \E m \in Messages : Handle(m)
  BY <1>1, NotHandled DEF Starts, Trail, RecordIsTrue
<1>2. ASSUME NEW m \in Messages, Handle(m), n # m
      PROVE  /\ Trail(n)'
             /\ n \in reached' => record'[n] \in {"sent", "delivered", "unreachable"}
             /\ record'[n] = "delivered" => n \in reached'
             /\ record'[n] = "sent" => at'[n] \in {"forward", "waiting"}
  <2>1. CASE at'[n] = at[n]
    BY <1>2, <2>1, HandleIsLocal DEF Trail, RecordIsTrue
  <2>2. CASE at'[n] # at[n]
    <3>1. at[m] = "served" /\ m[2] = "original" /\ n = <<m[1], "duplicate">> /\ at'[n] = "sleeping"
      BY <1>2, <2>2, HandleIsLocal
    <3>2. m = <<m[1], "original">> /\ m[1] \in Requests
      BY <3>1, CopyIsMessage
    <3>3. at[n] = "idle"
      BY <3>1, <3>2 DEF Paired
    <3> QED BY <1>2, <3>1, <3>3, HandleIsLocal DEF Trail, RecordIsTrue
  <2> QED BY <2>1, <2>2
<1>3. CASE Handle(n)
  BY <1>3, HandleAdvances DEF Advances, Trail, RecordIsTrue, Checking, Blocking
<1> QED BY <1>1, <1>2, <1>3

(* A request and its duplicate after every step.                           *)
LEMMA PairedStep ==
  ASSUME TypeOK, Next, OneEcho, NEW r \in Requests,
         \A m \in Messages : Trail(m), \A q \in Requests : Paired(q)
  PROVE  /\ Paired(r)'
         /\ at'[<<r, "duplicate">>] # "idle" =>
              record'[<<r, "original">>] \in {"delivered", "unreachable"}
<1> DEFINE o == <<r, "original">>
           d == <<r, "duplicate">>
<1>1. o \in Messages /\ d \in Messages /\ o # d
  BY DEF Messages
<1>2. CASE ~ \E m \in Messages : Handle(m)
  <2>1. UNCHANGED <<record, reached, arrivals>> /\ at'[d] = at[d]
    BY <1>1, <1>2, NotHandled DEF Starts
  <2>2. at[o] = "done" => at'[o] = "done"
    BY <1>1, <1>2, NotHandled DEF Starts
  <2>3. One(o)' = One(o) /\ One(d)' = One(d)
    BY <2>1 DEF One
  <2> QED BY <2>1, <2>2, <2>3 DEF Paired, OneEcho
<1>3. ASSUME NEW m \in Messages, Handle(m)
      PROVE  /\ Paired(r)'
             /\ at'[d] # "idle" => record'[o] \in {"delivered", "unreachable"}
  <2>1. /\ at[m] \notin {"idle", "done"}
        /\ Advances(m)
    BY <1>3, HandleAdvances DEF Advances, Checking
  <2>2. arrivals'[r] = One(o)' + One(d)'
    <3>1. CASE Arrive(m)
      <4>1. /\ \A n \in Messages : One(n)' = IF n = m THEN One(n) + 1 ELSE One(n)
            /\ arrivals'[r] = IF m[1] = r THEN arrivals[r] + 1 ELSE arrivals[r]
        BY <3>1 DEF Arrive, One, Trail, TypeOK
      <4>2. m[1] = r <=> m = o \/ m = d
        <5>1. CASE m[2] = "original"
          BY <5>1, CopyIsMessage
        <5>2. CASE m[2] = "duplicate"
          <6>1. m = <<m[1], "duplicate">>
            BY <5>2, CopyIsMessage
          <6> QED BY <6>1
        <5> QED BY <5>1, <5>2, CopyIsMessage
      <4> QED BY <1>1, <4>1, <4>2 DEF Paired, TypeOK, One
    <3>2. CASE ~Arrive(m)
      <4>1. UNCHANGED <<arrivals, reached>>
        BY <1>3, <3>2 DEF Handle, Check, Look, Explain, Double, Delay, Send,
           GiveUpInDelay, Deliver, Fail, Finish, SenderGone, Resend
      <4> QED BY <4>1 DEF Paired, One
    <3> QED BY <3>1, <3>2
  <2>3. /\ at'[d] # "idle" => at'[o] = "done"
        /\ at'[d] # "idle" => record'[o] \in {"delivered", "unreachable"}
    <3>1. CASE m = o
      <4>1. at[d] = "idle"
        BY <2>1, <3>1 DEF Paired
      <4>2. at'[d] # "idle" => at[o] = "served" /\ Finish(o)
        BY <1>1, <1>3, <3>1, <4>1, HandleIsLocal
      <4>3. Finish(o) => at'[o] = "done" /\ record' = record
        BY <1>1 DEF Finish, TypeOK
      <4> QED BY <1>1, <4>2, <4>3 DEF Trail
    <3>2. CASE m # o
      <4>1. record'[o] = record[o] /\ at'[o] = at[o]
        BY <1>1, <1>3, <3>2, HandleIsLocal
      <4>2. at'[d] # "idle" => at[d] # "idle"
        <5>1. CASE m = d
          BY <2>1, <5>1
        <5>2. CASE m # d
          <6>1. ~(d = <<m[1], "duplicate">> /\ m[2] = "original")
            BY <3>2, CopyIsMessage
          <6> QED BY <1>1, <1>3, <5>2, <6>1, HandleIsLocal
        <5> QED BY <5>1, <5>2
      <4> QED BY <4>1, <4>2 DEF Paired, OneEcho
    <3> QED BY <3>1, <3>2
  <2> QED BY <2>2, <2>3 DEF Paired
<1> QED BY <1>2, <1>3

LEMMA StepPreserves == IInv /\ [Next]_vars => IInv'
<1> SUFFICES ASSUME IInv, [Next]_vars PROVE IInv'
  OBVIOUS
<1> USE DEF IInv
<1>1. CASE UNCHANGED vars
  BY <1>1 DEF vars, handlers, TypeOK, HealOrder, Watched, Condition, Applies, Trail,
     Paired, One, PassedWhenOpen, Passed, ReasonIsTrue, OneEcho, RecordIsTrue
<1>2. CASE Next
  <2>1. TypeOK'
    BY <1>2, TypeStep
  <2>2. HealOrder'
    BY <1>2, HealOrderStep
  <2>3. \A m \in Messages : Watched(m)'
    BY <1>2, WatchedStep
  <2>4. PassedWhenOpen' /\ ReasonIsTrue'
    BY <1>2, PassedStep, ReasonStep
  <2>5. (\A m \in Messages : Trail(m))' /\ RecordIsTrue'
    BY <1>2, TrailStep
  <2>6. ASSUME NEW r \in Requests
        PROVE  /\ Paired(r)'
               /\ at'[<<r, "duplicate">>] # "idle" =>
                    record'[<<r, "original">>] \in {"delivered", "unreachable"}
    BY <1>2, PairedStep
  <2>7. \A m : One(m)' \in {0, 1}
    BY DEF One
  <2>8. OneEcho'
    <3> SUFFICES ASSUME NEW r \in Requests
                 PROVE  arrivals'[r] <= 2
      BY <2>6 DEF OneEcho
    <3>1. arrivals'[r] = One(<<r, "original">>)' + One(<<r, "duplicate">>)'
      BY <2>6 DEF Paired
    <3> QED BY <2>7, <3>1
  <2> QED BY <2>1, <2>2, <2>3, <2>4, <2>5, <2>6, <2>8
<1> QED BY <1>1, <1>2

(* The inductive invariant holds of every state the proxy can reach.       *)
THEOREM Invariance == Spec => []IInv
BY InitEstablishes, StepPreserves, PTL DEF Spec

(* Type correctness of the proxy.                                          *)
THEOREM TypeCorrect == Spec => []TypeOK
BY Invariance, PTL DEF IInv

(* However the faults and the three calls of a heal fall between the looks *)
(* of a handler (proxy.go:390), no message passes whose link was blocked   *)
(* all the time it was looked at.                                          *)
THEOREM NothingSlipsThrough == Spec => []PassedWhenOpen
BY Invariance, PTL DEF IInv

(* A reason recorded for a blocked message (proxy.go:391-396) was a reason *)
(* at some moment, unless the link was opened meanwhile.                   *)
THEOREM ReasonsAreTrue == Spec => []ReasonIsTrue
BY Invariance, PTL DEF IInv

(* The duplication of a request ends with its first copy (proxy.go:559).   *)
THEOREM EchoEnds == Spec => []OneEcho
BY Invariance, PTL DEF IInv

(* The row of a message tells whether it can have reached its node.        *)
THEOREM RecordsAreTrue == Spec => []RecordIsTrue
BY Invariance, PTL DEF IInv
=============================================================================
