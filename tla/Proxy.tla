-------------------------------- MODULE Proxy --------------------------------
(***************************************************************************)
(* The network proxy of internal/proxy/proxy.go and the network faults of  *)
(* internal/faults that set its rules.                                     *)
(*                                                                         *)
(* A handler looks at the rules one at a time, each under the proxy's lock *)
(* for that look only, so the faults, and the three steps of a heal, come  *)
(* in between.  The faults themselves come one after another, from the     *)
(* scheduler's only goroutine.  What a message carries, and so corruption  *)
(* and clock offsets, is data.                                             *)
(***************************************************************************)
EXTENDS Naturals

CONSTANTS
  Endpoints,  \* nodes and clients, by the names their requests give
  Requests,   \* bound: the requests of senders; each may be duplicated
  MaxFaults   \* bound: network faults, heals included

ASSUME MaxFaultsAssumption == MaxFaults \in Nat

Links == {l \in Endpoints \X Endpoints : l[1] # l[2]}

Blocking == {"partition", "drop", "asymmetric"}
RuleKinds == Blocking \cup {"duplicate", "delay"}

(* A request, and the copy that a duplicate rule makes the proxy send to   *)
(* itself.                                                                 *)
Messages == Requests \X {"original", "duplicate"}

VARIABLES
  rules,     \* of every kind, the links it applies to
  healing,   \* the call a heal is to make next
  faults,    \* the number of network faults so far
  link,      \* of every request, its sender and its destination
  at,        \* where the handler of every message is
  doubled,   \* the handler found a duplicate rule
  record,    \* the row of every message in the store, with its reason
  arrivals,  \* how often each request has reached its node
  reached,   \* the messages that have reached their node
  seen       \* history: what held of its link while a message was checked

handlers == <<link, at, doubled, record, arrivals, reached>>
vars == <<rules, healing, faults, handlers, seen>>

(* What the handler is about to do.                                        *)
Place == {"idle", "sleeping", "partition", "drop", "asymmetric", "why drop",
          "why asymmetric", "duplicate", "delay", "delaying", "forward",
          "waiting", "served", "done"}
Checking == {"partition", "drop", "asymmetric", "why drop", "why asymmetric"}

Record == {"none", "sent", "delivered", "unreachable",
           "partition", "drop", "asymmetric"}

TypeOK ==
  /\ rules \in [RuleKinds -> SUBSET Links]
  /\ healing \in {"nothing", "second", "third"}
  /\ faults \in 0 .. MaxFaults
  /\ link \in [Requests -> Links]
  /\ at \in [Messages -> Place]
  /\ doubled \in [Messages -> BOOLEAN]
  /\ record \in [Messages -> Record]
  /\ arrivals \in [Requests -> Nat]
  /\ reached \in SUBSET Messages
  /\ seen \in [Messages -> SUBSET (Blocking \cup {"open"})]

Init ==
  /\ rules = [k \in RuleKinds |-> {}]
  /\ healing = "nothing"
  /\ faults = 0
  /\ link \in [Requests -> Links]
  /\ at = [m \in Messages |-> "idle"]
  /\ doubled = [m \in Messages |-> FALSE]
  /\ record = [m \in Messages |-> "none"]
  /\ arrivals = [r \in Requests |-> 0]
  /\ reached = {}
  /\ seen = [m \in Messages |-> {}]

----------------------------------------------------------------------------
(* The network faults.                                                     *)

Fault ==
  /\ healing = "nothing"
  /\ faults < MaxFaults
  /\ faults' = faults + 1

(* SetDropRule, SetDelayRule, SetDuplicateRule and SetAsymmetricBlock, as  *)
(* their faults call them.                                                 *)
SetRule(kind, l) ==
  /\ Fault
  /\ kind # "partition"
  /\ rules' = [rules EXCEPT ![kind] = @ \cup {l}]
  /\ UNCHANGED <<healing, handlers>>

Divided(side) ==
  {l \in Links : /\ l[1] \in DOMAIN side /\ l[2] \in DOMAIN side
                 /\ side[l[1]] # side[l[2]]}

(* SetPartition replaces the partitions there are.  Who is listed in no    *)
(* group is not partitioned from anybody; a group goes by one of its       *)
(* members' names here.                                                    *)
SetPartition ==
  /\ Fault
  /\ \E listed \in SUBSET Endpoints : \E side \in [listed -> Endpoints] :
       /\ listed # {}
       /\ rules' = [rules EXCEPT !["partition"] = Divided(side)]
  /\ UNCHANGED <<healing, handlers>>

(* What the three calls of HealFault.Inject clear, each under the lock.    *)
(* Mutant: the partitions are cleared last.                                *)
PartitionsLast(call) ==
  [first |-> {"drop", "delay"},
   second |-> {"duplicate", "asymmetric"},
   third |-> {"partition"}][call]

(* ClearPartitions, ClearFaultRules, ClearAdvancedFaultRules.              *)
Clears(call) ==
  [first |-> {"partition"},
   second |-> {"drop", "delay"},
   third |-> {"duplicate", "asymmetric"}][call]

Clear(call) ==
  /\ rules' = [k \in RuleKinds |-> IF k \in Clears(call) THEN {} ELSE rules[k]]
  /\ UNCHANGED handlers

Heal ==
  \/ Fault /\ Clear("first") /\ healing' = "second"
  \/ healing = "second" /\ Clear("second") /\ healing' = "third" /\ UNCHANGED faults
  \/ healing = "third" /\ Clear("third") /\ healing' = "nothing" /\ UNCHANGED faults

----------------------------------------------------------------------------
(* The handler of one message.                                             *)

Applies(kind, m) == link[m[1]] \in rules[kind]

Go(m, place) == at' = [at EXCEPT ![m] = place]

Receive(r) ==
  /\ at[<<r, "original">>] = "idle"
  /\ Go(<<r, "original">>, "partition")
  /\ UNCHANGED <<rules, healing, faults, link, doubled, record, arrivals, reached>>

(* The three looks of the check, until one blocks the message.             *)
Look(m, kind, next) ==
  /\ at[m] = kind
  /\ Go(m, IF Applies(kind, m) THEN "why drop" ELSE next)
  /\ UNCHANGED <<rules, healing, faults, link, doubled, record, arrivals, reached>>

Check(m) ==
  \/ Look(m, "partition", "drop")
  \/ Look(m, "drop", "asymmetric")
  \/ Look(m, "asymmetric", "duplicate")

(* The answer "blocked" ends the handler.                                  *)
Block(m, reason) ==
  /\ record' = [record EXCEPT ![m] = reason]
  /\ Go(m, "done")

(* Mutant of Explain: the one-way block has no reason of its own.          *)
ExplainTwoReasons(m) ==
  /\ at[m] = "why drop"
  /\ Block(m, IF Applies("drop", m) THEN "drop" ELSE "partition")
  /\ UNCHANGED <<rules, healing, faults, link, doubled, arrivals, reached>>

(* The reason is looked up again, after the decision.                      *)
Explain(m) ==
  /\ \/ at[m] = "why drop" /\ Applies("drop", m) /\ Block(m, "drop")
     \/ /\ at[m] = "why drop" /\ ~Applies("drop", m)
        /\ Go(m, "why asymmetric") /\ UNCHANGED record
     \/ /\ at[m] = "why asymmetric" /\ Applies("asymmetric", m)
        /\ Block(m, "asymmetric")
     \/ /\ at[m] = "why asymmetric" /\ ~Applies("asymmetric", m)
        /\ Block(m, "partition")
  /\ UNCHANGED <<rules, healing, faults, link, doubled, arrivals, reached>>

(* Mutant of Doubles: the header of the duplicate is not looked at.        *)
DoublesAgain(m) == doubled[m]

(* A duplicate is not duplicated again.                                    *)
Doubles(m) == doubled[m] /\ m[2] = "original"

Double(m) ==
  /\ at[m] = "duplicate"
  /\ doubled' = [doubled EXCEPT ![m] = Applies("duplicate", m)]
  /\ Go(m, "delay")
  /\ UNCHANGED <<rules, healing, faults, link, record, arrivals, reached>>

(* The delay is looked up once; a heal does not shorten it.                *)
Send(m) ==
  /\ record' = [record EXCEPT ![m] = "sent"]
  /\ Go(m, "forward")
  /\ UNCHANGED <<rules, healing, faults, link, doubled, arrivals, reached>>

Delay(m) ==
  \/ /\ at[m] = "delay" /\ Applies("delay", m)
     /\ Go(m, "delaying")
     /\ UNCHANGED <<rules, healing, faults, link, doubled, record, arrivals, reached>>
  \/ at[m] = "delay" /\ ~Applies("delay", m) /\ Send(m)
  \/ at[m] = "delaying" /\ Send(m)

(* Mutant of GiveUpInDelay: the handler goes on when the sender has gone.  *)
GiveUpForwards(m) ==
  /\ at[m] = "delaying"
  /\ Go(m, "forward")
  /\ UNCHANGED <<rules, healing, faults, link, doubled, record, arrivals, reached>>

(* The sender gives up during the delay: the handler returns, there is no  *)
(* row, and no duplicate is sent.                                          *)
GiveUpInDelay(m) ==
  /\ at[m] = "delaying"
  /\ Go(m, "done")
  /\ UNCHANGED <<rules, healing, faults, link, doubled, record, arrivals, reached>>

Arrive(m) ==
  /\ at[m] = "forward"
  /\ Go(m, "waiting")
  /\ arrivals' = [arrivals EXCEPT ![m[1]] = @ + 1]
  /\ reached' = reached \cup {m}
  /\ UNCHANGED <<rules, healing, faults, link, doubled, record>>

(* ModifyResponse.                                                         *)
Deliver(m) ==
  /\ at[m] = "waiting"
  /\ record' = [record EXCEPT ![m] = "delivered"]
  /\ Go(m, "served")
  /\ UNCHANGED <<rules, healing, faults, link, doubled, arrivals, reached>>

(* ErrorHandler: the node refuses, or somebody gives up before the answer. *)
Fail(m) ==
  /\ at[m] \in {"forward", "waiting"}
  /\ record' = [record EXCEPT ![m] = "unreachable"]
  /\ Go(m, "served")
  /\ UNCHANGED <<rules, healing, faults, link, doubled, arrivals, reached>>

(* After ServeHTTP the duplicate's goroutine is started.  When the sender  *)
(* has gone away during the answer, ServeHTTP does not come back.          *)
Finish(m) ==
  /\ at[m] = "served"
  /\ at' = IF Doubles(m)
             THEN [at EXCEPT ![m] = "done", ![<<m[1], "duplicate">>] = "sleeping"]
             ELSE [at EXCEPT ![m] = "done"]
  /\ UNCHANGED <<rules, healing, faults, link, doubled, record, arrivals, reached>>

SenderGone(m) ==
  /\ at[m] = "served"
  /\ record[m] = "delivered"
  /\ Go(m, "done")
  /\ UNCHANGED <<rules, healing, faults, link, doubled, record, arrivals, reached>>

(* The duplicate comes in through the proxy, or its client fails.          *)
Resend(m) ==
  /\ at[m] = "sleeping"
  /\ \/ Go(m, "partition")
     \/ Go(m, "done")
  /\ UNCHANGED <<rules, healing, faults, link, doubled, record, arrivals, reached>>

----------------------------------------------------------------------------
NetworkFault ==
  \/ \E kind \in RuleKinds, l \in Links : SetRule(kind, l)
  \/ SetPartition
  \/ Heal

Handle(m) ==
  \/ Check(m)
  \/ Explain(m)
  \/ Double(m)
  \/ Delay(m)
  \/ GiveUpInDelay(m)
  \/ Arrive(m)
  \/ Deliver(m)
  \/ Fail(m)
  \/ Finish(m)
  \/ SenderGone(m)
  \/ Resend(m)

(* What holds of a link: the kinds of rules that block it, or "open".      *)
Condition(l) ==
  LET blocking == {k \in Blocking : l \in rules[k]}
  IN IF blocking = {} THEN {"open"} ELSE blocking

(* History: what has held at any moment while a message was checked.       *)
Observe ==
  seen' = [m \in Messages |->
             IF at'[m] \in Checking THEN seen[m] \cup Condition(link[m[1]])' ELSE seen[m]]

Next ==
  /\ \/ NetworkFault
     \/ \E r \in Requests : Receive(r)
     \/ \E m \in Messages : Handle(m)
  /\ Observe

Spec == Init /\ [][Next]_vars

----------------------------------------------------------------------------
(* A message that the check lets pass had a moment during the check when   *)
(* nothing blocked its link.  Three looks at different moments and a heal  *)
(* in three steps could let one slip through while it was blocked all the  *)
(* time, first by one rule and then by another.                            *)
Passed(m) ==
  at[m] \in {"duplicate", "delay", "delaying", "forward", "waiting", "served"}

PassedWhenOpen == \A m \in Messages : Passed(m) => "open" \in seen[m]

(* The reason recorded for a blocked message is a rule that has blocked    *)
(* it, unless the link was opened while the handler was looking; then it   *)
(* was blocked at some moment all the same.                                *)
ReasonIsTrue ==
  \A m \in Messages : record[m] \in Blocking =>
    /\ seen[m] \cap Blocking # {}
    /\ "open" \in seen[m] \/ record[m] \in seen[m]

(* A duplicate rule gives a node one copy of a request, never more, and    *)
(* the copy never comes before the outcome of the original is recorded.    *)
OneEcho ==
  \A r \in Requests :
    /\ arrivals[r] <= 2
    /\ at[<<r, "duplicate">>] # "idle" =>
         record[<<r, "original">>] \in {"delivered", "unreachable"}

(* What the store says of a message agrees with what happened to it: a     *)
(* message recorded as blocked, or not recorded, has not reached its node, *)
(* and one recorded as delivered has.  One recorded as unreachable may     *)
(* have: the sender gave up before the node answered.                      *)
RecordIsTrue ==
  \A m \in Messages :
    /\ m \in reached => record[m] \in {"sent", "delivered", "unreachable"}
    /\ record[m] = "delivered" => m \in reached
    /\ record[m] = "sent" => at[m] \in {"forward", "waiting"}

----------------------------------------------------------------------------
(* The inductive invariant.  While a heal runs, what it has cleared stays  *)
(* cleared: there is no other fault.                                       *)
HealOrder ==
  /\ healing \in {"second", "third"} => rules["partition"] = {}
  /\ healing = "third" => rules["drop"] = {}

(* A message whose link has been blocked all the time is blocked now, and  *)
(* by a rule that the handler has not looked at yet; while the reason is   *)
(* looked up, what is left is a partition it was blocked by.               *)
Watched(m) ==
  /\ at[m] \in Checking => Condition(link[m[1]]) \subseteq seen[m]
  /\ at[m] \in {"why drop", "why asymmetric"} => seen[m] \cap Blocking # {}
  /\ "open" \notin seen[m] =>
       /\ at[m] = "drop" => Applies("drop", m) \/ Applies("asymmetric", m)
       /\ at[m] = "asymmetric" => Applies("asymmetric", m)
       /\ at[m] = "why asymmetric" =>
            Applies("asymmetric", m) \/ "partition" \in seen[m]

(* How the record and the arrival of a message go with its place.          *)
Trail(m) ==
  /\ at[m] = "forward" => record[m] = "sent" /\ m \notin reached
  /\ at[m] = "waiting" => record[m] = "sent" /\ m \in reached
  /\ at[m] = "served" => record[m] \in {"delivered", "unreachable"}
  /\ at[m] = "done" => record[m] # "sent"
  /\ at[m] \notin {"forward", "waiting", "served", "done"} =>
       record[m] = "none" /\ m \notin reached

One(m) == IF m \in reached THEN 1 ELSE 0

(* The duplicate of a request exists when its original is done.            *)
Paired(r) ==
  /\ arrivals[r] = One(<<r, "original">>) + One(<<r, "duplicate">>)
  /\ at[<<r, "duplicate">>] # "idle" => at[<<r, "original">>] = "done"

IInv ==
  /\ TypeOK
  /\ HealOrder
  /\ \A m \in Messages : Watched(m) /\ Trail(m)
  /\ \A r \in Requests : Paired(r)
  /\ PassedWhenOpen
  /\ ReasonIsTrue
  /\ OneEcho
  /\ RecordIsTrue
=============================================================================
