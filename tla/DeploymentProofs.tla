--------------------------- MODULE DeploymentProofs ---------------------------
(***************************************************************************)
(* Theorems about DeploymentRunner for every plan, chain and bound that    *)
(* satisfy its assumptions: type correctness, that no transaction is sent  *)
(* above the next free nonce, that a command with nothing left to say      *)
(* leaves the network as its scripts want it, that no contract is sent its *)
(* tokens twice, that no setting refers to an address without code, that   *)
(* the command gives up for the listed reasons only, and that it leaves    *)
(* nothing to the deployer.                                                *)
(***************************************************************************)
EXTENDS MCDeployment, TLAPS

-----------------------------------------------------------------------------
(* The inductive invariant. *)

\* The counter stands at most one above the pending transactions, and only
\* between drawing a nonce and sending it.
Counted ==
    /\ phase = "send" /\ step.kind # "genesis" =>
          lead \in Int /\ lead - 1 <= Len(mempool)
    /\ phase \in {"check", "wait"} \/ (phase = "send" /\ step.kind = "genesis") =>
          lead = Unread \/ lead <= Len(mempool)
    /\ phase = "hung" => step.kind = "mock"

\* What is pending or printed is a step of the plan; the last transaction is
\* the one the script waits for.
FromPlan(q) == \A i \in DOMAIN q : \E k \in DOMAIN steps : q[i].step = steps[k]

Planned ==
    /\ FromPlan(mempool)
    /\ FromPlan(queue)
    /\ phase = "wait" => mempool # <<>> /\ mempool[Len(mempool)].step = step

\* A contract that does not exist has no admin.
Unowned == \A c \in Contracts \ chain.code : chain.admin[c] = "nobody"

Checked(s) == s.kind \in {"genesis", "deploy"}

\* If the last code check found nothing, the contract was deployed, and what its
\* init code wrote is as wanted.
FreshBranch ==
    ~ existed /\ phase \in {"check", "send", "wait"}
              /\ (phase = "check" \/ ~ Checked(step)) =>
        \A d \in DOMAIN steps :
            d < pc /\ Checked(steps[d])
                   /\ (\A j \in DOMAIN steps : d < j /\ j < pc => ~ Checked(steps[j]))
            => steps[d].sets \cap chain.stale = {}

\* What the command has passed without asking the signers is done.
Passed ==
    /\ phase = "done" => pc = Len(steps) + 1
    /\ ~ printed /\ phase \in {"check", "send", "wait", "done"} =>
          \A i \in DOMAIN steps : i < pc => Achieved(steps[i])

Inv == TypeOK /\ Counted /\ Planned /\ Unowned /\ FreshBranch /\ Passed

-----------------------------------------------------------------------------
(* What a transaction does to the chain. *)

LEMMA ApplyType ==
    ASSUME NEW s \in Steps, NEW c \in Chains
    PROVE  Apply(s, c) \in Chains
<1>1. CASE s.kind \in Creating
  BY <1>1 DEF Apply, Chains, Steps, Creating, Calling, Principals
<1>2. CASE s.kind \in {"set", "resend"}
  BY <1>2 DEF Apply, Chains, Steps, Creating, Calling, Principals
<1>3. CASE s.kind = "admin"
  BY <1>3 DEF Apply, Chains, Steps, Creating, Calling, Principals
<1>4. CASE s.kind = "fund"
  BY <1>4 DEF Apply, Chains, Steps, Creating, Calling, Principals
<1>5. CASE s.kind = "recount"
  BY <1>5 DEF Apply, Chains, Steps, Creating, Calling, Principals
<1> QED BY <1>1, <1>2, <1>3, <1>4, <1>5 DEF Steps, Calling

LEMMA ExecutedType ==
    ASSUME NEW t \in Transactions, NEW c \in Chains, NEW p
    PROVE  Executed(t, p, c) \in Chains
BY ApplyType DEF Executed, Transactions

\* Transactions only ever create code and correct settings.
LEMMA ExecutedGrows ==
    ASSUME NEW t \in Transactions, NEW c \in Chains, NEW p
    PROVE  /\ c.code \subseteq Executed(t, p, c).code
           /\ Executed(t, p, c).stale \subseteq c.stale
<1> DEFINE s == t.step
<1>0. s \in Steps BY DEF Transactions
<1>1. CASE s.kind \in Creating
  BY <1>0, <1>1 DEF Executed, Apply, Chains, Steps, Creating, Calling
<1>2. CASE s.kind \in {"set", "resend"}
  BY <1>0, <1>2 DEF Executed, Apply, Chains, Steps, Creating, Calling
<1>3. CASE s.kind \in {"admin", "fund", "recount"}
  BY <1>0, <1>3 DEF Executed, Apply, Chains, Steps, Creating, Calling
<1> QED BY <1>0, <1>1, <1>2, <1>3 DEF Steps, Calling

\* The admin of a contract changes when the contract is created and when it is
\* handed over.
LEMMA ExecutedAdmin ==
    ASSUME NEW t \in Transactions, NEW c \in Chains, NEW p \in Principals,
           NEW x \in Contracts,
           Executed(t, p, c).admin[x] # c.admin[x]
    PROVE  /\ t.step.on = x
           /\ \/ t.step.kind \in Creating /\ x \notin c.code
                                         /\ x \in Executed(t, p, c).code
              \/ /\ t.step.kind = "admin" /\ c.admin[x] # "nobody"
                 /\ Executed(t, p, c).admin[x] = t.step.to
<1> DEFINE s == t.step
<1>0. s \in Steps BY DEF Transactions
<1>1. CASE s.kind \in Creating
  BY <1>0, <1>1 DEF Executed, Reverts, Apply, Chains, Steps, Creating, Calling
<1>2. CASE s.kind \in {"set", "resend"}
  BY <1>0, <1>2 DEF Executed, Apply, Chains, Steps, Creating, Calling
<1>3. CASE s.kind \in {"fund", "recount"}
  BY <1>0, <1>3 DEF Executed, Apply, Chains, Steps, Creating, Calling
<1>4. CASE s.kind = "admin"
  <2>1. ~ Reverts(t, p, c) /\ s.on = x /\ Executed(t, p, c).admin[x] = s.to
    BY <1>0, <1>4 DEF Executed, Apply, Chains, Steps, Creating, Calling
  <2>2. c.admin[x] # "nobody"
    BY <1>4, <2>1 DEF Reverts, Authorised, Principals, Calling
  <2> QED BY <1>4, <2>1, <2>2
<1> QED BY <1>0, <1>1, <1>2, <1>3, <1>4 DEF Steps, Calling

-----------------------------------------------------------------------------
(* Steps of the plan. *)

LEMMA PlanFacts ==
    ASSUME TypeOK
    PROVE  /\ steps \in Seq(Steps)
           /\ Len(steps) \in Nat
           /\ DOMAIN steps = 1 .. Len(steps)
           /\ Running => pc \in DOMAIN steps /\ step \in Steps
           /\ Start[network] \in Chains
<1>1. steps \in Seq(Steps) /\ Start[network] \in Chains
  BY PlanType, StartType DEF TypeOK, steps
<1>2. Len(steps) \in Nat /\ DOMAIN steps = 1 .. Len(steps)
  BY <1>1
<1>3. Running => pc \in DOMAIN steps /\ step \in Steps
  BY <1>1, <1>2 DEF TypeOK, step
<1> QED BY <1>1, <1>2, <1>3

LEMMA AdvanceFacts ==
    ASSUME TypeOK, Running, Advance, network' = network
    PROVE  /\ phase' \in {"check", "done"}
           /\ pc' \in 1 .. Len(steps') + 1
           /\ Running' => pc' \in 1 .. Len(steps')
           /\ phase' = "done" => pc' = Len(steps) + 1
           /\ pc' = pc + 1
           /\ steps' = steps
<1>1. steps' = steps BY DEF steps
<1>2. pc \in 1 .. Len(steps) /\ Len(steps) \in Nat
  BY PlanFacts DEF TypeOK
<1>3. phase' = IF pc < Len(steps) THEN "check" ELSE "done"
  BY DEF Advance
<1>4. pc' = pc + 1 BY DEF Advance
<1> QED BY <1>1, <1>2, <1>3, <1>4 DEF Running

\* A failed command stays where it was.
LEMMA FailFacts ==
    ASSUME TypeOK, Fail, network' = network
    PROVE  /\ phase' = "failed"
           /\ pc' = pc
           /\ pc' \in 1 .. Len(steps') + 1
           /\ ~ Running'
           /\ steps' = steps
BY DEF Fail, TypeOK, Running, steps

LEMMA AppendMempool ==
    ASSUME NEW q \in Seq(Transactions), NEW s \in Steps, NEW v \in Ways
    PROVE  Append(q, [step |-> s, via |-> v]) \in Seq(Transactions)
<1>1. [step |-> s, via |-> v] \in Transactions BY DEF Transactions
<1> QED BY <1>1

-----------------------------------------------------------------------------
(* Type correctness. *)

LEMMA InitType == Init => TypeOK
<1> SUFFICES ASSUME Init PROVE TypeOK
  OBVIOUS
<1>1. network \in Networks /\ chain \in Chains
  BY StartType DEF Init
<1>2. steps \in Seq(Steps) BY PlanType, <1>1 DEF steps
<1>3. Len(steps) \in Nat /\ (steps # <<>> => Len(steps) > 0)
  BY <1>2
<1>4. pc \in 1 .. Len(steps) + 1 /\ (Running => pc \in 1 .. Len(steps))
  BY <1>3 DEF Init, Running
<1>5. crashes \in 0 .. MaxCrashes /\ eager \in 0 .. MaxEager
  BY BoundsType DEF Init
<1>6. mempool \in Seq(Transactions) /\ queue \in Seq(Transactions)
  BY DEF Init
<1>7. phase \in {"check", "done"} BY DEF Init
<1>8. existed \in BOOLEAN /\ printed \in BOOLEAN /\ foreign \in BOOLEAN
  BY DEF Init
<1>9. lead \in Int \cup {Unread} BY DEF Init
<1> QED BY <1>1, <1>4, <1>5, <1>6, <1>7, <1>8, <1>9 DEF TypeOK

\* In the phase "send" the counter has been read.
LEMMA TypeStep == TypeOK /\ Counted /\ [Next]_vars => TypeOK'
<1> SUFFICES ASSUME TypeOK, Counted, [Next]_vars PROVE TypeOK'
  OBVIOUS
<1> USE DEF bounds
<1>1. CASE Skip
  <2>1. Running /\ Advance /\ network' = network BY <1>1 DEF Skip, Running
  <2>2. step \in Steps BY <2>1, PlanFacts
  <2>3. existed' \in BOOLEAN BY <1>1, <2>2 DEF Skip, TypeOK
  <2> QED BY <1>1, <2>1, <2>3, AdvanceFacts DEF Skip, TypeOK
<1>2. CASE Recount
  <2>1. Running /\ Advance /\ network' = network BY <1>2 DEF Recount, Running
  <2> QED BY <1>2, <2>1, AdvanceFacts DEF Recount, TypeOK
<1>3. CASE Prepare
  <2>1. Running /\ network' = network /\ steps' = steps
    BY <1>3 DEF Prepare, Running, steps
  <2>2. step \in Steps /\ pc \in 1 .. Len(steps) BY <2>1, PlanFacts
  <2>3. mempool' \in Seq(Transactions)
    BY <1>3, <2>2, AppendMempool DEF Prepare, TypeOK, Ways
  <2>4. lead' \in Int \cup {Unread} BY <1>3 DEF Prepare, TypeOK
  <2>5. existed' \in BOOLEAN BY <1>3 DEF Prepare, TypeOK
  <2>6. foreign' \in BOOLEAN BY <1>3, <2>2 DEF Prepare, TypeOK, Steps
  <2>7. phase' = "send" /\ pc' = pc BY <1>3 DEF Prepare
  <2> QED BY <1>3, <2>1, <2>2, <2>3, <2>4, <2>5, <2>6, <2>7 DEF Prepare, TypeOK
<1>4. CASE Throw
  <2>1. Fail /\ network' = network BY <1>4 DEF Throw
  <2> QED BY <1>4, <2>1, FailFacts DEF Throw, TypeOK
<1>5. CASE Send
  <2>1. Running /\ network' = network /\ steps' = steps
    BY <1>5 DEF Send, Running, steps
  <2>2. step \in Steps /\ pc \in 1 .. Len(steps) BY <2>1, PlanFacts
  <2>0. PICK via \in Ways :
          LET t == [step |-> step, via |-> via] IN
          IF Reverts(t, "deployer", chain) \/ Nonce < Len(mempool)
          THEN Fail /\ UNCHANGED mempool
          ELSE /\ mempool' = IF Nonce = Len(mempool) THEN Append(mempool, t) ELSE mempool
               /\ phase' = IF Nonce = Len(mempool) THEN "wait" ELSE "hung"
               /\ UNCHANGED pc
    BY <1>5 DEF Send
  <2> DEFINE t == [step |-> step, via |-> via]
  <2>3. Append(mempool, t) \in Seq(Transactions)
    BY <2>2, AppendMempool DEF TypeOK
  <2>4. CASE Reverts(t, "deployer", chain) \/ Nonce < Len(mempool)
    <3>1. Fail /\ UNCHANGED mempool BY <2>0, <2>4
    <3> QED BY <1>5, <2>1, <3>1, FailFacts DEF Send, TypeOK
  <2>5. CASE ~ (Reverts(t, "deployer", chain) \/ Nonce < Len(mempool))
    <3>1. /\ mempool' \in {mempool, Append(mempool, t)}
          /\ phase' \in {"wait", "hung"}
          /\ UNCHANGED pc
      BY <2>0, <2>5
    <3> QED BY <1>5, <2>1, <2>2, <2>3, <3>1 DEF Send, TypeOK
  <2> QED BY <2>4, <2>5
<1>6. CASE Instruct
  <2>1. Running /\ Advance /\ network' = network BY <1>6 DEF Instruct, Running
  <2>2. step \in Steps BY <2>1, PlanFacts
  <2>3. queue' \in Seq(Transactions)
    BY <1>6, <2>2, AppendMempool DEF Instruct, TypeOK
  <2>4. step.kind # "genesis" BY <1>6 DEF Instruct, MayInstruct, Calling
  <2>5. lead' \in Int BY <1>6, <2>4 DEF Instruct, Counted
  <2> QED BY <1>6, <2>1, <2>3, <2>5, AdvanceFacts DEF Instruct, TypeOK
<1>7. CASE Abort
  <2>1. Fail /\ network' = network BY <1>7 DEF Abort
  <2> QED BY <1>7, <2>1, FailFacts DEF Abort, TypeOK
<1>8. CASE Mine
  <2> DEFINE t == Head(mempool)
  <2>1. t \in Transactions /\ Tail(mempool) \in Seq(Transactions)
    BY <1>8 DEF Mine, TypeOK
  <2>2. chain' \in Chains BY <1>8, <2>1, ExecutedType DEF Mine, TypeOK
  <2>3. lead' \in Int \cup {Unread} BY <1>8 DEF Mine, TypeOK
  <2>4. network' = network /\ steps' = steps BY <1>8 DEF Mine, steps
  <2>5. CASE phase = "wait" /\ Len(mempool) = 1
    <3>1. Running BY <2>5 DEF Running
    <3>2. Fail \/ Advance BY <1>8, <2>5 DEF Mine
    <3>3. /\ phase' \in {"check", "done", "failed"}
          /\ pc' \in 1 .. Len(steps') + 1
          /\ Running' => pc' \in 1 .. Len(steps')
      BY <2>4, <3>1, <3>2, AdvanceFacts, FailFacts
    <3> QED BY <1>8, <2>1, <2>2, <2>3, <2>4, <3>3 DEF Mine, TypeOK
  <2>6. CASE ~ (phase = "wait" /\ Len(mempool) = 1)
    <3>1. UNCHANGED <<phase, pc>> BY <1>8, <2>6 DEF Mine
    <3> QED BY <1>8, <2>1, <2>2, <2>3, <2>4, <3>1 DEF Mine, TypeOK, Running
  <2> QED BY <2>5, <2>6
<1>9. CASE Execute
  <2>1. Head(queue) \in Transactions /\ Tail(queue) \in Seq(Transactions)
    BY <1>9 DEF Execute, TypeOK
  <2>2. chain' \in Chains BY <1>9, <2>1, ExecutedType DEF Execute, TypeOK
  <2> QED BY <1>9, <2>1, <2>2 DEF Execute, TypeOK, Running, steps, process
<1>10. CASE Crash
  <2>1. crashes' \in 0 .. MaxCrashes BY <1>10, BoundsType DEF Crash, TypeOK
  <2> QED BY <1>10, <2>1 DEF Crash, TypeOK, Running, steps
<1>11. CASE Restart
  <2>1. network' = network /\ steps' = steps BY <1>11 DEF Restart, steps
  <2>2. steps # <<>> => Len(steps) > 0 BY PlanFacts
  <2>3. /\ pc' \in 1 .. Len(steps') + 1
        /\ Running' => pc' \in 1 .. Len(steps')
    BY <1>11, <2>1, <2>2, PlanFacts DEF Restart, Running
  <2>4. phase' \in {"check", "done"} BY <1>11 DEF Restart
  <2>5. chain' \in Chains /\ mempool' \in Seq(Transactions)
    BY <1>11, PlanFacts DEF Restart, TypeOK
  <2>6. eager' \in 0 .. MaxEager BY <1>11, BoundsType DEF Restart, TypeOK
  <2>7. foreign' \in BOOLEAN BY <1>11 DEF Restart
  <2> QED BY <1>11, <2>1, <2>3, <2>4, <2>5, <2>6, <2>7 DEF Restart, TypeOK
<1>12. CASE SendForAnother
  BY <1>12 DEF SendForAnother, TypeOK, Running, steps
<1>13. CASE UNCHANGED vars
  BY <1>13 DEF vars, process, TypeOK, Running, steps
<1> QED BY <1>1, <1>2, <1>3, <1>4, <1>5, <1>6, <1>7, <1>8, <1>9, <1>10, <1>11, <1>12, <1>13
        DEF Next, Script

-----------------------------------------------------------------------------
(* Nonces. *)

LEMMA InitCounted == Init => Counted
BY DEF Init, Counted

LEMMA CountedStep == TypeOK /\ Counted /\ [Next]_vars => Counted'
<1> SUFFICES ASSUME TypeOK, Counted, [Next]_vars PROVE Counted'
  OBVIOUS
<1> USE DEF bounds
<1>0. Len(mempool) \in Nat BY DEF TypeOK
<1>1. CASE Skip
  <2>1. phase' \in {"check", "done"} /\ UNCHANGED <<lead, mempool>>
    BY <1>1 DEF Skip, Advance
  <2> QED BY <1>1, <2>1 DEF Skip, Counted
<1>2. CASE Recount
  <2>1. phase' \in {"check", "done"} /\ lead' = 0 /\ UNCHANGED mempool
    BY <1>2 DEF Recount, Advance
  <2> QED BY <1>0, <2>1 DEF Counted
<1>3. CASE Prepare
  <2>1. phase = "check" /\ phase' = "send" /\ step' = step
    BY <1>3 DEF Prepare, step, steps
  <2>2. Len(mempool') \in Nat /\ Len(mempool) <= Len(mempool')
    BY <1>0, <1>3 DEF Prepare, TypeOK
  <2>3. lead = Unread \/ lead <= Len(mempool) BY <2>1 DEF Counted
  <2>4. CASE step.kind = "genesis"
    <3>1. lead' = lead BY <1>3, <2>4 DEF Prepare
    <3>2. lead' = Unread \/ lead' <= Len(mempool')
      BY <1>0, <2>2, <2>3, <3>1 DEF TypeOK
    <3> QED BY <2>1, <2>4, <3>2 DEF Counted
  <2>5. CASE step.kind # "genesis"
    <3>1. lead' = (IF lead = Unread THEN 0 ELSE lead) + 1
      BY <1>3, <2>5 DEF Prepare
    <3>2. lead' \in Int /\ lead' - 1 <= Len(mempool')
      BY <1>0, <2>2, <2>3, <3>1 DEF TypeOK
    <3> QED BY <2>1, <2>5, <3>2 DEF Counted
  <2> QED BY <2>4, <2>5
<1>4. CASE Throw
  BY <1>4 DEF Throw, Fail, Counted
<1>5. CASE Send
  <2>1. phase = "send" BY <1>5 DEF Send
  <2>2. Nonce \in Int /\ Nonce <= Len(mempool)
    BY <1>0, <2>1 DEF Nonce, Counted
  <2>3. PICK via \in Ways :
          LET t == [step |-> step, via |-> via] IN
          IF Reverts(t, "deployer", chain) \/ Nonce < Len(mempool)
          THEN Fail /\ UNCHANGED mempool
          ELSE /\ mempool' = IF Nonce = Len(mempool) THEN Append(mempool, t) ELSE mempool
               /\ phase' = IF Nonce = Len(mempool) THEN "wait" ELSE "hung"
               /\ UNCHANGED pc
    BY <1>5 DEF Send
  <2>4. CASE phase' = "failed"
    BY <2>4 DEF Counted
  <2>5. CASE phase' # "failed"
    <3>1. /\ mempool' = Append(mempool, [step |-> step, via |-> via])
          /\ phase' = "wait"
          /\ Nonce = Len(mempool)
      BY <1>0, <2>2, <2>3, <2>5 DEF Fail
    <3>2. Len(mempool') = Len(mempool) + 1 BY <3>1 DEF TypeOK
    <3>3. lead' = lead BY <1>5 DEF Send
    <3>4. CASE step.kind = "genesis"
      <4>1. lead = Unread \/ lead <= Len(mempool) BY <2>1, <3>4 DEF Counted
      <4> QED BY <1>0, <3>1, <3>2, <3>3, <4>1 DEF Counted, TypeOK
    <3>5. CASE step.kind # "genesis"
      <4>1. lead - 1 = Len(mempool) /\ lead \in Int
        BY <2>1, <3>1, <3>5 DEF Nonce, Counted
      <4> QED BY <1>0, <3>1, <3>2, <3>3, <4>1 DEF Counted
    <3> QED BY <3>4, <3>5
  <2> QED BY <2>4, <2>5
<1>6. CASE Instruct
  <2>1. phase' \in {"check", "done"} BY <1>6 DEF Instruct, Advance
  <2>2. phase = "send" /\ step.kind # "genesis"
    BY <1>6 DEF Instruct, MayInstruct, Calling
  <2>3. lead' \in Int /\ lead' <= Len(mempool) /\ mempool' = mempool
    BY <1>6, <2>2 DEF Instruct, Counted
  <2> QED BY <2>1, <2>3 DEF Counted
<1>7. CASE Abort
  BY <1>7 DEF Abort, Fail, Counted
<1>8. CASE Mine
  <2>1. Len(mempool') = Len(mempool) - 1
    BY <1>8 DEF Mine, TypeOK
  <2>2. lead' = (IF lead = Unread THEN Unread ELSE lead - 1)
    BY <1>8 DEF Mine
  <2>3. CASE phase = "wait" /\ Len(mempool) = 1
    <3>1. phase' \in {"check", "done", "failed"}
      BY <1>8, <2>3 DEF Mine, Fail, Advance
    <3>2. lead = Unread \/ lead <= Len(mempool) BY <2>3 DEF Counted
    <3>3. lead' = Unread \/ lead' <= Len(mempool')
      BY <1>0, <2>1, <2>2, <3>2 DEF TypeOK
    <3> QED BY <3>1, <3>3 DEF Counted
  <2>4. CASE ~ (phase = "wait" /\ Len(mempool) = 1)
    <3>1. phase' = phase /\ step' = step BY <1>8, <2>4 DEF Mine, step, steps
    <3>2. CASE phase = "send" /\ step.kind # "genesis"
      <4>1. lead \in Int /\ lead - 1 <= Len(mempool) BY <3>2 DEF Counted
      <4>2. lead' \in Int /\ lead' - 1 <= Len(mempool')
        BY <1>0, <2>1, <2>2, <4>1, UnreadType
      <4> QED BY <3>1, <3>2, <4>2 DEF Counted
    <3>3. CASE phase \in {"check", "wait"} \/ (phase = "send" /\ step.kind = "genesis")
      <4>1. lead = Unread \/ lead <= Len(mempool) BY <3>3 DEF Counted
      <4>2. lead' = Unread \/ lead' <= Len(mempool')
        BY <1>0, <2>1, <2>2, <4>1 DEF TypeOK
      <4> QED BY <3>1, <3>3, <4>2 DEF Counted
    <3>4. CASE phase \notin {"check", "wait", "send"}
      BY <3>1, <3>4 DEF Counted
    <3> QED BY <3>2, <3>3, <3>4
  <2> QED BY <2>3, <2>4
<1>9. CASE Execute
  BY <1>9 DEF Execute, process, Counted, step, steps
<1>10. CASE Crash
  BY <1>10 DEF Crash, Counted
<1>11. CASE Restart
  BY <1>11 DEF Restart, Counted
<1>12. CASE SendForAnother
  BY <1>12 DEF SendForAnother, Counted, step, steps
<1>13. CASE UNCHANGED vars
  BY <1>13 DEF vars, process, Counted, step, steps
<1> QED BY <1>1, <1>2, <1>3, <1>4, <1>5, <1>6, <1>7, <1>8, <1>9, <1>10, <1>11, <1>12, <1>13
        DEF Next, Script

\* Every reachable state is of the type the runner declares: in particular the
\* command never looks for a step outside the plan.
THEOREM TypeCorrect == Spec => []TypeOK
<1>1. Init => TypeOK /\ Counted BY InitType, InitCounted
<1>2. TypeOK /\ Counted /\ [Next]_vars => (TypeOK /\ Counted)'
  BY TypeStep, CountedStep
<1> QED BY <1>1, <1>2, PTL DEF Spec

\* txParams and MultisigAwareTx never leave a gap in front of a transaction of
\* the deployer that they wait for, for every plan and every interleaving with
\* the miner; a mock that another account signs is the only one not mined.
THEOREM DeployerNeverHangs == Spec => []NoNonceGap
<1>1. Init => TypeOK /\ Counted BY InitType, InitCounted
<1>2. TypeOK /\ Counted /\ [Next]_vars => (TypeOK /\ Counted)'
  BY TypeStep, CountedStep
<1>3. Counted => NoNonceGap BY DEF Counted, NoNonceGap
<1> QED BY <1>1, <1>2, <1>3, PTL DEF Spec

-----------------------------------------------------------------------------
(* What is pending comes from the plan. *)

LEMMA AppendFromPlan ==
    ASSUME NEW q \in Seq(Transactions), FromPlan(q), NEW k \in DOMAIN steps, NEW v \in Ways,
           steps[k] \in Steps
    PROVE  LET t == [step |-> steps[k], via |-> v] IN
           /\ FromPlan(Append(q, t))
           /\ Append(q, t) # <<>>
           /\ Append(q, t)[Len(Append(q, t))].step = steps[k]
<1> DEFINE t == [step |-> steps[k], via |-> v]
<1>1. Append(q, t) \in Seq(Transactions) BY AppendMempool
<1>2. /\ Len(Append(q, t)) = Len(q) + 1
      /\ Append(q, t)[Len(q) + 1] = t
      /\ \A i \in 1 .. Len(q) : Append(q, t)[i] = q[i]
  BY AppendMempool DEF Transactions
<1>3. Append(q, t)[Len(q) + 1].step = steps[k] BY <1>2
<1>4. FromPlan(Append(q, t))
  <2> SUFFICES ASSUME NEW i \in DOMAIN Append(q, t)
               PROVE  \E j \in DOMAIN steps : Append(q, t)[i].step = steps[j]
    BY DEF FromPlan
  <2>1. i = Len(q) + 1 \/ i \in 1 .. Len(q) BY <1>1, <1>2
  <2> QED BY <1>2, <1>3, <2>1 DEF FromPlan
<1> QED BY <1>1, <1>2, <1>3, <1>4

LEMMA TailFromPlan ==
    ASSUME NEW q \in Seq(Transactions), q # <<>>, FromPlan(q)
    PROVE  /\ FromPlan(Tail(q))
           /\ Len(q) # 1 => Tail(q) # <<>> /\ Tail(q)[Len(Tail(q))] = q[Len(q)]
<1>1. /\ Len(Tail(q)) = Len(q) - 1 /\ Len(q) \in Nat \ {0}
      /\ DOMAIN Tail(q) = 1 .. Len(q) - 1
      /\ \A i \in 1 .. Len(q) - 1 : Tail(q)[i] = q[i + 1] /\ i + 1 \in DOMAIN q
  OBVIOUS
<1>2. FromPlan(Tail(q)) BY <1>1 DEF FromPlan
<1>3. ASSUME Len(q) # 1
      PROVE  Tail(q) # <<>> /\ Tail(q)[Len(Tail(q))] = q[Len(q)]
  <2>1. Len(q) - 1 \in 1 .. Len(q) - 1 /\ Len(q) - 1 + 1 = Len(q) BY <1>1, <1>3
  <2>2. Tail(q)[Len(q) - 1] = q[Len(q)] BY <1>1, <2>1
  <2>3. Tail(q)[Len(Tail(q))] = q[Len(q)] BY <1>1, <2>2
  <2>4. Len(Tail(q)) # 0 BY <1>1, <1>3
  <2>5. Tail(q) # <<>>
    <3>1. Len(<<>>) = 0 OBVIOUS
    <3> QED BY <2>4, <3>1
  <2> QED BY <2>3, <2>5
<1> QED BY <1>2, <1>3

LEMMA InitPlanned == Init => Planned
BY DEF Init, Planned, FromPlan

LEMMA PlannedStep == TypeOK /\ Planned /\ [Next]_vars => Planned'
<1> SUFFICES ASSUME TypeOK, Planned, [Next]_vars PROVE Planned'
  OBVIOUS
<1> USE DEF bounds
<1>0. steps' = steps
  BY DEF Next, Script, Skip, Recount, Prepare, Throw, Send, SendForAnother, Instruct, Abort, Mine, Execute,
         Crash, Restart, vars, process, steps
<1>1. CASE Skip \/ Recount
  <2>1. phase' \in {"check", "done"} /\ UNCHANGED <<mempool, queue>>
    BY <1>1 DEF Skip, Recount, Advance
  <2> QED BY <1>0, <2>1 DEF Planned, FromPlan
<1>2. CASE Prepare
  <2>1. Running /\ phase' = "send" /\ queue' = queue BY <1>2 DEF Prepare, Running
  <2>2. pc \in DOMAIN steps /\ steps[pc] \in Steps BY <2>1, PlanFacts DEF step
  <2>3. \/ mempool' = mempool
        \/ mempool' = Append(mempool, [step |-> steps[pc], via |-> "direct"])
    BY <1>2 DEF Prepare, step
  <2>4. FromPlan(mempool')
    BY <2>2, <2>3, AppendFromPlan DEF Planned, TypeOK, Ways
  <2> QED BY <1>0, <2>1, <2>4 DEF Planned, FromPlan
<1>3. CASE SendForAnother \/ Throw \/ Abort
  BY <1>0, <1>3 DEF SendForAnother, Throw, Abort, Fail, Planned, FromPlan
<1>4. CASE Send
  <2>1. Running /\ queue' = queue BY <1>4 DEF Send, Running
  <2>2. pc \in DOMAIN steps /\ steps[pc] \in Steps BY <2>1, PlanFacts DEF step
  <2>3. PICK via \in Ways :
          \/ mempool' = mempool /\ phase' # "wait"
          \/ /\ mempool' = Append(mempool, [step |-> steps[pc], via |-> via])
             /\ pc' = pc
    <3>1. PICK via \in Ways :
            LET t == [step |-> step, via |-> via] IN
            IF Reverts(t, "deployer", chain) \/ Nonce < Len(mempool)
            THEN Fail /\ UNCHANGED mempool
            ELSE /\ mempool' = IF Nonce = Len(mempool) THEN Append(mempool, t) ELSE mempool
                 /\ phase' = IF Nonce = Len(mempool) THEN "wait" ELSE "hung"
                 /\ UNCHANGED pc
      BY <1>4 DEF Send
    <3> QED BY <3>1 DEF Fail, step
  <2>4. CASE mempool' = mempool /\ phase' # "wait"
    BY <1>0, <2>1, <2>4 DEF Planned, FromPlan
  <2>5. CASE mempool' = Append(mempool, [step |-> steps[pc], via |-> via]) /\ pc' = pc
    <3>1. /\ FromPlan(mempool')
          /\ mempool' # <<>>
          /\ mempool'[Len(mempool')].step = steps[pc]
      BY <2>2, <2>5, AppendFromPlan DEF Planned, TypeOK
    <3> QED BY <1>0, <2>1, <2>5, <3>1 DEF Planned, FromPlan, step
  <2> QED BY <2>3, <2>4, <2>5
<1>5. CASE Instruct
  <2>1. Running /\ phase' \in {"check", "done"} /\ mempool' = mempool
    BY <1>5 DEF Instruct, Running, Advance
  <2>2. pc \in DOMAIN steps /\ steps[pc] \in Steps BY <2>1, PlanFacts DEF step
  <2>3. PICK via \in Ways : queue' = Append(queue, [step |-> steps[pc], via |-> via])
    BY <1>5 DEF Instruct, step
  <2>4. FromPlan(queue') BY <2>2, <2>3, AppendFromPlan DEF Planned, TypeOK
  <2> QED BY <1>0, <2>1, <2>4 DEF Planned, FromPlan
<1>6. CASE Mine
  <2>1. mempool # <<>> /\ mempool' = Tail(mempool) /\ queue' = queue
    BY <1>6 DEF Mine
  <2>2. /\ FromPlan(mempool')
        /\ Len(mempool) # 1 => mempool' # <<>> /\ mempool'[Len(mempool')] = mempool[Len(mempool)]
    BY <2>1, TailFromPlan DEF Planned, TypeOK
  <2>3. phase' = "wait" => phase = "wait" /\ Len(mempool) # 1 /\ pc' = pc
    BY <1>6 DEF Mine, Fail, Advance
  <2> QED BY <1>0, <2>1, <2>2, <2>3 DEF Planned, FromPlan, step
<1>7. CASE Execute
  <2>1. /\ queue # <<>> /\ queue' = Tail(queue)
        /\ UNCHANGED <<mempool, phase, pc>>
    BY <1>7 DEF Execute, process
  <2>2. FromPlan(queue') BY <2>1, TailFromPlan DEF Planned, TypeOK
  <2> QED BY <1>0, <2>1, <2>2 DEF Planned, FromPlan, step
<1>8. CASE Crash
  BY <1>0, <1>8 DEF Crash, Planned, FromPlan
<1>9. CASE Restart
  BY <1>0, <1>9 DEF Restart, Planned, FromPlan
<1>10. CASE UNCHANGED vars
  BY <1>0, <1>10 DEF vars, process, Planned, FromPlan, step
<1> QED BY <1>1, <1>2, <1>3, <1>4, <1>5, <1>6, <1>7, <1>8, <1>9, <1>10
        DEF Next, Script

-----------------------------------------------------------------------------
(* The chain only moves towards the plan. *)

LEMMA ApplyAchieves ==
    ASSUME NEW s \in Steps, NEW c \in Chains
    PROVE  /\ s.kind \in Creating => s.on \in Apply(s, c).code
           /\ s.kind \in Creating \cup {"set"} => s.sets \cap Apply(s, c).stale = {}
           /\ s.kind = "admin" => Apply(s, c).admin[s.on] = s.to
<1>1. CASE s.kind \in Creating
  BY <1>1 DEF Apply, Chains, Steps, Creating, Calling
<1>2. CASE s.kind = "set"
  BY <1>2 DEF Apply, Chains, Steps, Creating, Calling
<1>3. CASE s.kind = "admin"
  BY <1>3 DEF Apply, Chains, Steps, Creating, Calling
<1> QED BY <1>1, <1>2, <1>3 DEF Creating

Evolves ==
    /\ chain.code \subseteq chain'.code
    /\ chain'.stale \subseteq chain.stale
    /\ \A x \in Contracts :
          chain'.admin[x] # chain.admin[x] =>
              \/ x \notin chain.code /\ x \in chain'.code
              \/ /\ chain.admin[x] # "nobody"
                 /\ \E k \in DOMAIN steps :
                       /\ steps[k].kind = "admin" /\ steps[k].on = x
                       /\ chain'.admin[x] = steps[k].to

\* Of the miner and the signers.
LEMMA ExecutedEvolves ==
    ASSUME TypeOK, NEW t \in Transactions, NEW k \in DOMAIN steps, t.step = steps[k],
           NEW p \in Principals, chain' = Executed(t, p, chain)
    PROVE  Evolves
<1>1. chain \in Chains BY DEF TypeOK
<1> QED BY <1>1, ExecutedGrows, ExecutedAdmin DEF Evolves

LEMMA MineEvolves == TypeOK /\ Planned /\ Mine => Evolves
<1> SUFFICES ASSUME TypeOK, Planned, Mine PROVE Evolves
  OBVIOUS
<1>1. 1 \in DOMAIN mempool /\ Head(mempool) = mempool[1] /\ Head(mempool) \in Transactions
  BY DEF Mine, TypeOK
<1>2. PICK k \in DOMAIN steps : Head(mempool).step = steps[k]
  BY <1>1 DEF Planned, FromPlan
<1>3. chain' = Executed(Head(mempool), "deployer", chain) BY DEF Mine
<1> QED BY <1>1, <1>2, <1>3, ExecutedEvolves DEF Principals

LEMMA ExecuteEvolves == TypeOK /\ Planned /\ Execute => Evolves
<1> SUFFICES ASSUME TypeOK, Planned, Execute PROVE Evolves
  OBVIOUS
<1>1. 1 \in DOMAIN queue /\ Head(queue) = queue[1] /\ Head(queue) \in Transactions
  BY DEF Execute, TypeOK
<1>2. PICK k \in DOMAIN steps : Head(queue).step = steps[k]
  BY <1>1 DEF Planned, FromPlan
<1>3. chain' = Executed(Head(queue), "multisig", chain) BY DEF Execute
<1> QED BY <1>1, <1>2, <1>3, ExecutedEvolves DEF Principals

\* What was done stays done, whatever is still pending or waiting for signers.
LEMMA AchievedStays ==
    ASSUME TypeOK, Unowned, Evolves, NEW s \in Steps, Achieved(s),
           NEW i \in DOMAIN steps, s = steps[i]
    PROVE  Achieved(s)'
<1>0. network \in Networks /\ steps = Plan[network]
  BY DEF TypeOK, steps
<1>1. s.kind \in Creating => s.on \in chain'.code BY DEF Achieved, Evolves
<1>2. s.kind = "set" => s.sets \cap chain'.stale = {} BY DEF Achieved, Evolves
<1>3. ASSUME s.kind = "admin" PROVE chain'.admin[s.on] = s.to
  <2>1. chain.admin[s.on] = s.to BY <1>3 DEF Achieved
  <2>2. s.on \in Contracts /\ s.to # "nobody" BY <1>0 DEF Steps, Principals
  <2>3. s.on \in chain.code BY <2>1, <2>2 DEF Unowned
  <2>4. SUFFICES ASSUME chain'.admin[s.on] # chain.admin[s.on] PROVE FALSE
    BY <2>1
  <2>5. PICK k \in DOMAIN steps :
          /\ steps[k].kind = "admin" /\ steps[k].on = s.on
          /\ chain'.admin[s.on] = steps[k].to
    BY <2>2, <2>3, <2>4 DEF Evolves
  <2>6. steps[k].to = s.to BY <1>0, <1>3, <2>5, PlanAdmins
  <2> QED BY <2>1, <2>4, <2>5, <2>6
<1> QED BY <1>1, <1>2, <1>3 DEF Achieved

-----------------------------------------------------------------------------
(* Admins exist on deployed contracts only. *)

LEMMA InitUnowned == Init => Unowned
BY StartAdmins DEF Init, Unowned

\* Everybody but the miner and the signers leaves the chain alone or, on a
\* network that is thrown away, starts it afresh.
LEMMA ChainStep ==
    ASSUME TypeOK, Planned, [Next]_vars
    PROVE  Evolves \/ chain' = chain \/ (Restart /\ chain' = Start[network])
<1>1. CASE Mine BY <1>1, MineEvolves
<1>2. CASE Execute BY <1>2, ExecuteEvolves
<1>3. CASE Restart BY <1>3 DEF Restart
<1>4. CASE Script \/ Crash \/ UNCHANGED vars
  BY <1>4 DEF Script, Skip, Recount, Prepare, Throw, Send, SendForAnother, Instruct, Abort, Crash, vars
<1> QED BY <1>1, <1>2, <1>3, <1>4 DEF Next

LEMMA UnownedStep == TypeOK /\ Planned /\ Unowned /\ [Next]_vars => Unowned'
<1> SUFFICES ASSUME TypeOK, Planned, Unowned, [Next]_vars PROVE Unowned'
  OBVIOUS
<1>1. CASE Evolves BY <1>1 DEF Evolves, Unowned
<1>2. CASE chain' = chain BY <1>2 DEF Unowned
<1>3. CASE chain' = Start[network] BY <1>3, StartAdmins DEF Unowned, TypeOK
<1> QED BY <1>1, <1>2, <1>3, ChainStep

-----------------------------------------------------------------------------
(* The branch of a block that deployed its contract. *)

\* The transaction the script waited for was mined and not reverted.
LEMMA WaitOver ==
    ASSUME TypeOK, Planned, Mine, phase = "wait", Len(mempool) = 1, phase' # "failed"
    PROVE  /\ step \in Steps
           /\ chain' = Apply(step, chain)
           /\ Advance
<1>1. step \in Steps BY PlanFacts DEF Running
<1>2. Head(mempool).step = step
  BY DEF Planned, TypeOK
<1>3. ~ Reverts(Head(mempool), "deployer", chain) /\ Advance
  BY DEF Mine, Fail
<1>4. chain' = Executed(Head(mempool), "deployer", chain) BY DEF Mine
<1> QED BY <1>1, <1>2, <1>3, <1>4 DEF Executed

FreshAt(d) ==
    /\ d < pc /\ Checked(steps[d])
    /\ \A j \in DOMAIN steps : d < j /\ j < pc => ~ Checked(steps[j])

Fresh == ~ existed /\ phase \in {"check", "send", "wait"}
                   /\ (phase = "check" \/ ~ Checked(step))

LEMMA FreshBranchDef ==
    FreshBranch <=> (Fresh => \A d \in DOMAIN steps : FreshAt(d) => steps[d].sets \cap chain.stale = {})
BY DEF FreshBranch, Fresh, FreshAt

LEMMA InitFreshBranch == Init => FreshBranch
<1> SUFFICES ASSUME Init PROVE FreshBranch
  OBVIOUS
<1>1. TypeOK BY InitType
<1>2. pc = 1 /\ \A d \in DOMAIN steps : d >= 1 BY <1>1, PlanFacts DEF Init
<1> QED BY <1>2, <1>1, PlanFacts DEF FreshBranch

\* The script passes a step that is no code check.
LEMMA FreshAdvance ==
    ASSUME TypeOK, FreshBranch, Running, ~ Checked(step), Advance, network' = network,
           existed' = existed, chain'.stale \subseteq chain.stale
    PROVE  FreshBranch'
<1>1. steps' = steps /\ pc' = pc + 1 /\ pc \in DOMAIN steps
  BY AdvanceFacts, PlanFacts
<1>2. DOMAIN steps \subseteq Nat BY PlanFacts
<1>3. SUFFICES ASSUME ~ existed, NEW d \in DOMAIN steps, FreshAt(d)'
               PROVE  steps[d].sets \cap chain'.stale = {}
  BY <1>1, FreshBranchDef DEF FreshBranch, FreshAt
<1>4. d # pc BY <1>1, <1>3 DEF FreshAt, step
<1>5. FreshAt(d) BY <1>1, <1>2, <1>3, <1>4 DEF FreshAt
<1>6. steps[d].sets \cap chain.stale = {}
  BY <1>3, <1>5 DEF FreshBranch, FreshAt, Running
<1> QED BY <1>6

\* The script stays where it is, and so does what it knows of its branch.
LEMMA FreshStay ==
    ASSUME FreshBranch, network' = network, pc' = pc, existed' = existed, Fresh' => Fresh,
           chain'.stale \subseteq chain.stale
    PROVE  FreshBranch'
<1>1. steps' = steps BY DEF steps
<1>2. \A d \in DOMAIN steps : FreshAt(d)' <=> FreshAt(d) BY <1>1 DEF FreshAt
<1> QED BY <1>1, <1>2, FreshBranchDef DEF FreshBranch, Fresh, FreshAt

LEMMA FreshBranchStep ==
    TypeOK /\ Planned /\ FreshBranch /\ [Next]_vars => FreshBranch'
<1> SUFFICES ASSUME TypeOK, Planned, FreshBranch, [Next]_vars PROVE FreshBranch'
  OBVIOUS
<1> USE DEF bounds
<1>1. CASE Skip
  <2>1. Running /\ Advance /\ network' = network /\ chain' = chain
    BY <1>1 DEF Skip, Running
  <2>2. CASE Checked(step)
    <3>1. existed' BY <1>1, <2>2 DEF Skip, Checked
    <3> QED BY <3>1 DEF FreshBranch
  <2>3. CASE ~ Checked(step)
    <3>1. existed' = existed BY <1>1, <2>3 DEF Skip, Checked, TypeOK
    <3> QED BY <2>1, <2>3, <3>1, FreshAdvance
  <2> QED BY <2>2, <2>3
<1>2. CASE Recount
  <2>1. /\ Running /\ Advance /\ network' = network /\ chain' = chain
        /\ existed' = existed /\ ~ Checked(step)
    BY <1>2 DEF Recount, Running, Checked
  <2> QED BY <2>1, FreshAdvance
<1>3. CASE Prepare
  <2>1. /\ network' = network /\ pc' = pc /\ chain' = chain
        /\ phase = "check" /\ phase' = "send"
    BY <1>3 DEF Prepare
  <2>2. step' = step BY <2>1 DEF step, steps
  <2>3. CASE Checked(step)
    BY <2>1, <2>2, <2>3 DEF FreshBranch, Checked
  <2>4. CASE ~ Checked(step)
    <3>1. existed' = existed BY <1>3, <2>4 DEF Prepare, Checked, TypeOK
    <3> QED BY <2>1, <2>4, <3>1, FreshStay DEF Fresh
  <2> QED BY <2>3, <2>4
<1>4. CASE SendForAnother \/ Throw \/ Abort \/ Crash
  BY <1>4 DEF SendForAnother, Throw, Abort, Crash, Fail, FreshBranch
<1>5. CASE Send
  <2>1. /\ network' = network /\ existed' = existed /\ chain' = chain /\ pc' = pc
        /\ phase = "send"
    BY <1>5 DEF Send, Fail
  <2>2. step' = step BY <2>1 DEF step, steps
  <2>3. phase' \in {"failed", "wait", "hung"} BY <1>5 DEF Send, Fail
  <2>4. Fresh' => Fresh BY <2>1, <2>2, <2>3 DEF Fresh, Checked
  <2> QED BY <2>1, <2>4, FreshStay
<1>6. CASE Instruct
  <2>1. /\ Running /\ Advance /\ network' = network /\ chain' = chain
        /\ existed' = existed
    BY <1>6 DEF Instruct, Running
  <2>2. ~ Checked(step) BY <1>6 DEF Instruct, MayInstruct, Calling, Checked
  <2> QED BY <2>1, <2>2, FreshAdvance
<1>7. CASE Mine
  <2>1. network' = network /\ existed' = existed BY <1>7 DEF Mine
  <2>2. chain'.stale \subseteq chain.stale BY <1>7, MineEvolves DEF Evolves
  <2>3. CASE phase = "wait" /\ Len(mempool) = 1 /\ phase' # "failed"
    <3>1. step \in Steps /\ chain' = Apply(step, chain) /\ Advance
      BY <1>7, <2>3, WaitOver
    <3>2. CASE ~ Checked(step)
      BY <2>1, <2>2, <2>3, <3>1, <3>2, FreshAdvance DEF Running
    <3>3. CASE Checked(step)
      <4>1. steps' = steps /\ pc' = pc + 1 /\ pc \in DOMAIN steps
        BY <2>1, <2>3, <3>1, AdvanceFacts, PlanFacts DEF Running
      <4>2. DOMAIN steps \subseteq Nat BY PlanFacts
      <4>3. step.sets \cap chain'.stale = {}
        BY <3>1, <3>3, ApplyAchieves DEF Checked, Creating, TypeOK
      <4>4. SUFFICES ASSUME NEW d \in DOMAIN steps, FreshAt(d)'
                     PROVE  steps[d].sets \cap chain'.stale = {}
        BY <4>1 DEF FreshBranch, FreshAt
      <4>5. d = pc BY <3>3, <4>1, <4>2, <4>4 DEF FreshAt, step, Checked
      <4> QED BY <4>3, <4>5 DEF step
    <3> QED BY <3>2, <3>3
  <2>4. CASE phase' = "failed"
    BY <2>4 DEF FreshBranch
  <2>5. CASE ~ (phase = "wait" /\ Len(mempool) = 1)
    <3>1. phase' = phase /\ pc' = pc BY <1>7, <2>5 DEF Mine
    <3>2. Fresh' => Fresh BY <2>1, <3>1 DEF Fresh, step, steps, Checked
    <3> QED BY <2>1, <2>2, <3>1, <3>2, FreshStay
  <2> QED BY <2>3, <2>4, <2>5
<1>8. CASE Execute
  <2>1. network' = network /\ UNCHANGED process BY <1>8 DEF Execute
  <2>2. chain'.stale \subseteq chain.stale BY <1>8, ExecuteEvolves DEF Evolves
  <2>3. Fresh' => Fresh BY <2>1 DEF Fresh, step, steps, Checked, process
  <2> QED BY <2>1, <2>2, <2>3, FreshStay DEF process
<1>9. CASE Restart
  <2>1. pc' = 1 /\ steps' = steps BY <1>9 DEF Restart, steps
  <2>2. \A d \in DOMAIN steps : d >= 1 BY PlanFacts
  <2> QED BY <2>1, <2>2, PlanFacts DEF FreshBranch
<1>10. CASE UNCHANGED vars
  <2>1. Fresh' => Fresh BY <1>10 DEF vars, process, Fresh, step, steps, Checked
  <2> QED BY <1>10, <2>1, FreshStay DEF vars, process
<1> QED BY <1>1, <1>2, <1>3, <1>4, <1>5, <1>6, <1>7, <1>8, <1>9, <1>10
        DEF Next, Script

-----------------------------------------------------------------------------
(* The steps a command has passed. *)

LEMMA InitPassed == Init => Passed
<1> SUFFICES ASSUME Init PROVE Passed
  OBVIOUS
<1>1. TypeOK BY InitType
<1>2. pc = 1 /\ DOMAIN steps = 1 .. Len(steps) /\ Len(steps) \in Nat
  BY <1>1, PlanFacts DEF Init
<1>3. phase = "done" => steps = <<>> BY DEF Init
<1>4. phase = "done" => Len(steps) = 0 BY <1>3
<1> QED BY <1>2, <1>4 DEF Passed

\* A step whose check finds nothing to do is done.
LEMMA SkippedIsAchieved ==
    ASSUME TypeOK, FreshBranch, phase = "check", ~ Wanted(step, chain)
    PROVE  Achieved(step)
<1>1. /\ step \in Steps /\ pc \in DOMAIN steps /\ step = steps[pc]
      /\ network \in Networks /\ steps = Plan[network]
      /\ DOMAIN steps \subseteq Nat
  BY PlanFacts DEF Running, step, steps, TypeOK
<1>2. CASE step.kind \in {"genesis", "deploy", "mock"}
  BY <1>1, <1>2 DEF Wanted, Achieved, Creating
<1>3. CASE step.kind = "factory"
  BY <1>1, <1>3 DEF Wanted, Achieved, Creating
<1>4. CASE step.kind = "admin"
  BY <1>1, <1>4 DEF Wanted, Achieved, Creating
<1>5. CASE step.kind = "set"
  <2>1. step.sets \cap chain.stale = {} \/ (step.when = "existing" /\ ~ existed)
    BY <1>1, <1>5 DEF Wanted
  <2>2. ASSUME step.when = "existing", ~ existed
        PROVE  step.sets \cap chain.stale = {}
    <3>1. PICK d \in 1 .. pc - 1 :
            /\ steps[d].kind = "deploy"
            /\ step.sets \subseteq steps[d].sets
            /\ \A j \in d + 1 .. pc - 1 : steps[j].kind \notin {"genesis", "deploy"}
      BY <1>1, <1>5, <2>2, PlanBranches
    <3>2. d \in DOMAIN steps /\ d < pc BY <1>1, PlanFacts
    <3>3. FreshAt(d)
      <4>1. \A j \in DOMAIN steps : d < j /\ j < pc => j \in d + 1 .. pc - 1
        BY <1>1, PlanFacts
      <4> QED BY <3>1, <3>2, <4>1 DEF FreshAt, Checked
    <3>4. steps[d].sets \cap chain.stale = {}
      BY <2>2, <3>2, <3>3, FreshBranchDef DEF Fresh
    <3> QED BY <3>1, <3>4
  <2> QED BY <1>1, <1>5, <2>1, <2>2 DEF Achieved, Creating
<1>6. CASE step.kind \in {"resend", "fund", "recount"}
  BY <1>6 DEF Achieved, Creating
<1> QED BY <1>1, <1>2, <1>3, <1>4, <1>5, <1>6 DEF Steps, Creating, Calling

\* What was passed stays achieved while the chain moves.
LEMMA PassedStays ==
    ASSUME TypeOK, Unowned, Evolves \/ chain' = chain, network' = network,
           NEW i \in DOMAIN steps, Achieved(steps[i])
    PROVE  Achieved(steps[i])'
<1>1. PICK s \in Steps : s = steps[i] BY PlanFacts
<1>2. steps'[i] = s BY <1>1 DEF steps
<1>3. Achieved(s)'
  <2>1. CASE Evolves BY <1>1, <2>1, AchievedStays
  <2>2. CASE chain' = chain BY <1>1, <2>2 DEF Achieved
  <2> QED BY <2>1, <2>2
<1> QED BY <1>2, <1>3 DEF Achieved

\* The command passes its step.
LEMMA PassedAdvance ==
    ASSUME TypeOK, Unowned, Passed, Running, Advance, network' = network,
           Evolves \/ chain' = chain, printed' = printed,
           NEW s \in Steps, s = step, ~ printed => Achieved(s)'
    PROVE  Passed'
<1>1. /\ steps' = steps /\ pc' = pc + 1 /\ pc \in DOMAIN steps
      /\ phase' = "done" => pc' = Len(steps') + 1
  BY AdvanceFacts, PlanFacts
<1>2. DOMAIN steps \subseteq Nat BY PlanFacts
<1>3. SUFFICES ASSUME ~ printed, NEW i \in DOMAIN steps, i < pc'
               PROVE  Achieved(steps[i])'
  BY <1>1 DEF Passed
<1>4. CASE i = pc
  <2>1. Achieved(s)' BY <1>3
  <2>2. steps'[i] = s BY <1>1, <1>4 DEF step
  <2> QED BY <2>1, <2>2 DEF Achieved
<1>5. CASE i # pc
  <2>1. i < pc BY <1>1, <1>2, <1>3, <1>5
  <2>2. Achieved(steps[i]) BY <1>3, <2>1 DEF Passed, Running
  <2> QED BY <2>2, PassedStays
<1> QED BY <1>4, <1>5

\* The command stays at its step, or gives up, or asks the signers.
LEMMA PassedStay ==
    ASSUME TypeOK, Unowned, Passed, network' = network, pc' = pc, printed' = printed,
           Evolves \/ chain' = chain,
           phase' = "done" => phase = "done",
           phase' \in {"check", "send", "wait"} => phase \in {"check", "send", "wait"}
    PROVE  Passed'
<1>1. steps' = steps BY DEF steps
<1>2. SUFFICES ASSUME ~ printed, phase \in {"check", "send", "wait", "done"},
                      NEW i \in DOMAIN steps, i < pc
               PROVE  Achieved(steps[i])'
  BY <1>1 DEF Passed
<1>3. Achieved(steps[i]) BY <1>2 DEF Passed
<1> QED BY <1>3, PassedStays

LEMMA PassedStep ==
    TypeOK /\ Planned /\ Unowned /\ FreshBranch /\ Passed /\ [Next]_vars => Passed'
<1> SUFFICES ASSUME TypeOK, Planned, Unowned, FreshBranch, Passed, [Next]_vars
             PROVE  Passed'
  OBVIOUS
<1> USE DEF bounds
<1>1. CASE Skip
  <2>1. /\ Running /\ Advance /\ network' = network /\ chain' = chain
        /\ printed' = printed
    BY <1>1 DEF Skip, Running
  <2>2. PICK s \in Steps : s = step BY <2>1, PlanFacts
  <2>3. Achieved(s) BY <1>1, <2>2, SkippedIsAchieved DEF Skip
  <2>4. Achieved(s)' BY <2>1, <2>3 DEF Achieved
  <2> QED BY <2>1, <2>2, <2>4, PassedAdvance
<1>2. CASE Recount
  <2>1. /\ Running /\ Advance /\ network' = network /\ chain' = chain
        /\ printed' = printed /\ step.kind = "recount"
    BY <1>2 DEF Recount, Running
  <2>2. PICK s \in Steps : s = step BY <2>1, PlanFacts
  <2>3. Achieved(s)' BY <2>1, <2>2 DEF Achieved, Creating
  <2> QED BY <2>1, <2>2, <2>3, PassedAdvance
<1>3. CASE Prepare
  <2>1. /\ network' = network /\ pc' = pc /\ printed' = printed /\ chain' = chain
        /\ phase = "check" /\ phase' = "send"
    BY <1>3 DEF Prepare
  <2> QED BY <2>1, PassedStay
<1>4. CASE SendForAnother \/ Throw \/ Abort \/ Crash
  BY <1>4 DEF SendForAnother, Throw, Abort, Crash, Fail, Passed
<1>5. CASE Send
  <2>1. /\ network' = network /\ pc' = pc /\ printed' = printed /\ chain' = chain
        /\ phase = "send" /\ phase' \in {"failed", "wait", "hung"}
    BY <1>5 DEF Send, Fail
  <2> QED BY <2>1, PassedStay
<1>6. CASE Instruct
  <2>1. Running /\ Advance /\ network' = network /\ printed'
    BY <1>6 DEF Instruct, Running
  <2>2. phase' = "done" => pc' = Len(steps') + 1 BY <2>1, AdvanceFacts
  <2> QED BY <2>1, <2>2 DEF Passed
<1>7. CASE Mine
  <2>1. network' = network /\ printed' = printed BY <1>7 DEF Mine
  <2>2. Evolves BY <1>7, MineEvolves
  <2>3. CASE phase = "wait" /\ Len(mempool) = 1 /\ phase' # "failed"
    <3>1. step \in Steps /\ chain' = Apply(step, chain) /\ Advance
      BY <1>7, <2>3, WaitOver
    <3>2. PICK s \in Steps : s = step BY <3>1
    <3>3. Achieved(s)' BY <3>1, <3>2, ApplyAchieves DEF Achieved, TypeOK
    <3> QED BY <2>1, <2>2, <2>3, <3>1, <3>2, <3>3, PassedAdvance DEF Running
  <2>4. CASE phase' = "failed"
    BY <2>4 DEF Passed
  <2>5. CASE ~ (phase = "wait" /\ Len(mempool) = 1)
    <3>1. phase' = phase /\ pc' = pc BY <1>7, <2>5 DEF Mine
    <3> QED BY <2>1, <2>2, <3>1, PassedStay
  <2> QED BY <2>3, <2>4, <2>5
<1>8. CASE Execute
  <2>1. network' = network /\ UNCHANGED process BY <1>8 DEF Execute
  <2>2. Evolves BY <1>8, ExecuteEvolves
  <2> QED BY <2>1, <2>2, PassedStay DEF process
<1>9. CASE Restart
  <2>1. /\ pc' = 1 /\ steps' = steps
        /\ phase' = IF steps = <<>> THEN "done" ELSE "check"
    BY <1>9 DEF Restart, steps
  <2>2. \A i \in DOMAIN steps : i >= 1 BY PlanFacts
  <2>3. steps = <<>> => Len(steps) = 0 OBVIOUS
  <2> QED BY <2>1, <2>2, <2>3, PlanFacts DEF Passed
<1>10. CASE UNCHANGED vars
  BY <1>10, PassedStay DEF vars, process
<1> QED BY <1>1, <1>2, <1>3, <1>4, <1>5, <1>6, <1>7, <1>8, <1>9, <1>10
        DEF Next, Script

-----------------------------------------------------------------------------
\* The type, the nonces, the branch of the last block and what was passed hold
\* together in every reachable state.
THEOREM Invariance == Spec => []Inv
<1>1. Init => Inv
  BY InitType, InitCounted, InitPlanned, InitUnowned, InitFreshBranch, InitPassed DEF Inv
<1>2. Inv /\ [Next]_vars => Inv'
  BY TypeStep, CountedStep, PlannedStep, UnownedStep, FreshBranchStep, PassedStep DEF Inv
<1> QED BY <1>1, <1>2, PTL DEF Spec

\* Whatever crashed, failed, or waited for signers before: a command that ends
\* without asking for anything leaves the network as its scripts want it.
THEOREM DoneIsDesired == Spec => []SettledMeansDesired
<1>1. Inv => SettledMeansDesired
  <2> SUFFICES ASSUME Inv, Settled, NEW i \in DOMAIN steps
               PROVE  Achieved(steps[i])
    BY DEF SettledMeansDesired
  <2>1. pc = Len(steps) + 1 /\ ~ printed /\ phase = "done" BY DEF Inv, Passed, Settled
  <2>2. i < pc BY <2>1, PlanFacts DEF Inv
  <2> QED BY <2>1, <2>2 DEF Inv, Passed
<1> QED BY <1>1, Invariance, PTL

-----------------------------------------------------------------------------
(* Tokens that are sent.  The inductive invariant. *)

\* A transaction that is accepted was prepared when nothing was pending, so its
\* checks saw everything that was sent before, and it is the only one pending.
Alone ==
    /\ phase = "check" => lead = Unread \/ mempool = <<>> \/ lead < Len(mempool)
    /\ phase = "send" /\ Nonce >= Len(mempool) => mempool = <<>>
    /\ phase = "wait" => Len(mempool) = 1

\* Only calls are printed for the signers.
OnlyCallsPrinted == \A i \in DOMAIN queue : queue[i].step.kind \in Calling

\* Nobody but the deployer creates code, so a step that creates some found it or
\* waited for it.
CodePassed ==
    phase \in {"check", "send", "wait"} =>
        \A d \in DOMAIN steps :
            d < pc /\ steps[d].kind \in Creating => steps[d].on \in chain.code

\* A pending transfer is the oldest transaction, and its receiver has nothing;
\* neither has the receiver of one that is about to be accepted.
FundsPending ==
    /\ \A c \in Contracts : chain.funded[c] <= 1
    /\ \A i \in DOMAIN mempool : mempool[i].step.kind = "fund" =>
          i = 1 /\ chain.funded[mempool[i].step.on] = 0
    /\ phase = "send" /\ step.kind = "fund" /\ Nonce >= Len(mempool) =>
          chain.funded[step.on] = 0

\* Contract c has no tokens and none are on the way.
Unfunded(c) ==
    /\ chain.funded[c] = 0
    /\ \A i \in DOMAIN mempool : ~ (mempool[i].step.kind = "fund" /\ mempool[i].step.on = c)

\* Step i sends tokens in the branch of missing code of the check at step d.
FreshFund(d, i) ==
    /\ d < i /\ steps[i].kind = "fund" /\ steps[i].when = "fresh"
    /\ Checked(steps[d]) /\ steps[d].on = steps[i].on
    /\ \A j \in DOMAIN steps : d < j /\ j < i => ~ Checked(steps[j])

\* The command has done the check of step d and not yet sent the tokens of i.
Between(d, i) ==
    /\ phase \in {"check", "send", "wait"}
    /\ d < pc \/ (d = pc /\ phase # "check")
    /\ pc < i \/ (pc = i /\ phase # "wait")

\* The receiver of such a transfer has nothing before it exists, and, once the
\* check found it missing, until the transfer is sent.
FreshUnfunded ==
    \A d, i \in DOMAIN steps : FreshFund(d, i) =>
        /\ steps[i].on \notin chain.code => Unfunded(steps[i].on)
        /\ ~ existed /\ Between(d, i) => Unfunded(steps[i].on)

FundInv == Alone /\ OnlyCallsPrinted /\ CodePassed /\ FundsPending /\ FreshUnfunded

-----------------------------------------------------------------------------
(* What transactions do to the tokens sent, and to what is pending. *)

LEMMA ExecutedFunds ==
    ASSUME NEW t \in Transactions, NEW c \in Chains, NEW p, NEW x \in Contracts
    PROVE  IF t.step.kind = "fund" /\ t.step.on = x
           THEN Executed(t, p, c).funded[x] = c.funded[x] + 1
           ELSE Executed(t, p, c).funded[x] = c.funded[x]
<1> DEFINE s == t.step
<1>0. s \in Steps BY DEF Transactions
<1>1. CASE s.kind \in Creating
  BY <1>0, <1>1 DEF Executed, Apply, Chains, Steps, Creating, Calling
<1>2. CASE s.kind \in {"set", "resend", "admin", "recount"}
  BY <1>0, <1>2 DEF Executed, Apply, Chains, Steps, Creating, Calling
<1>3. CASE s.kind = "fund"
  <2>1. ~ Reverts(t, p, c) BY <1>3 DEF Reverts, Creating, Calling
  <2>2. Executed(t, p, c) = [c EXCEPT !.funded[s.on] = @ + 1]
    BY <1>3, <2>1 DEF Executed, Apply, Creating
  <2> QED BY <1>0, <1>3, <2>2 DEF Chains, Steps
<1> QED BY <1>0, <1>1, <1>2, <1>3 DEF Steps, Calling

LEMMA AppendIndices ==
    ASSUME NEW q \in Seq(Transactions), NEW t \in Transactions, NEW i \in DOMAIN Append(q, t)
    PROVE  /\ i \in Nat \ {0}
           /\ \/ i \in DOMAIN q /\ Append(q, t)[i] = q[i]
              \/ i = Len(q) + 1 /\ Append(q, t)[i] = t
<1>1. /\ Len(q) \in Nat /\ DOMAIN q = 1 .. Len(q)
      /\ DOMAIN Append(q, t) = 1 .. Len(q) + 1
      /\ Append(q, t)[Len(q) + 1] = t
      /\ \A k \in 1 .. Len(q) : Append(q, t)[k] = q[k]
  OBVIOUS
<1> QED BY <1>1

LEMMA TailIndices ==
    ASSUME NEW q \in Seq(Transactions), q # <<>>
    PROVE  /\ 1 \in DOMAIN q /\ Head(q) = q[1] /\ q[1] \in Transactions
           /\ Len(Tail(q)) = Len(q) - 1 /\ Len(q) \in Nat \ {0}
           /\ \A i \in DOMAIN Tail(q) :
                 /\ i \in Nat \ {0} /\ i + 1 \in DOMAIN q
                 /\ Tail(q)[i] = q[i + 1]
OBVIOUS

\* A contract that nothing is pending for is sent nothing by the miner.
LEMMA MineUnfunded ==
    ASSUME TypeOK, Mine, NEW x \in Contracts, Unfunded(x)
    PROVE  Unfunded(x)'
<1>1. /\ mempool \in Seq(Transactions) /\ mempool # <<>> /\ mempool' = Tail(mempool)
      /\ chain' = Executed(Head(mempool), "deployer", chain) /\ chain \in Chains
  BY DEF Mine, TypeOK
<1>2. ~ (mempool[1].step.kind = "fund" /\ mempool[1].step.on = x)
  BY <1>1, TailIndices DEF Unfunded
<1>3. chain'.funded[x] = chain.funded[x]
  BY <1>1, <1>2, TailIndices, ExecutedFunds
<1>4. ASSUME NEW i \in DOMAIN mempool'
      PROVE  ~ (mempool'[i].step.kind = "fund" /\ mempool'[i].step.on = x)
  BY <1>1, <1>4, TailIndices DEF Unfunded
<1> QED BY <1>3, <1>4 DEF Unfunded

\* The signers send no tokens.
LEMMA ExecuteFunds ==
    ASSUME TypeOK, OnlyCallsPrinted, Execute, NEW x \in Contracts
    PROVE  chain'.funded[x] = chain.funded[x]
<1>1. /\ queue \in Seq(Transactions) /\ queue # <<>>
      /\ chain' = Executed(Head(queue), "multisig", chain) /\ chain \in Chains
  BY DEF Execute, TypeOK
<1>2. queue[1].step.kind # "fund"
  BY <1>1, TailIndices DEF OnlyCallsPrinted, Calling
<1> QED BY <1>1, <1>2, TailIndices, ExecutedFunds

\* A transaction is refused, or accepted right behind what is pending.
LEMMA SendOutcome ==
    ASSUME TypeOK, Counted, Send
    PROVE  /\ phase = "send" /\ step \in Steps /\ step = steps[pc] /\ pc \in DOMAIN steps
           /\ UNCHANGED <<network, chain, queue, pc, existed, lead>>
           /\ \/ phase' = "failed" /\ mempool' = mempool
              \/ /\ phase' = "wait" /\ Nonce = Len(mempool)
                 /\ \E t \in Transactions : t.step = step /\ mempool' = Append(mempool, t)
<1>1. phase = "send" /\ UNCHANGED <<network, chain, queue, existed, lead>>
  BY DEF Send
<1>2. step \in Steps /\ pc \in DOMAIN steps BY <1>1, PlanFacts DEF Running
<1>3. Nonce \in Int /\ Nonce <= Len(mempool) /\ Len(mempool) \in Nat
  BY <1>1 DEF Nonce, Counted, TypeOK
<1>4. PICK via \in Ways :
        LET t == [step |-> step, via |-> via] IN
        IF Reverts(t, "deployer", chain) \/ Nonce < Len(mempool)
        THEN Fail /\ UNCHANGED mempool
        ELSE /\ mempool' = IF Nonce = Len(mempool) THEN Append(mempool, t) ELSE mempool
             /\ phase' = IF Nonce = Len(mempool) THEN "wait" ELSE "hung"
             /\ UNCHANGED pc
  BY DEF Send
<1>5. [step |-> step, via |-> via] \in Transactions BY <1>2 DEF Transactions
<1> QED BY <1>1, <1>2, <1>3, <1>4, <1>5 DEF Fail, step

LEMMA StepsStay == [Next]_vars => steps' = steps /\ network' = network
BY DEF Next, Script, Skip, Recount, Prepare, Throw, Send, SendForAnother, Instruct, Abort, Mine, Execute,
       Crash, Restart, vars, process, bounds, steps

-----------------------------------------------------------------------------
(* Whoever is accepted is alone, and the signers only get calls. *)

LEMMA InitAlone == Init => Alone /\ OnlyCallsPrinted
BY DEF Init, Alone, OnlyCallsPrinted

LEMMA OnlyCallsStep ==
    TypeOK /\ OnlyCallsPrinted /\ [Next]_vars => OnlyCallsPrinted'
<1> SUFFICES ASSUME TypeOK, OnlyCallsPrinted, [Next]_vars PROVE OnlyCallsPrinted'
  OBVIOUS
<1>1. CASE UNCHANGED queue BY <1>1 DEF OnlyCallsPrinted
<1>2. CASE Instruct
  <2>1. PICK t : t.step = step /\ step.kind \in Calling /\ queue' = Append(queue, t)
                 /\ t \in Transactions
    <3>1. step \in Steps BY <1>2, PlanFacts DEF Instruct, Running
    <3>2. PICK via \in Ways : /\ MayInstruct(step, via, chain)
                              /\ queue' = Append(queue, [step |-> step, via |-> via])
      BY <1>2 DEF Instruct
    <3>3. [step |-> step, via |-> via] \in Transactions BY <3>1 DEF Transactions
    <3> QED BY <3>2, <3>3 DEF MayInstruct
  <2>2. queue \in Seq(Transactions) BY DEF TypeOK
  <2> QED BY <2>1, <2>2, AppendIndices DEF OnlyCallsPrinted
<1>3. CASE Execute
  <2>1. queue \in Seq(Transactions) /\ queue # <<>> /\ queue' = Tail(queue)
    BY <1>3 DEF Execute, TypeOK
  <2> QED BY <2>1, TailIndices DEF OnlyCallsPrinted
<1> QED BY <1>1, <1>2, <1>3
        DEF Next, Script, Skip, Recount, Prepare, Throw, Send, SendForAnother, Abort, Mine, Crash, Restart, vars

\* A nonce behind the pending transactions stays behind them.
LEMMA MineKeepsBehind ==
    ASSUME TypeOK, Counted, Alone, Mine, phase = "send", step.kind # "genesis"
    PROVE  step' = step /\ ~ (Nonce' >= Len(mempool'))
<1>1. step' = step /\ mempool # <<>> BY DEF Mine, step, steps
<1>2. ~ (Nonce >= Len(mempool)) BY <1>1 DEF Alone
<1>3. lead \in Int BY DEF Counted
<1>4. Len(mempool') = Len(mempool) - 1 /\ Len(mempool) \in Nat
  BY TailIndices DEF Mine, TypeOK
<1>5. Nonce' = lead' - 1 /\ Nonce = lead - 1 /\ lead' = lead - 1
  BY <1>1, <1>3, UnreadType DEF Mine, Nonce
<1> QED BY <1>1, <1>2, <1>3, <1>4, <1>5

LEMMA AloneStep == TypeOK /\ Counted /\ Planned /\ Alone /\ [Next]_vars => Alone'
<1> SUFFICES ASSUME TypeOK, Counted, Planned, Alone, [Next]_vars PROVE Alone'
  OBVIOUS
<1> USE DEF bounds
<1>0. Len(mempool) \in Nat /\ mempool \in Seq(Transactions) /\ lead \in Int \cup {Unread}
  BY DEF TypeOK
<1>1. CASE Skip
  <2>1. phase = "check" /\ phase' \in {"check", "done"} /\ UNCHANGED <<lead, mempool>>
    BY <1>1 DEF Skip, Advance
  <2> QED BY <2>1 DEF Alone
<1>2. CASE Recount
  <2>1. phase' \in {"check", "done"} /\ lead' = 0 /\ mempool' = mempool
    BY <1>2 DEF Recount, Advance
  <2>2. mempool = <<>> \/ 0 < Len(mempool) BY <1>0
  <2> QED BY <2>1, <2>2 DEF Alone
<1>3. CASE Prepare
  <2>1. phase = "check" /\ phase' = "send" /\ step' = step
    BY <1>3 DEF Prepare, step, steps
  <2>2. lead = Unread \/ mempool = <<>> \/ lead < Len(mempool) BY <2>1 DEF Alone
  <2>3. lead = Unread \/ lead <= Len(mempool) BY <2>1 DEF Counted
  <2>4. step \in Steps BY <2>1, PlanFacts DEF Running
  <2>5. \/ ~ step.raw /\ mempool' = mempool
        \/ step.raw /\ Len(mempool') = Len(mempool) + 1
    <3>1. [step |-> step, via |-> "direct"] \in Transactions
      BY <2>4 DEF Transactions, Ways
    <3> QED BY <1>0, <1>3, <2>4, <3>1 DEF Prepare, Steps
  <2>6. Nonce' = IF step.kind = "genesis" THEN 0 ELSE IF lead = Unread THEN 0 ELSE lead
    <3>1. CASE step.kind = "genesis"
      BY <2>1, <3>1 DEF Nonce
    <3>2. CASE step.kind # "genesis"
      <4>1. lead' = (IF lead = Unread THEN 0 ELSE lead) + 1 BY <1>3, <3>2 DEF Prepare
      <4>2. Nonce' = lead' - 1 BY <2>1, <3>2 DEF Nonce
      <4> QED BY <1>0, <3>2, <4>1, <4>2
    <3> QED BY <3>1, <3>2
  <2>7. Nonce' >= Len(mempool') => mempool' = <<>>
    BY <1>0, <2>2, <2>3, <2>5, <2>6
  <2> QED BY <2>1, <2>7 DEF Alone
<1>4. CASE SendForAnother \/ Throw \/ Abort \/ Crash
  BY <1>4 DEF SendForAnother, Throw, Abort, Crash, Fail, Alone
<1>5. CASE Send
  <2>1. phase = "send" BY <1>5, SendOutcome
  <2>2. CASE phase' = "failed" BY <2>2 DEF Alone
  <2>3. CASE phase' = "wait"
    <3>1. /\ Nonce = Len(mempool)
          /\ \E t \in Transactions : mempool' = Append(mempool, t)
      BY <1>5, <2>3, SendOutcome
    <3>2. mempool = <<>> BY <1>0, <2>1, <3>1 DEF Alone
    <3>3. Len(mempool') = 1 BY <3>1, <3>2
    <3> QED BY <2>3, <3>3 DEF Alone
  <2> QED BY <1>5, <2>2, <2>3, SendOutcome
<1>6. CASE Instruct
  <2>1. phase = "send" /\ phase' \in {"check", "done"} /\ mempool' = mempool
    BY <1>6 DEF Instruct, Advance
  <2>2. step.kind # "genesis" /\ lead' = lead - 1
    BY <1>6 DEF Instruct, MayInstruct, Calling
  <2>3. lead' = Nonce /\ Nonce \in Int BY <2>1, <2>2 DEF Nonce, Counted
  <2>4. mempool = <<>> \/ Nonce < Len(mempool) BY <1>0, <2>1, <2>3 DEF Alone
  <2> QED BY <2>1, <2>3, <2>4 DEF Alone
<1>7. CASE Mine
  <2>1. Len(mempool') = Len(mempool) - 1 /\ mempool' \in Seq(Transactions)
    BY <1>0, <1>7, TailIndices DEF Mine
  <2>2. lead' = (IF lead = Unread THEN Unread ELSE lead - 1) BY <1>7 DEF Mine
  <2>3. CASE phase = "wait"
    <3>1. Len(mempool) = 1 BY <2>3 DEF Alone
    <3>2. mempool' = <<>> BY <2>1, <3>1
    <3>3. phase' \in {"check", "done", "failed"}
      BY <1>7, <2>3, <3>1 DEF Mine, Fail, Advance
    <3> QED BY <3>2, <3>3 DEF Alone
  <2>4. CASE phase # "wait"
    <3>1. phase' = phase /\ step' = step BY <1>7, <2>4 DEF Mine, step, steps
    <3>2. CASE phase = "check"
      BY <1>0, <2>1, <2>2, <3>1, <3>2, UnreadType DEF Alone
    <3>3. CASE phase = "send"
      <4>3. Nonce' >= Len(mempool') => mempool' = <<>>
        <5>1. CASE step.kind = "genesis"
          <6>1. Nonce' = 0 BY <3>1, <5>1 DEF Nonce
          <6> QED BY <2>1, <6>1
        <5>2. CASE step.kind # "genesis"
          BY <1>7, <3>3, <5>2, MineKeepsBehind
        <5> QED BY <5>1, <5>2
      <4> QED BY <3>1, <3>3, <4>3 DEF Alone
    <3> QED BY <2>4, <3>1, <3>2, <3>3 DEF Alone
  <2> QED BY <2>3, <2>4
<1>8. CASE Execute \/ UNCHANGED vars
  <2>1. UNCHANGED <<phase, lead, mempool, step>>
    BY <1>8 DEF Execute, vars, process, step, steps
  <2> QED BY <2>1 DEF Alone, Nonce
<1>9. CASE Restart
  BY <1>9 DEF Restart, Alone
<1> QED BY <1>1, <1>2, <1>3, <1>4, <1>5, <1>6, <1>7, <1>8, <1>9 DEF Next, Script

-----------------------------------------------------------------------------
(* A check that is passed found the code or waited for it. *)

LEMMA InitCodePassed == Init => CodePassed
<1> SUFFICES ASSUME Init PROVE CodePassed
  OBVIOUS
<1>1. TypeOK BY InitType
<1>2. pc = 1 /\ \A d \in DOMAIN steps : ~ (d < 1) BY <1>1, PlanFacts DEF Init
<1> QED BY <1>2 DEF CodePassed

\* The script passes a step.
LEMMA CodePassedAdvance ==
    ASSUME TypeOK, CodePassed, Running, Advance, network' = network,
           chain.code \subseteq chain'.code,
           step.kind \in Creating => step.on \in chain'.code
    PROVE  CodePassed'
<1>1. steps' = steps /\ pc' = pc + 1 /\ pc \in DOMAIN steps
  BY AdvanceFacts, PlanFacts
<1>2. DOMAIN steps \subseteq Nat BY PlanFacts
<1>3. SUFFICES ASSUME NEW d \in DOMAIN steps, d < pc + 1, steps[d].kind \in Creating
               PROVE  steps[d].on \in chain'.code
  BY <1>1 DEF CodePassed
<1>4. CASE d = pc BY <1>3, <1>4 DEF step
<1>5. CASE d # pc
  <2>1. d < pc BY <1>1, <1>2, <1>3, <1>5
  <2> QED BY <1>3, <2>1 DEF CodePassed, Running
<1> QED BY <1>4, <1>5

LEMMA CodePassedStep ==
    TypeOK /\ Counted /\ Planned /\ Alone /\ CodePassed /\ [Next]_vars => CodePassed'
<1> SUFFICES ASSUME TypeOK, Counted, Planned, Alone, CodePassed, [Next]_vars
             PROVE  CodePassed'
  OBVIOUS
<1> USE DEF bounds
<1>0. steps' = steps BY StepsStay
<1>1. CASE Skip
  <2>1. Running /\ Advance /\ network' = network /\ chain' = chain
    BY <1>1 DEF Skip, Running
  <2>2. step.kind \in Creating => step.on \in chain'.code
    BY <1>1 DEF Skip, Wanted, Creating
  <2> QED BY <2>1, <2>2, CodePassedAdvance
<1>2. CASE Recount \/ Instruct
  <2>1. Running /\ Advance /\ network' = network /\ chain' = chain
    BY <1>2 DEF Recount, Instruct, Running
  <2>2. step.kind \notin Creating
    BY <1>2 DEF Recount, Instruct, MayInstruct, Creating, Calling
  <2> QED BY <2>1, <2>2, CodePassedAdvance
<1>3. CASE Prepare
  BY <1>0, <1>3 DEF Prepare, CodePassed
<1>4. CASE SendForAnother \/ Throw \/ Abort \/ Crash
  BY <1>4 DEF SendForAnother, Throw, Abort, Crash, Fail, CodePassed
<1>5. CASE Send
  BY <1>0, <1>5, SendOutcome DEF CodePassed
<1>6. CASE Mine
  <2>1. chain.code \subseteq chain'.code BY <1>6, MineEvolves DEF Evolves
  <2>2. CASE phase = "wait" /\ phase' # "failed"
    <3>1. Len(mempool) = 1 BY <2>2 DEF Alone
    <3>2. step \in Steps /\ chain' = Apply(step, chain) /\ Advance
      BY <1>6, <2>2, <3>1, WaitOver
    <3>3. step.kind \in Creating => step.on \in chain'.code
      BY <3>2, ApplyAchieves DEF TypeOK
    <3> QED BY <1>6, <2>1, <2>2, <3>2, <3>3, CodePassedAdvance DEF Running, Mine
  <2>3. CASE phase' = "failed" BY <2>3 DEF CodePassed
  <2>4. CASE phase # "wait"
    BY <1>0, <1>6, <2>1, <2>4 DEF Mine, CodePassed
  <2> QED BY <2>2, <2>3, <2>4
<1>7. CASE Execute
  <2>1. chain.code \subseteq chain'.code BY <1>7, ExecuteEvolves DEF Evolves
  <2> QED BY <1>0, <1>7, <2>1 DEF Execute, process, CodePassed
<1>8. CASE Restart
  <2>1. pc' = 1 /\ \A d \in DOMAIN steps : ~ (d < 1) BY <1>8, PlanFacts DEF Restart
  <2> QED BY <1>0, <2>1 DEF CodePassed
<1>9. CASE UNCHANGED vars
  BY <1>0, <1>9 DEF vars, process, CodePassed
<1> QED BY <1>1, <1>2, <1>3, <1>4, <1>5, <1>6, <1>7, <1>8, <1>9 DEF Next, Script

-----------------------------------------------------------------------------
(* The pending transfer. *)

LEMMA InitFundsPending == Init => FundsPending
BY StartFunds DEF Init, FundsPending

\* No step of the plan sends tokens by a raw call.
LEMMA RawSendsNothing ==
    ASSUME TypeOK, NEW k \in DOMAIN steps, steps[k].raw
    PROVE  steps[k].kind # "fund"
BY PlanFunds DEF TypeOK, steps

\* What is wanted of a transfer whose check comes before its preparation.
LEMMA FundWanted ==
    ASSUME TypeOK, phase = "check", step.kind = "fund", Wanted(step, chain)
    PROVE  IF step.when = "fresh" THEN ~ existed ELSE chain.funded[step.on] = 0
BY DEF Wanted, Creating

\* The mempool behind an accepted, a refused or no transaction.
LEMMA PrepareMempool ==
    ASSUME TypeOK, Prepare
    PROVE  /\ phase = "check" /\ phase' = "send" /\ step' = step /\ steps' = steps
           /\ pc' = pc /\ pc \in DOMAIN steps /\ step = steps[pc] /\ step \in Steps
           /\ UNCHANGED <<network, chain, queue>> /\ Wanted(step, chain)
           /\ existed' = (existed /\ ~ Checked(step))
           /\ \A i \in DOMAIN mempool' : mempool'[i].step.kind = "fund" =>
                 i \in DOMAIN mempool /\ mempool'[i] = mempool[i]
<1>1. /\ phase = "check" /\ phase' = "send" /\ step' = step /\ steps' = steps
      /\ pc' = pc /\ UNCHANGED <<network, chain, queue>> /\ Wanted(step, chain)
      /\ existed' = (existed /\ ~ Checked(step))
  BY DEF Prepare, step, steps, Checked
<1>2. pc \in DOMAIN steps /\ step = steps[pc] /\ step \in Steps
  BY <1>1, PlanFacts DEF Running, step
<1>3. ASSUME NEW i \in DOMAIN mempool', mempool'[i].step.kind = "fund"
      PROVE  i \in DOMAIN mempool /\ mempool'[i] = mempool[i]
  <2>1. CASE ~ step.raw BY <1>3, <2>1 DEF Prepare
  <2>2. CASE step.raw
    <3>1. PICK t : t = [step |-> step, via |-> "direct"] OBVIOUS
    <3>2. t \in Transactions /\ t.step = step BY <1>2, <3>1 DEF Transactions, Ways
    <3>3. mempool' = Append(mempool, t) BY <2>2, <3>1 DEF Prepare
    <3>4. step.kind # "fund" BY <1>2, <2>2, RawSendsNothing
    <3> QED BY <1>3, <3>2, <3>3, <3>4, AppendIndices DEF TypeOK
  <2> QED BY <2>1, <2>2
<1> QED BY <1>1, <1>2, <1>3

LEMMA FundsPendingStep ==
    ASSUME TypeOK, Counted, Planned, Alone, OnlyCallsPrinted, FundsPending,
           FreshUnfunded, [Next]_vars
    PROVE  FundsPending'
<1> USE DEF bounds
<1>0. steps' = steps /\ mempool \in Seq(Transactions) BY StepsStay DEF TypeOK
<1>1. CASE Skip \/ Recount \/ Instruct \/ SendForAnother \/ Throw \/ Abort \/ Crash
  <2>1. /\ phase' # "send" /\ UNCHANGED <<chain, mempool>>
    BY <1>1 DEF Skip, Recount, SendForAnother, Instruct, Throw, Abort, Crash, Advance, Fail
  <2> QED BY <2>1 DEF FundsPending
<1>2. CASE Prepare
  <2>1. ASSUME step.kind = "fund" PROVE chain.funded[step.on] = 0
    <3>1. phase = "check" /\ Wanted(step, chain) BY <1>2, PrepareMempool
    <3>2. CASE step.when = "fresh"
      <4>1. ~ existed BY <2>1, <3>1, <3>2, FundWanted
      <4>2. PICK d \in DOMAIN steps : FreshFund(d, pc)
        <5>1. pc \in DOMAIN steps /\ step = steps[pc] /\ network \in Networks
              /\ steps = Plan[network]
          BY <1>2, PrepareMempool DEF TypeOK, steps
        <5>2. DOMAIN steps = 1 .. Len(steps) /\ Len(steps) \in Nat BY PlanFacts
        <5>3. PICK d \in 1 .. pc - 1 :
                /\ Checked(steps[d]) /\ steps[d].on = steps[pc].on
                /\ \A j \in d + 1 .. pc - 1 : ~ Checked(steps[j])
          BY <2>1, <3>2, <5>1, PlanFunds DEF Checked
        <5>4. d \in DOMAIN steps /\ d < pc BY <5>1, <5>2
        <5>5. \A j \in DOMAIN steps : d < j /\ j < pc => j \in d + 1 .. pc - 1
          BY <5>1, <5>2
        <5> QED BY <2>1, <3>2, <5>1, <5>3, <5>4, <5>5 DEF FreshFund
      <4>3. Between(d, pc) BY <3>1, <4>2 DEF Between, FreshFund
      <4>4. pc \in DOMAIN steps /\ step = steps[pc] BY <1>2, PrepareMempool
      <4> QED BY <4>1, <4>2, <4>3, <4>4 DEF FreshUnfunded, Unfunded
    <3>3. CASE step.when # "fresh" BY <2>1, <3>1, <3>3, FundWanted
    <3> QED BY <3>2, <3>3
  <2> QED BY <1>2, <2>1, PrepareMempool DEF FundsPending
<1>3. CASE Send
  <2>1. CASE phase' = "failed"
    <3>1. chain' = chain /\ mempool' = mempool BY <1>3, <2>1, SendOutcome
    <3> QED BY <2>1, <3>1 DEF FundsPending
  <2>2. CASE phase' = "wait"
    <3>1. /\ phase = "send" /\ Nonce = Len(mempool) /\ chain' = chain
          /\ Len(mempool) \in Nat
      BY <1>0, <1>3, <2>2, SendOutcome
    <3>2. PICK t \in Transactions : t.step = step /\ mempool' = Append(mempool, t)
      BY <1>3, <2>2, SendOutcome
    <3>3. mempool = <<>> BY <3>1 DEF Alone
    <3>4. step.kind = "fund" => chain.funded[step.on] = 0
      BY <3>1 DEF FundsPending
    <3>5. DOMAIN mempool' = {1} /\ mempool'[1] = t BY <3>2, <3>3
    <3> QED BY <2>2, <3>1, <3>2, <3>4, <3>5 DEF FundsPending
  <2> QED BY <1>3, <2>1, <2>2, SendOutcome
<1>4. CASE Mine
  <2>1. /\ mempool # <<>> /\ mempool' = Tail(mempool) /\ chain \in Chains
        /\ chain' = Executed(Head(mempool), "deployer", chain)
    BY <1>4 DEF Mine, TypeOK
  <2>2. ASSUME NEW c \in Contracts PROVE chain'.funded[c] <= 1
    <3>1. chain.funded[c] \in Nat /\ chain.funded[c] <= 1
      BY <2>1 DEF Chains, FundsPending
    <3>2. mempool[1].step.kind = "fund" /\ mempool[1].step.on = c
            => chain.funded[c] = 0
      BY <1>0, <2>1, TailIndices DEF FundsPending
    <3> QED BY <1>0, <2>1, <3>1, <3>2, TailIndices, ExecutedFunds
  <2>3. ASSUME NEW i \in DOMAIN mempool' PROVE mempool'[i].step.kind # "fund"
    <3>1. i \in Nat \ {0} /\ i + 1 \in DOMAIN mempool /\ mempool'[i] = mempool[i + 1]
      BY <1>0, <2>1, <2>3, TailIndices
    <3> QED BY <3>1 DEF FundsPending
  <2>4. ~ (phase' = "send" /\ step'.kind = "fund" /\ Nonce' >= Len(mempool'))
    <3> SUFFICES ASSUME phase' = "send", step'.kind = "fund" PROVE ~ (Nonce' >= Len(mempool'))
      OBVIOUS
    <3>1. phase = "send" /\ step' = step
      BY <1>0, <1>4 DEF Mine, Fail, Advance, step
    <3> QED BY <1>4, <3>1, MineKeepsBehind
  <2> QED BY <2>2, <2>3, <2>4 DEF FundsPending
<1>5. CASE Execute
  <2>1. UNCHANGED <<mempool, phase, step, lead>>
    BY <1>0, <1>5 DEF Execute, process, step
  <2>2. Nonce' = Nonce BY <2>1 DEF Nonce
  <2>3. \A c \in Contracts : chain'.funded[c] = chain.funded[c]
    BY <1>5, ExecuteFunds
  <2>4. ASSUME NEW i \in DOMAIN mempool PROVE mempool[i].step.on \in Contracts
    <3>1. mempool[i] \in Transactions BY <1>0
    <3>2. mempool[i].step \in Steps BY <3>1 DEF Transactions
    <3> QED BY <3>2 DEF Steps
  <2>5. phase = "send" => step.on \in Contracts
    BY PlanFacts DEF Running, Steps
  <2> QED BY <2>1, <2>2, <2>3, <2>4, <2>5 DEF FundsPending
<1>6. CASE Restart
  <2>1. /\ phase' # "send" /\ network \in Networks
        /\ \/ chain' = chain /\ mempool' = mempool
           \/ chain' = Start[network] /\ mempool' = <<>>
    BY <1>6 DEF Restart, TypeOK
  <2> QED BY <2>1, StartFunds DEF FundsPending
<1>7. CASE UNCHANGED vars
  <2>1. UNCHANGED <<mempool, phase, step, lead, chain>>
    BY <1>0, <1>7 DEF vars, process, step
  <2> QED BY <2>1 DEF FundsPending, Nonce
<1> QED BY <1>1, <1>2, <1>3, <1>4, <1>5, <1>6, <1>7 DEF Next, Script

-----------------------------------------------------------------------------
(* The transfer in the branch of missing code. *)

\* The transfer of step i is the only one to its receiver, and comes after the
\* check of the receiver.
LEMMA FreshFundFacts ==
    ASSUME TypeOK, NEW d \in DOMAIN steps, NEW i \in DOMAIN steps, FreshFund(d, i)
    PROVE  /\ d \in Nat /\ i \in Nat /\ d < i /\ steps[i].on \in Contracts
           /\ Checked(steps[d]) /\ ~ Checked(steps[i]) /\ steps[d].on = steps[i].on
           /\ \A j \in DOMAIN steps : Checked(steps[j]) /\ d < j => ~ (j <= i)
           /\ \A j \in DOMAIN steps :
                 steps[j].kind = "fund" /\ steps[j].on = steps[i].on => j = i
<1>1. /\ d \in Nat /\ i \in Nat /\ d < i /\ steps[i] \in Steps
      /\ DOMAIN steps \subseteq Nat
  BY PlanFacts DEF FreshFund
<1>2. /\ Checked(steps[d]) /\ ~ Checked(steps[i]) /\ steps[d].on = steps[i].on
      /\ \A j \in DOMAIN steps : d < j /\ j < i => ~ Checked(steps[j])
  BY DEF FreshFund, Checked
<1>3. \A j \in DOMAIN steps : Checked(steps[j]) /\ d < j => ~ (j <= i)
  BY <1>1, <1>2
<1>4. \A j \in DOMAIN steps \ {i} :
        ~ (steps[j].kind = "fund" /\ steps[j].on = steps[i].on)
  BY PlanFunds DEF FreshFund, TypeOK, steps
<1> QED BY <1>1, <1>2, <1>3, <1>4 DEF Steps

LEMMA InitFreshUnfunded == Init => FreshUnfunded
<1> SUFFICES ASSUME Init, NEW d \in DOMAIN steps, NEW i \in DOMAIN steps, FreshFund(d, i)
             PROVE  /\ steps[i].on \notin chain.code => Unfunded(steps[i].on)
                    /\ ~ (Between(d, i))
  BY DEF FreshUnfunded
<1>1. TypeOK BY InitType
<1>2. d \in Nat /\ 1 <= d /\ steps[i].on \in Contracts
  BY <1>1, PlanFacts, FreshFundFacts
<1>3. ~ Between(d, i) BY <1>2 DEF Init, Between
<1>4. steps[i].on \notin chain.code => Unfunded(steps[i].on)
  BY <1>2, StartFunds DEF Init, Unfunded
<1> QED BY <1>3, <1>4

\* The script passes a step that is no check that found code.
LEMMA BetweenAdvance ==
    ASSUME TypeOK, Running, Advance, network' = network,
           phase = "check" => ~ Checked(step),
           NEW d \in DOMAIN steps, NEW i \in DOMAIN steps, FreshFund(d, i), Between(d, i)'
    PROVE  Between(d, i)
<1>1. pc' = pc + 1 /\ pc \in Nat /\ phase' \in {"check", "done"} /\ step = steps[pc]
  BY AdvanceFacts, PlanFacts DEF step
<1>2. d \in Nat /\ i \in Nat /\ d < pc + 1 /\ (pc + 1 < i \/ pc + 1 = i)
  BY <1>1, FreshFundFacts DEF Between
<1>3. CASE d = pc
  <2>1. phase # "check" BY <1>1, <1>3, FreshFundFacts
  <2> QED BY <1>1, <1>2, <1>3, <2>1 DEF Between, Running
<1>4. CASE d < pc
  BY <1>1, <1>2, <1>4 DEF Between, Running
<1> QED BY <1>1, <1>2, <1>3, <1>4

\* Only the transfer itself takes a contract out of those without tokens.
LEMMA UnfundedStays ==
    ASSUME TypeOK, Counted, OnlyCallsPrinted, [Next]_vars, ~ Restart,
           NEW x \in Contracts, Unfunded(x),
           ~ (Send /\ phase' = "wait" /\ step.kind = "fund" /\ step.on = x)
    PROVE  Unfunded(x)'
<1>1. CASE UNCHANGED <<chain, mempool>>
  BY <1>1 DEF Unfunded
<1>2. CASE Prepare
  BY <1>2, PrepareMempool DEF Unfunded
<1>3. CASE Send
  <2>1. CASE phase' = "failed"
    BY <1>1, <1>3, <2>1, SendOutcome
  <2>2. CASE phase' = "wait"
    <3>1. PICK t \in Transactions : t.step = step /\ mempool' = Append(mempool, t)
      BY <1>3, <2>2, SendOutcome
    <3>2. mempool \in Seq(Transactions) /\ chain' = chain
      BY <1>3, SendOutcome DEF TypeOK
    <3> QED BY <1>3, <2>2, <3>1, <3>2, AppendIndices DEF Unfunded
  <2> QED BY <1>3, <2>1, <2>2, SendOutcome
<1>4. CASE Mine BY <1>4, MineUnfunded
<1>5. CASE Execute
  <2>1. chain'.funded[x] = chain.funded[x] /\ mempool' = mempool
    BY <1>5, ExecuteFunds DEF Execute
  <2> QED BY <2>1 DEF Unfunded
<1> QED BY <1>1, <1>2, <1>3, <1>4, <1>5
        DEF Next, Script, Skip, Recount, SendForAnother, Throw, Instruct, Abort, Crash, vars

LEMMA FreshUnfundedStep ==
    ASSUME TypeOK, Counted, Planned, Alone, OnlyCallsPrinted, CodePassed, FreshUnfunded,
           [Next]_vars
    PROVE  FreshUnfunded'
<1> USE DEF bounds
<1>0. steps' = steps /\ network' = network BY StepsStay
<1>1. \A d, i \in DOMAIN steps : FreshFund(d, i)' <=> FreshFund(d, i)
  BY <1>0 DEF FreshFund, Checked
<1> SUFFICES ASSUME NEW d \in DOMAIN steps, NEW i \in DOMAIN steps, FreshFund(d, i),
                    NEW x \in Contracts, x = steps[i].on
             PROVE  /\ x \notin chain'.code => Unfunded(x)'
                    /\ ~ existed' /\ Between(d, i)' => Unfunded(x)'
  <2> DEFINE Kept(d, i, x) == /\ x \notin chain'.code => Unfunded(x)'
                             /\ ~ existed' /\ Between(d, i)' => Unfunded(x)'
  <2> SUFFICES ASSUME \A d, i \in DOMAIN steps : FreshFund(d, i) =>
                          \A x \in Contracts : x = steps[i].on => Kept(d, i, x)
               PROVE  FreshUnfunded'
    OBVIOUS
  <2>1. \A d, i \in DOMAIN steps : FreshFund(d, i) => steps[i].on \in Contracts
    BY FreshFundFacts
  <2> QED BY <1>0, <1>1, <2>1 DEF FreshUnfunded, Unfunded
<1>2. x = steps[i].on OBVIOUS
<1>3. /\ x \notin chain.code => Unfunded(x)
      /\ ~ existed /\ Between(d, i) => Unfunded(x)
  BY <1>2 DEF FreshUnfunded
<1>4. ASSUME Send, step.kind = "fund", step.on = x
      PROVE  pc = i /\ pc' = pc /\ x \in chain.code
  <2>1. pc = i BY <1>2, <1>4, SendOutcome, FreshFundFacts
  <2>2. phase = "send" BY <1>4, SendOutcome
  <2>3. d < pc /\ Checked(steps[d]) /\ steps[d].on = x BY <1>2, <2>1, FreshFundFacts
  <2> QED BY <1>4, <2>1, <2>2, <2>3, SendOutcome DEF CodePassed, Checked, Creating
<1>5. CASE Restart
  <2>1. ~ Between(d, i)'
    <3>1. pc' = 1 /\ phase' \in {"check", "done"} BY <1>5 DEF Restart
    <3>2. d \in Nat /\ 1 <= d BY PlanFacts
    <3> QED BY <3>1, <3>2 DEF Between
  <2>2. \/ chain' = chain /\ mempool' = mempool
        \/ chain' = Start[network] /\ mempool' = <<>>
    BY <1>5 DEF Restart
  <2>3. network \in Networks BY DEF TypeOK
  <2> QED BY <1>3, <2>1, <2>2, <2>3, StartFunds DEF Unfunded
<1>6. CASE ~ Restart
  <2>1. chain.code \subseteq chain'.code
    BY <1>6, ChainStep DEF Evolves
  <2>2. ASSUME x \notin chain'.code PROVE Unfunded(x)'
    <3>1. x \notin chain.code BY <2>1, <2>2
    <3> QED BY <1>3, <1>4, <1>6, <3>1, UnfundedStays
  <2>3. ASSUME ~ existed', Between(d, i)' PROVE Unfunded(x)'
    <3>1. CASE Prepare
      <4>1. /\ phase = "check" /\ phase' = "send" /\ pc' = pc /\ step = steps[pc]
            /\ pc \in DOMAIN steps /\ Wanted(step, chain)
            /\ existed' = (existed /\ ~ Checked(step))
        BY <3>1, PrepareMempool
      <4>2. CASE d = pc
        <5>1. Checked(step) /\ step.on = x BY <1>2, <4>1, <4>2, FreshFundFacts
        <5>2. x \notin chain.code BY <4>1, <5>1 DEF Wanted, Checked
        <5> QED BY <1>3, <1>6, <3>1, <4>1, <5>2, UnfundedStays
      <4>3. CASE d # pc
        <5>1. d < pc /\ (pc < i \/ pc = i) BY <2>3, <4>1, <4>3 DEF Between
        <5>2. ~ Checked(step)
          <6>1. pc \in Nat /\ i \in Nat BY <4>1, PlanFacts
          <6> QED BY <4>1, <5>1, <6>1, FreshFundFacts
        <5>3. ~ existed /\ Between(d, i)
          BY <2>3, <4>1, <5>1, <5>2 DEF Between
        <5> QED BY <1>3, <1>6, <4>1, <5>3, UnfundedStays
      <4> QED BY <4>2, <4>3
    <3>2. CASE Skip
      <4>1. /\ Running /\ Advance /\ phase = "check"
            /\ existed' = (existed \/ Checked(step))
        BY <3>2 DEF Skip, Running, Checked
      <4>2. ~ existed /\ ~ Checked(step) BY <2>3, <4>1
      <4>3. Between(d, i) BY <1>0, <2>3, <4>1, <4>2, BetweenAdvance
      <4> QED BY <1>3, <1>6, <4>1, <4>2, <4>3, UnfundedStays DEF Advance
    <3>3. CASE Recount \/ Instruct
      <4>1. Running /\ Advance /\ existed' = existed
        BY <3>3 DEF Recount, Instruct, Running
      <4>2. ~ Checked(step)
        BY <3>3 DEF Recount, Instruct, MayInstruct, Checked, Calling
      <4>3. Between(d, i) BY <1>0, <2>3, <4>1, <4>2, BetweenAdvance
      <4> QED BY <1>3, <1>6, <2>3, <4>1, <4>3, UnfundedStays DEF Advance
    <3>4. CASE Send
      <4>1. phase = "send" /\ pc' = pc /\ existed' = existed /\ phase' \in {"failed", "wait"}
        BY <3>4, SendOutcome
      <4>2. Between(d, i) /\ pc < i BY <2>3, <4>1 DEF Between
      <4>3. i \in Nat BY PlanFacts
      <4> QED BY <1>3, <1>4, <1>6, <2>3, <4>1, <4>2, <4>3, UnfundedStays
    <3>5. CASE Mine
      <4>1. existed' = existed BY <3>5 DEF Mine
      <4>2. Between(d, i)
        <5>1. CASE phase = "wait" /\ phase' # "failed"
          <6>1. Len(mempool) = 1 BY <5>1 DEF Alone
          <6>2. Advance BY <3>5, <5>1, <6>1, WaitOver
          <6> QED BY <1>0, <2>3, <5>1, <6>2, BetweenAdvance DEF Running
        <5>2. CASE phase' = "failed" BY <2>3, <5>2 DEF Between
        <5>3. CASE phase # "wait"
          <6>1. phase' = phase /\ pc' = pc BY <3>5, <5>3 DEF Mine
          <6> QED BY <2>3, <6>1 DEF Between
        <5> QED BY <5>1, <5>2, <5>3
      <4> QED BY <1>3, <2>3, <3>5, <4>1, <4>2, MineUnfunded
    <3>6. CASE Execute \/ UNCHANGED vars
      <4>1. UNCHANGED <<phase, pc, existed>> BY <3>6 DEF Execute, vars, process
      <4>2. ~ existed /\ Between(d, i) BY <2>3, <4>1 DEF Between
      <4>3. Unfunded(x) BY <1>3, <4>2
      <4>4. CASE Execute
        <5>1. chain'.funded[x] = chain.funded[x] /\ mempool' = mempool
          BY <4>4, ExecuteFunds DEF Execute
        <5> QED BY <4>3, <5>1 DEF Unfunded
      <4>5. CASE UNCHANGED vars BY <4>3, <4>5 DEF vars, Unfunded
      <4> QED BY <3>6, <4>4, <4>5
    <3>7. CASE SendForAnother \/ Throw \/ Abort \/ Crash
      <4>1. phase' \in {"failed", "down", "hung"} BY <3>7 DEF SendForAnother, Throw, Abort, Crash, Fail
      <4> QED BY <2>3, <4>1 DEF Between
    <3> QED BY <1>6, <3>1, <3>2, <3>3, <3>4, <3>5, <3>6, <3>7 DEF Next, Script
  <2> QED BY <2>2, <2>3
<1> QED BY <1>5, <1>6

\* No contract is sent tokens twice, for every plan: a transfer is prepared and
\* accepted only while nothing else is pending, so the balance its check read, or
\* the missing code, still tells the truth when it is mined.
THEOREM TransfersAreSentOnce == Spec => []FundedAtMostOnce
<1>1. Init => FundInv
  BY InitAlone, InitCodePassed, InitFundsPending, InitFreshUnfunded DEF FundInv
<1>2. Inv /\ FundInv /\ [Next]_vars => FundInv'
  BY AloneStep, OnlyCallsStep, CodePassedStep, FundsPendingStep, FreshUnfundedStep
     DEF Inv, FundInv
<1>3. FundInv => FundedAtMostOnce BY DEF FundInv, FundsPending, FundedAtMostOnce
<1> QED BY <1>1, <1>2, <1>3, Invariance, PTL DEF Spec

-----------------------------------------------------------------------------
(* Settings that refer to a contract. *)

\* Wherever setting s has its wanted value contract x has code: on the chain the
\* first command finds, and for what a plan sets, because it creates x no later.
Follows(s, x) ==
    \A n \in Networks :
        /\ s \in Start[n].stale \/ x \in Start[n].code
        /\ \A i \in DOMAIN Plan[n] : s \in Plan[n][i].sets =>
              \E d \in DOMAIN Plan[n] :
                  d <= i /\ Plan[n][d].kind \in Creating /\ Plan[n][d].on = x

\* What is pending or printed about s meets x, or creates it.
Meets(t, s, x) ==
    s \in t.step.sets => x \in chain.code \/ (t.step.kind \in Creating /\ t.step.on = x)

SetWithCode(s, x) ==
    /\ s \in chain.stale \/ x \in chain.code
    /\ \A i \in DOMAIN mempool : Meets(mempool[i], s, x)
    /\ \A i \in DOMAIN queue : Meets(queue[i], s, x)

\* Only a network with a multisig has anything printed.
SignersExist == queue # <<>> \/ printed => network \in Multisig

\* A pending transaction was pending before or is of the step the command is at.
LEMMA PendingStep ==
    ASSUME TypeOK, Counted, [Next]_vars, NEW i \in DOMAIN mempool'
    PROVE  \/ ~ Restart /\ \E k \in DOMAIN mempool : mempool'[i] = mempool[k]
           \/ Restart /\ mempool' = mempool /\ chain' = chain
           \/ Running /\ ~ Restart /\ mempool'[i].step = step
<1> USE DEF bounds
<1>0. mempool \in Seq(Transactions) BY DEF TypeOK
<1>1. CASE UNCHANGED mempool /\ ~ Restart BY <1>1
<1>2. CASE Prepare
  <2>1. step \in Steps /\ Running BY <1>2, PlanFacts DEF Prepare, Running
  <2>2. phase = "check" /\ phase' = "send" BY <1>2 DEF Prepare
  <2>3. ~ Restart BY <2>2 DEF Restart
  <2>4. CASE ~ step.raw BY <1>2, <2>3, <2>4 DEF Prepare
  <2>5. CASE step.raw
    <3>1. PICK t : t = [step |-> step, via |-> "direct"] OBVIOUS
    <3>2. t \in Transactions /\ t.step = step BY <2>1, <3>1 DEF Transactions, Ways
    <3>3. mempool' = Append(mempool, t) BY <1>2, <2>5, <3>1 DEF Prepare
    <3> QED BY <1>0, <2>1, <2>3, <3>2, <3>3, AppendIndices
  <2> QED BY <2>4, <2>5
<1>3. CASE Send
  <2>1. phase = "send" /\ Running /\ ~ Restart BY <1>3 DEF Send, Running, Restart
  <2>2. CASE mempool' = mempool BY <2>1, <2>2
  <2>3. CASE \E t \in Transactions : t.step = step /\ mempool' = Append(mempool, t)
    BY <1>0, <2>1, <2>3, AppendIndices
  <2> QED BY <1>3, <2>2, <2>3, SendOutcome
<1>4. CASE Mine /\ ~ Restart
  BY <1>0, <1>4, TailIndices DEF Mine
<1>5. CASE Restart
  <2>1. mempool' # <<>> OBVIOUS
  <2> QED BY <1>5, <2>1 DEF Restart
<1> QED BY <1>1, <1>2, <1>3, <1>4, <1>5
        DEF Next, Script, Skip, Recount, SendForAnother, Throw, Instruct, Abort, Execute, Crash, vars

\* The same for the instructions.
LEMMA PrintedStep ==
    ASSUME TypeOK, [Next]_vars, NEW i \in DOMAIN queue'
    PROVE  \/ \E k \in DOMAIN queue : queue'[i] = queue[k]
           \/ Running /\ Instruct /\ queue'[i].step = step
<1> USE DEF bounds
<1>0. queue \in Seq(Transactions) BY DEF TypeOK
<1>1. CASE UNCHANGED queue BY <1>1
<1>2. CASE Instruct
  <2>1. step \in Steps /\ Running BY <1>2, PlanFacts DEF Instruct, Running
  <2>2. PICK via \in Ways : queue' = Append(queue, [step |-> step, via |-> via])
    BY <1>2 DEF Instruct
  <2>3. PICK t : t = [step |-> step, via |-> via] OBVIOUS
  <2>4. t \in Transactions /\ t.step = step BY <2>1, <2>3 DEF Transactions
  <2> QED BY <1>0, <1>2, <2>1, <2>2, <2>3, <2>4, AppendIndices
<1>3. CASE Execute BY <1>0, <1>3, TailIndices DEF Execute
<1> QED BY <1>1, <1>2, <1>3
        DEF Next, Script, Skip, Recount, Prepare, Throw, Send, SendForAnother, Abort, Mine, Crash, Restart, vars

\* A setting gets its value by a transaction that sets it, and one that creates a
\* contract has created it then.
LEMMA ExecutedSets ==
    ASSUME NEW t \in Transactions, NEW c \in Chains, NEW p, NEW s \in c.stale,
           s \notin Executed(t, p, c).stale
    PROVE  /\ s \in t.step.sets
           /\ t.step.kind \in Creating => t.step.on \in Executed(t, p, c).code
<1> DEFINE a == t.step
<1>0. a \in Steps BY DEF Transactions
<1>1. CASE a.kind \in Creating
  BY <1>0, <1>1 DEF Executed, Apply, Chains, Steps, Creating, Calling
<1>2. CASE a.kind \in {"set", "resend"}
  BY <1>0, <1>2 DEF Executed, Apply, Chains, Steps, Creating, Calling
<1>3. CASE a.kind \in {"admin", "fund", "recount"}
  BY <1>0, <1>3 DEF Executed, Apply, Chains, Steps, Creating, Calling
<1> QED BY <1>0, <1>1, <1>2, <1>3 DEF Steps, Calling

LEMMA SignersExistStep == TypeOK /\ SignersExist /\ [Next]_vars => SignersExist'
<1> SUFFICES ASSUME TypeOK, SignersExist, [Next]_vars PROVE SignersExist'
  OBVIOUS
<1>1. CASE Instruct BY <1>1 DEF Instruct, MayInstruct, SignersExist
<1>2. CASE Execute BY <1>2, TailIndices DEF Execute, process, SignersExist, TypeOK
<1>3. CASE Restart BY <1>3 DEF Restart, SignersExist
<1> QED BY <1>1, <1>2, <1>3
        DEF Next, Script, Skip, Recount, Prepare, Throw, Send, SendForAnother, Abort, Mine, Crash, vars,
            process, SignersExist

\* The step the command is at meets the contract.
LEMMA StepMeets ==
    ASSUME TypeOK, CodePassed, Running, NEW s, NEW x, Follows(s, x), s \in step.sets
    PROVE  x \in chain.code \/ (step.kind \in Creating /\ step.on = x)
<1>1. /\ network \in Networks /\ steps = Plan[network] /\ pc \in DOMAIN steps
      /\ step = steps[pc] /\ DOMAIN steps \subseteq Nat
  BY PlanFacts DEF TypeOK, steps, step
<1>2. PICK d \in DOMAIN steps : d <= pc /\ steps[d].kind \in Creating /\ steps[d].on = x
  BY <1>1 DEF Follows
<1>3. CASE d = pc BY <1>1, <1>2, <1>3
<1>4. CASE d # pc
  <2>1. d < pc BY <1>1, <1>2, <1>4
  <2> QED BY <1>2, <2>1 DEF CodePassed, Running
<1> QED BY <1>3, <1>4

LEMMA SetWithCodeStep ==
    ASSUME TypeOK, Counted, Planned, CodePassed, SignersExist, [Next]_vars,
           NEW s \in Settings, NEW x \in Contracts, Follows(s, x), SetWithCode(s, x)
    PROVE  SetWithCode(s, x)'
<1> USE DEF bounds
<1>0. network \in Networks /\ chain \in Chains BY DEF TypeOK
<1>1. \/ chain.code \subseteq chain'.code /\ (Restart => chain' = chain)
      \/ Restart /\ network \in Ephemeral /\ chain' = Start[network] /\ mempool' = <<>>
  <2>1. CASE Restart BY <2>1 DEF Restart
  <2> QED BY <2>1, ChainStep DEF Evolves
<1>2. CASE network \in Ephemeral /\ Restart /\ chain' = Start[network] /\ mempool' = <<>>
  <2>1. queue' = <<>>
    <3>1. network \notin Multisig BY <1>2, LocalNetworks
    <3> QED BY <1>2, <3>1 DEF SignersExist, Restart
  <2> QED BY <1>0, <1>2, <2>1 DEF SetWithCode, Follows
<1>3. CASE chain.code \subseteq chain'.code /\ (Restart => chain' = chain)
  <2>1. ASSUME NEW i \in DOMAIN mempool', s \in mempool'[i].step.sets
        PROVE  x \in chain'.code \/ (mempool'[i].step.kind \in Creating
                                     /\ mempool'[i].step.on = x)
    <3>1. CASE \E k \in DOMAIN mempool : mempool'[i] = mempool[k]
      BY <1>3, <2>1, <3>1 DEF SetWithCode, Meets
    <3>2. CASE Running /\ mempool'[i].step = step
      BY <1>3, <2>1, <3>2, StepMeets
    <3> QED BY <3>1, <3>2, PendingStep
  <2>2. ASSUME NEW i \in DOMAIN queue', s \in queue'[i].step.sets
        PROVE  x \in chain'.code \/ (queue'[i].step.kind \in Creating
                                     /\ queue'[i].step.on = x)
    <3>1. CASE \E k \in DOMAIN queue : queue'[i] = queue[k]
      BY <1>3, <2>2, <3>1 DEF SetWithCode, Meets
    <3>2. CASE Running /\ queue'[i].step = step
      BY <1>3, <2>2, <3>2, StepMeets
    <3> QED BY <3>1, <3>2, PrintedStep
  <2>3. s \in chain'.stale \/ x \in chain'.code
    <3>1. CASE x \in chain.code BY <1>3, <3>1
    <3>2. CASE s \in chain.stale /\ chain' = chain BY <3>2
    <3>3. CASE s \in chain.stale /\ s \notin chain'.stale /\ Mine
      <4>1. /\ 1 \in DOMAIN mempool /\ Head(mempool) = mempool[1] /\ mempool[1] \in Transactions
            /\ chain' = Executed(mempool[1], "deployer", chain)
        BY <3>3, TailIndices DEF Mine, TypeOK
      <4>2. /\ s \in mempool[1].step.sets
            /\ mempool[1].step.kind \in Creating => mempool[1].step.on \in chain'.code
        BY <1>0, <3>3, <4>1, ExecutedSets
      <4> QED BY <1>3, <4>1, <4>2 DEF SetWithCode, Meets
    <3>4. CASE s \in chain.stale /\ s \notin chain'.stale /\ Execute
      <4>1. /\ 1 \in DOMAIN queue /\ Head(queue) = queue[1] /\ queue[1] \in Transactions
            /\ chain' = Executed(queue[1], "multisig", chain)
        BY <3>4, TailIndices DEF Execute, TypeOK
      <4>2. /\ s \in queue[1].step.sets
            /\ queue[1].step.kind \in Creating => queue[1].step.on \in chain'.code
        BY <1>0, <3>4, <4>1, ExecutedSets
      <4> QED BY <1>3, <4>1, <4>2 DEF SetWithCode, Meets
    <3> QED BY <1>3, <3>1, <3>2, <3>3, <3>4
            DEF SetWithCode, Next, Script, Skip, Recount, Prepare, Throw, Send, SendForAnother, Instruct,
                Abort, Crash, vars
  <2> QED BY <2>1, <2>2, <2>3 DEF SetWithCode, Meets
<1> QED BY <1>0, <1>1, <1>2, <1>3

\* A value that refers to a contract is never on chain without the contract, as
\* when a template is registered under an address that is derived: crashes,
\* printed instructions and pending transactions included, as long as every plan
\* creates the contract before it registers it.
THEOREM SettingsFollowCode ==
    ASSUME NEW s \in Settings, NEW x \in Contracts, Follows(s, x)
    PROVE  Spec => [](s \notin chain.stale => x \in chain.code)
<1> DEFINE I == Alone /\ CodePassed /\ SignersExist /\ SetWithCode(s, x)
<1>1. Init => I
  <2> SUFFICES ASSUME Init PROVE I
    OBVIOUS
  <2>1. SignersExist BY DEF Init, SignersExist
  <2>2. SetWithCode(s, x) BY DEF Init, SetWithCode, Follows
  <2> QED BY <2>1, <2>2, InitAlone, InitCodePassed
<1>2. Inv /\ I /\ [Next]_vars => I'
  BY AloneStep, CodePassedStep, SignersExistStep, SetWithCodeStep DEF Inv
<1>3. I => (s \notin chain.stale => x \in chain.code)
  BY DEF SetWithCode
<1> HIDE DEF I
<1> QED BY <1>1, <1>2, <1>3, Invariance, PTL DEF Spec

\* The settings of RegisteredHasCode follow their contracts in every plan.
Registration(c) == <<"HolographRegistryProxy", c>>

RegistersAfterDeploying ==
    \A c \in Deployables \ {"hToken"} :
        Registration(c) \in AllSettings => Follows(Registration(c), c)

\* Whatever the plans and the networks are, no contract type but hToken points at
\* an address without code, as long as every plan deploys a template before the
\* script that registers it: also when a run breaks off between the two, is
\* repeated with transactions pending, or only prints the registration.
THEOREM TypesStayRegisteredWithCode ==
    ASSUME AllSettings \subseteq Settings, Deployables \subseteq Contracts,
           RegistersAfterDeploying
    PROVE  Spec => []RegisteredHasCode
<1> DEFINE Registered == {c \in Deployables \ {"hToken"} : Registration(c) \in AllSettings}
           J == \A c \in Registered : SetWithCode(Registration(c), c)
           I == Alone /\ CodePassed /\ SignersExist /\ J
<1>1. \A c \in Registered : /\ Registration(c) \in Settings /\ c \in Contracts
                            /\ Follows(Registration(c), c)
  BY DEF RegistersAfterDeploying
<1> HIDE DEF Registered
<1>2. Init => I
  <2> SUFFICES ASSUME Init PROVE I
    OBVIOUS
  <2>1. SignersExist BY DEF Init, SignersExist
  <2>2. J BY <1>1 DEF Init, SetWithCode, Follows
  <2> QED BY <2>1, <2>2, InitAlone, InitCodePassed
<1>3. Inv /\ I /\ [Next]_vars => I'
  <2> SUFFICES ASSUME Inv, I, [Next]_vars PROVE I'
    OBVIOUS
  <2>1. TypeOK /\ Counted /\ Planned BY DEF Inv
  <2>2. J'
    <3> SUFFICES ASSUME NEW c \in Registered PROVE SetWithCode(Registration(c), c)'
      OBVIOUS
    <3>1. SetWithCode(Registration(c), c) OBVIOUS
    <3> QED BY <1>1, <2>1, <3>1, SetWithCodeStep
  <2> QED BY <2>2, AloneStep, CodePassedStep, SignersExistStep DEF Inv
<1>4. I => RegisteredHasCode
  <2> SUFFICES ASSUME I, NEW c \in Deployables \ {"hToken"},
                      Registration(c) \in AllSettings \ chain.stale
               PROVE  c \in chain.code
    BY DEF RegisteredHasCode, Registration
  <2>1. c \in Registered BY DEF Registered
  <2> QED BY <2>1 DEF SetWithCode
<1> HIDE DEF I
<1> QED BY <1>2, <1>3, <1>4, Invariance, PTL DEF Spec

-----------------------------------------------------------------------------
(* Who can act for a contract. *)

\* The multisig becomes the admin of other contracts after it is Holograph's.
Owned ==
    /\ \A c \in chain.code : chain.admin[c] # "nobody"
    /\ chain.admin["Holograph"] # "Holograph"
    /\ \A c \in Contracts : chain.admin[c] = "multisig" =>
          network \in Multisig /\ chain.admin["Holograph"] = "multisig"

\* The deployer can act for contract c, itself or through Holograph.
Deployers(c) ==
    \/ chain.admin[c] = "deployer"
    \/ chain.admin[c] = "Holograph" /\ chain.admin["Holograph"] = "deployer"

\* A setting behind the command is in place, or was printed because its contract
\* is no longer the deployer's.
InPlace(s) == s.sets \cap chain.stale = {} \/ ~ Deployers(s.on)

SetBehind ==
    phase \in {"check", "send", "wait"} =>
        \A d \in DOMAIN steps : d < pc /\ steps[d].kind = "set" => InPlace(steps[d])

\* A step that calls or hands over a contract finds it and Holograph deployed.
LEMMA CalledExist ==
    ASSUME TypeOK, CodePassed, phase \in {"check", "send", "wait"},
           NEW i \in DOMAIN steps, i <= pc, steps[i].kind \in Calling
    PROVE  steps[i].on \in chain.code /\ "Holograph" \in chain.code
<1>1. /\ network \in Networks /\ steps = Plan[network] /\ DOMAIN steps = 1 .. Len(steps)
      /\ Len(steps) \in Nat /\ pc \in Int
  BY PlanFacts DEF TypeOK, steps
<1>2. ASSUME NEW c \in {steps[i].on, "Holograph"} PROVE c \in chain.code
  <2>1. PICK d \in 1 .. i - 1 : steps[d].kind \in Creating /\ steps[d].on = c
    BY <1>1, PlanOrder
  <2>2. d \in DOMAIN steps /\ d < pc BY <1>1
  <2> QED BY <2>1, <2>2 DEF CodePassed
<1> QED BY <1>2

\* To whom a contract is handed over.
LEMMA HandedTo ==
    ASSUME TypeOK, NEW k \in DOMAIN steps, steps[k].kind = "admin"
    PROVE  steps[k].to = IF steps[k].on # "Holograph" THEN "Holograph"
                         ELSE IF network \in Multisig THEN "multisig" ELSE "deployer"
<1>1. network \in Networks /\ steps = Plan[network] BY DEF TypeOK, steps
<1> QED BY <1>1, PlanOrder

\* A new contract belongs to the deployer.
LEMMA ExecutedCreates ==
    ASSUME NEW t \in Transactions, NEW c \in Chains, NEW p, NEW x \in Contracts,
           x \notin c.code, x \in Executed(t, p, c).code
    PROVE  Executed(t, p, c).admin[x] = "deployer"
<1> DEFINE s == t.step
<1>0. s \in Steps BY DEF Transactions
<1>1. CASE s.kind \in Creating
  BY <1>0, <1>1 DEF Executed, Apply, Chains, Steps, Creating, Calling
<1>2. CASE s.kind \in {"set", "resend"}
  BY <1>0, <1>2 DEF Executed, Apply, Chains, Steps, Creating, Calling
<1>3. CASE s.kind \in {"admin", "fund", "recount"}
  BY <1>0, <1>3 DEF Executed, Apply, Chains, Steps, Creating, Calling
<1> QED BY <1>0, <1>1, <1>2, <1>3 DEF Steps, Calling

\* The chain moves by a transaction of the plan.
LEMMA MovedBy ==
    ASSUME TypeOK, Planned, [Next]_vars
    PROVE  \/ chain' = chain
           \/ Restart /\ chain' = Start[network]
           \/ \E t \in Transactions, p \in Principals :
                 /\ chain' = Executed(t, p, chain)
                 /\ \E k \in DOMAIN steps : t.step = steps[k]
                 /\ \/ Mine /\ p = "deployer" /\ t = Head(mempool)
                    \/ Execute /\ p = "multisig" /\ t = Head(queue)
<1>1. CASE Mine
  <2>1. 1 \in DOMAIN mempool /\ Head(mempool) = mempool[1] /\ Head(mempool) \in Transactions
    BY <1>1, TailIndices DEF Mine, TypeOK
  <2>2. \E k \in DOMAIN steps : Head(mempool).step = steps[k]
    BY <2>1 DEF Planned, FromPlan
  <2>3. chain' = Executed(Head(mempool), "deployer", chain) BY <1>1 DEF Mine
  <2>4. PICK t \in Transactions, p \in Principals : t = Head(mempool) /\ p = "deployer"
    BY <2>1 DEF Principals
  <2> QED BY <1>1, <2>2, <2>3, <2>4
<1>2. CASE Execute
  <2>1. 1 \in DOMAIN queue /\ Head(queue) = queue[1] /\ Head(queue) \in Transactions
    BY <1>2, TailIndices DEF Execute, TypeOK
  <2>2. \E k \in DOMAIN steps : Head(queue).step = steps[k]
    BY <2>1 DEF Planned, FromPlan
  <2>3. chain' = Executed(Head(queue), "multisig", chain) BY <1>2 DEF Execute
  <2>4. PICK t \in Transactions, p \in Principals : t = Head(queue) /\ p = "multisig"
    BY <2>1 DEF Principals
  <2> QED BY <1>2, <2>2, <2>3, <2>4
<1>3. CASE Restart BY <1>3 DEF Restart
<1>4. CASE Script \/ Crash \/ UNCHANGED vars
  BY <1>4 DEF Script, Skip, Recount, Prepare, Throw, Send, SendForAnother, Instruct, Abort, Crash, vars
<1> QED BY <1>1, <1>2, <1>3, <1>4 DEF Next

\* How the admin of a contract changes.
LEMMA AdminMoves ==
    ASSUME TypeOK, NEW t \in Transactions, NEW p \in Principals,
           chain' = Executed(t, p, chain), NEW k \in DOMAIN steps, t.step = steps[k],
           NEW x \in Contracts, chain'.admin[x] # chain.admin[x]
    PROVE  \/ x \notin chain.code /\ chain'.admin[x] = "deployer"
           \/ /\ chain.admin[x] # "nobody" /\ t.step.kind = "admin" /\ t.step.on = x
              /\ chain'.admin[x] = IF x # "Holograph" THEN "Holograph"
                                   ELSE IF network \in Multisig THEN "multisig"
                                   ELSE "deployer"
<1>1. chain \in Chains BY DEF TypeOK
<1> QED BY <1>1, ExecutedAdmin, ExecutedCreates, HandedTo

LEMMA OwnedStep ==
    ASSUME TypeOK, Planned, Unowned, Owned, [Next]_vars
    PROVE  Owned'
<1>0. network' = network /\ network \in Networks /\ "Holograph" \in Contracts
  BY StepsStay, NamesType DEF TypeOK
<1>1. CASE chain' = chain BY <1>0, <1>1 DEF Owned
<1>2. CASE Restart /\ chain' = Start[network] BY <1>0, <1>2, StartOrder DEF Owned
<1>3. CASE \E t \in Transactions, p \in Principals :
             /\ chain' = Executed(t, p, chain)
             /\ \E k \in DOMAIN steps : t.step = steps[k]
  <2>1. PICK t \in Transactions, p \in Principals, k \in DOMAIN steps :
          chain' = Executed(t, p, chain) /\ t.step = steps[k]
    BY <1>3
  <2>2. chain \in Chains /\ chain' \in Chains BY <2>1, ExecutedType DEF TypeOK
  <2> DEFINE Moved(x) == chain'.admin[x] # chain.admin[x]
             To(x) == IF x # "Holograph" THEN "Holograph"
                      ELSE IF network \in Multisig THEN "multisig" ELSE "deployer"
  <2>3. \A x \in Contracts : Moved(x) =>
          \/ x \notin chain.code /\ chain'.admin[x] = "deployer"
          \/ chain.admin[x] # "nobody" /\ chain'.admin[x] = To(x)
    BY <2>1, AdminMoves
  <2>4. \A x \in chain'.code : x \notin chain.code => chain'.admin[x] = "deployer"
    BY <2>1, <2>2, ExecutedCreates DEF Chains
  <2>5. \A x \in chain'.code : chain'.admin[x] # "nobody"
    BY <2>2, <2>3, <2>4 DEF Owned, Chains
  <2>6. chain'.admin["Holograph"] # "Holograph"
    BY <1>0, <2>3 DEF Owned
  <2>7. chain.admin["Holograph"] = "multisig" => chain'.admin["Holograph"] = "multisig"
    <3>1. ASSUME chain.admin["Holograph"] = "multisig"
          PROVE  "Holograph" \in chain.code /\ network \in Multisig
      BY <1>0, <3>1 DEF Unowned, Owned
    <3> QED BY <1>0, <2>3, <3>1
  <2>8. ASSUME NEW c \in Contracts, chain'.admin[c] = "multisig"
        PROVE  network \in Multisig /\ chain'.admin["Holograph"] = "multisig"
    <3>1. CASE ~ Moved(c) BY <2>7, <2>8, <3>1 DEF Owned
    <3>2. CASE Moved(c)
      <4>1. c = "Holograph" /\ network \in Multisig BY <2>3, <2>8, <3>2
      <4> QED BY <2>8, <4>1
    <3> QED BY <3>1, <3>2
  <2> QED BY <1>0, <2>5, <2>6, <2>8 DEF Owned
<1> QED BY <1>1, <1>2, <1>3, MovedBy

\* What is no longer the deployer's does not come back to it.
LEMMA DeployersGone ==
    ASSUME TypeOK, Planned, Owned, [Next]_vars, ~ Restart, NEW c \in chain.code,
           "Holograph" \in chain.code, ~ Deployers(c)
    PROVE  ~ Deployers(c)'
<1>1. c \in Contracts /\ "Holograph" \in Contracts /\ chain \in Chains
  BY NamesType DEF TypeOK, Chains
<1>2. chain.admin[c] \in {"Holograph", "multisig"}
  BY <1>1 DEF Owned, Deployers, Chains, Principals
<1>3. chain.admin["Holograph"] = "multisig" /\ network \in Multisig
  <2>1. CASE chain.admin[c] = "multisig" BY <1>1, <2>1 DEF Owned
  <2>2. CASE chain.admin[c] = "Holograph"
    <3>1. chain.admin["Holograph"] \notin {"nobody", "Holograph", "deployer"}
      BY <2>2 DEF Owned, Deployers
    <3>2. chain.admin["Holograph"] = "multisig" BY <1>1, <3>1 DEF Chains, Principals
    <3> QED BY <1>1, <3>2 DEF Owned
  <2> QED BY <1>2, <2>1, <2>2
<1>4. CASE chain' = chain BY <1>4 DEF Deployers
<1>5. CASE \E t \in Transactions, p \in Principals :
             /\ chain' = Executed(t, p, chain)
             /\ \E k \in DOMAIN steps : t.step = steps[k]
  <2>1. PICK t \in Transactions, p \in Principals, k \in DOMAIN steps :
          chain' = Executed(t, p, chain) /\ t.step = steps[k]
    BY <1>5
  <2>2. \A x \in {c, "Holograph"} :
          \/ chain'.admin[x] = chain.admin[x]
          \/ chain'.admin[x] = IF x # "Holograph" THEN "Holograph"
                               ELSE IF network \in Multisig THEN "multisig" ELSE "deployer"
    BY <1>1, <2>1, AdminMoves
  <2>3. chain'.admin["Holograph"] = "multisig" BY <1>3, <2>2
  <2>4. chain'.admin[c] # "deployer" BY <1>2, <1>3, <2>2
  <2> QED BY <2>3, <2>4 DEF Deployers
<1> QED BY <1>4, <1>5, MovedBy

-----------------------------------------------------------------------------
(* Settings behind the command. *)

\* What is in place stays so, and what is the multisig's too.
LEMMA InPlaceStays ==
    ASSUME TypeOK, Planned, CodePassed, Owned, [Next]_vars, ~ Restart,
           phase \in {"check", "send", "wait"},
           NEW d \in DOMAIN steps, d <= pc, NEW s \in Steps, s = steps[d],
           s.kind = "set", InPlace(s)
    PROVE  InPlace(s)'
<1>1. chain'.stale \subseteq chain.stale
  BY ChainStep DEF Evolves
<1>2. CASE s.sets \cap chain.stale = {} BY <1>1, <1>2 DEF InPlace
<1>3. CASE ~ Deployers(s.on)
  <2>1. s.on \in chain.code /\ "Holograph" \in chain.code
    BY CalledExist DEF Calling
  <2>2. ~ Deployers(s.on)' BY <1>3, <2>1, DeployersGone
  <2> QED BY <2>2 DEF InPlace
<1> QED BY <1>2, <1>3 DEF InPlace

\* The command stays, or passes a step that is in place.
LEMMA SetBehindKept ==
    ASSUME TypeOK, Planned, CodePassed, Owned, SetBehind, [Next]_vars, ~ Restart,
           phase \in {"check", "send", "wait"},
           \/ pc' = pc
           \/ /\ pc' = pc + 1
              /\ \A s \in Steps : s = step /\ s.kind = "set" => InPlace(s)'
    PROVE  SetBehind'
<1>1. steps' = steps /\ DOMAIN steps \subseteq Nat /\ pc \in Nat
  BY StepsStay, PlanFacts DEF TypeOK
<1>2. SUFFICES ASSUME NEW d \in DOMAIN steps, d < pc', NEW s \in Steps, s = steps[d],
                      s.kind = "set"
               PROVE  InPlace(s)'
  <2> SUFFICES ASSUME \A d \in DOMAIN steps : d < pc' =>
                         \A s \in Steps : s = steps[d] /\ s.kind = "set" => InPlace(s)'
               PROVE  SetBehind'
    OBVIOUS
  <2>1. \A d \in DOMAIN steps : steps[d] \in Steps BY PlanFacts
  <2> QED BY <1>1, <2>1 DEF SetBehind, InPlace, Deployers
<1>3. CASE d < pc
  <2>1. InPlace(s) BY <1>2, <1>3 DEF SetBehind
  <2>2. d <= pc BY <1>1, <1>3
  <2> QED BY <1>2, <2>1, <2>2, InPlaceStays
<1>4. CASE ~ (d < pc)
  <2>1. d = pc /\ pc' = pc + 1 BY <1>1, <1>2, <1>4
  <2> QED BY <1>2, <2>1 DEF step
<1> QED BY <1>3, <1>4

LEMMA SetBehindStep ==
    ASSUME TypeOK, Counted, Planned, FreshBranch, Alone, CodePassed, Owned, SetBehind,
           [Next]_vars
    PROVE  SetBehind'
<1> USE DEF bounds
<1>1. CASE Restart
  <2>1. pc' = 1 /\ steps' = steps /\ \A d \in DOMAIN steps : ~ (d < 1)
    BY <1>1, StepsStay, PlanFacts DEF Restart
  <2> QED BY <2>1 DEF SetBehind
<1>2. CASE phase' \notin {"check", "send", "wait"} BY <1>2 DEF SetBehind
<1>3. CASE ~ Restart /\ phase' \in {"check", "send", "wait"}
  <2>1. CASE Skip
    <3>1. phase = "check" /\ pc' = pc + 1 /\ chain' = chain
      BY <2>1 DEF Skip, Advance
    <3>2. Achieved(step) BY <2>1, SkippedIsAchieved DEF Skip
    <3>3. \A s \in Steps : s = step /\ s.kind = "set" => InPlace(s)'
      BY <3>1, <3>2 DEF Achieved, InPlace
    <3> QED BY <1>3, <3>1, <3>3, SetBehindKept
  <2>2. CASE Recount
    <3>1. phase = "check" /\ pc' = pc + 1 /\ step.kind = "recount"
      BY <2>2 DEF Recount, Advance
    <3>2. \A s \in Steps : s = step /\ s.kind = "set" => InPlace(s)' BY <3>1
    <3> QED BY <1>3, <3>1, <3>2, SetBehindKept
  <2>3. CASE Instruct
    <3>1. phase = "send" /\ pc' = pc + 1 /\ chain' = chain
      BY <2>3 DEF Instruct, Advance
    <3>2. ~ Deployers(step.on)
      BY <2>3 DEF Instruct, MayInstruct, Authorised, Deployers
    <3>3. \A s \in Steps : s = step => ~ Deployers(s.on)'
      BY <3>1, <3>2 DEF Deployers
    <3>4. \A s \in Steps : s = step /\ s.kind = "set" => InPlace(s)'
      BY <3>3 DEF InPlace
    <3> QED BY <1>3, <3>1, <3>4, SetBehindKept
  <2>4. CASE Prepare \/ Send \/ Execute \/ UNCHANGED vars
    <3>1. pc' = pc
      BY <2>4, SendOutcome DEF Prepare, Execute, process, vars
    <3>2. phase \in {"check", "send", "wait"}
      BY <1>3, <2>4 DEF Prepare, Send, Execute, process, vars
    <3> QED BY <1>3, <3>1, <3>2, SetBehindKept
  <2>5. CASE Mine
    <3>1. CASE phase = "wait"
      <4>1. Len(mempool) = 1 /\ phase' # "failed" BY <1>3, <3>1 DEF Alone
      <4>2. step \in Steps /\ chain' = Apply(step, chain) /\ Advance
        BY <2>5, <3>1, <4>1, WaitOver
      <4>3. \A s \in Steps : s = step /\ s.kind = "set" => InPlace(s)'
        BY <4>2, ApplyAchieves DEF InPlace, TypeOK
      <4> QED BY <1>3, <3>1, <4>2, <4>3, SetBehindKept DEF Advance
    <3>2. CASE phase # "wait"
      <4>1. pc' = pc /\ phase' = phase BY <2>5, <3>2 DEF Mine
      <4> QED BY <1>3, <4>1, SetBehindKept
    <3> QED BY <3>1, <3>2
  <2> QED BY <1>3, <2>1, <2>2, <2>3, <2>4, <2>5
          DEF Next, Script, SendForAnother, Throw, Abort, Crash, Fail
<1> QED BY <1>1, <1>2, <1>3

\* In a call that a setting needs, what it needs is set, if the deployer may call.
LEMMA NeedsAreSet ==
    ASSUME TypeOK, CodePassed, SetBehind, phase = "send", step.kind = "set",
           NEW via \in Ways, MaySend(step, via, chain)
    PROVE  step.needs \cap chain.stale = {}
<1>1. /\ network \in Networks /\ steps = Plan[network] /\ DOMAIN steps = 1 .. Len(steps)
      /\ Len(steps) \in Nat /\ pc \in DOMAIN steps /\ step = steps[pc] /\ step \in Steps
  BY PlanFacts DEF TypeOK, steps, step, Running
<1>2. Deployers(step.on)
  BY DEF MaySend, Calling, Authorised, Deployers
<1>3. SUFFICES ASSUME NEW x \in step.needs PROVE x \notin chain.stale
  OBVIOUS
<1>4. PICK d \in 1 .. pc - 1 :
        steps[d].kind = "set" /\ steps[d].on = step.on /\ x \in steps[d].sets
  BY <1>1, PlanOrder
<1>5. d \in DOMAIN steps /\ d < pc BY <1>1, <1>4
<1>6. InPlace(steps[d]) BY <1>4, <1>5 DEF SetBehind
<1> QED BY <1>2, <1>4, <1>6 DEF InPlace

-----------------------------------------------------------------------------
(* A command that meets no transaction but its own. *)

\* It sends one transaction at a time with the next free nonce, a deployment only
\* of what is missing (or of what the multisig has still to refer to), and the one
\* it waits for succeeds.
Undisturbed ==
    ~ foreign =>
        /\ phase \in {"check", "send"} => mempool = <<>>
        /\ phase = "check" => lead \in {Unread, 0} /\ (pc = 1 => lead = Unread)
        /\ phase \in {"send", "wait"} =>
              lead = IF step.kind = "genesis" THEN Unread ELSE 1
        /\ phase = "send" /\ step.kind \in Creating /\ step.on \in chain.code =>
              step.kind = "factory" /\ step.again # {} /\ network \in Multisig
        /\ phase = "wait" => ~ Reverts(mempool[1], "deployer", chain)

\* An accepted transaction does not revert on the chain it was estimated on.
LEMMA SendAccepted ==
    ASSUME TypeOK, Counted, Send, phase' = "wait"
    PROVE  \E t \in Transactions :
              /\ t.step = step /\ mempool' = Append(mempool, t)
              /\ ~ Reverts(t, "deployer", chain)
<1>1. step \in Steps BY PlanFacts DEF Send, Running
<1>2. Nonce \in Int /\ Nonce <= Len(mempool) /\ Len(mempool) \in Nat
  BY DEF Send, Nonce, Counted, TypeOK
<1>3. PICK via \in Ways :
        LET t == [step |-> step, via |-> via] IN
        IF Reverts(t, "deployer", chain) \/ Nonce < Len(mempool)
        THEN Fail /\ UNCHANGED mempool
        ELSE /\ mempool' = IF Nonce = Len(mempool) THEN Append(mempool, t) ELSE mempool
             /\ phase' = IF Nonce = Len(mempool) THEN "wait" ELSE "hung"
             /\ UNCHANGED pc
  BY DEF Send
<1>4. PICK t : t = [step |-> step, via |-> via] OBVIOUS
<1>5. t \in Transactions /\ t.step = step BY <1>1, <1>4 DEF Transactions
<1> QED BY <1>2, <1>3, <1>4, <1>5 DEF Fail

\* An instruction the signers execute does not make it revert: it is not authorised
\* where the deployer is.
LEMMA EstimateHolds ==
    ASSUME NEW c \in Chains, NEW t \in Transactions, NEW q \in Transactions,
           q.step.kind \in Calling, ~ Reverts(t, "deployer", c)
    PROVE  ~ Reverts(t, "deployer", Executed(q, "multisig", c))
<1> DEFINE e == Executed(q, "multisig", c)
<1>0. t.step \in Steps /\ q.step \in Steps /\ "Holograph" \in Contracts
  BY NamesType DEF Transactions
<1>1. e.code = c.code
  BY <1>0 DEF Executed, Apply, Chains, Steps, Creating, Calling
<1>2. e.stale \subseteq c.stale BY ExecutedGrows
<1>3. \A x \in Contracts : e.admin[x] # c.admin[x] =>
        c.admin[x] = "multisig" \/ (c.admin[x] = "Holograph" /\ c.admin["Holograph"] = "multisig")
  <2> SUFFICES ASSUME NEW x \in Contracts, e.admin[x] # c.admin[x]
               PROVE  \/ c.admin[x] = "multisig"
                      \/ c.admin[x] = "Holograph" /\ c.admin["Holograph"] = "multisig"
    OBVIOUS
  <2>1. q.step.on = x BY ExecutedAdmin DEF Principals
  <2>2. ~ Reverts(q, "multisig", c) BY DEF Executed
  <2> QED BY <2>1, <2>2 DEF Reverts, Authorised
<1>4. t.step.kind \in Calling => Authorised(t.step, t.via, "deployer", e)
  <2> SUFFICES ASSUME t.step.kind \in Calling PROVE Authorised(t.step, t.via, "deployer", e)
    OBVIOUS
  <2>1. Authorised(t.step, t.via, "deployer", c) BY DEF Reverts
  <2>2. t.step.on \in Contracts BY <1>0 DEF Steps
  <2>3. CASE t.via = "direct"
    <3>1. c.admin[t.step.on] = "deployer" BY <2>1, <2>3 DEF Authorised
    <3>2. e.admin[t.step.on] = "deployer" BY <1>3, <2>2, <3>1
    <3> QED BY <2>3, <3>2 DEF Authorised
  <2>4. CASE t.via # "direct"
    <3>1. c.admin[t.step.on] = "Holograph" /\ c.admin["Holograph"] = "deployer"
      BY <2>1, <2>4 DEF Authorised
    <3>2. e.admin[t.step.on] = "Holograph" /\ e.admin["Holograph"] = "deployer"
      BY <1>0, <1>3, <2>2, <3>1
    <3> QED BY <2>4, <3>2 DEF Authorised
  <2> QED BY <2>3, <2>4
<1> HIDE DEF e
<1>5. ~ Reverts(t, "deployer", e) BY <1>1, <1>2, <1>4 DEF Reverts
<1> QED BY <1>5 DEF e

\* What the check of a deployment found.
LEMMA DeployedIsMissing ==
    ASSUME TypeOK, Passed, SignersExist, phase = "check", step.kind \in Creating,
           Wanted(step, chain), step.on \in chain.code
    PROVE  step.kind = "factory" /\ step.again # {} /\ network \in Multisig
<1>1. /\ network \in Networks /\ steps = Plan[network] /\ DOMAIN steps = 1 .. Len(steps)
      /\ Len(steps) \in Nat /\ pc \in DOMAIN steps /\ step = steps[pc]
  BY PlanFacts DEF TypeOK, steps, step, Running
<1>2. step.kind = "factory" /\ step.again \cap chain.stale # {}
  BY DEF Wanted, Creating
<1>3. ASSUME network \notin Multisig PROVE FALSE
  <2>1. PICK x \in step.again : x \in chain.stale BY <1>2
  <2>2. PICK d \in 1 .. pc - 1 : steps[d].kind = "set" /\ x \in steps[d].sets
    BY <1>1, <1>2, <1>3, <2>1, PlanOrder
  <2>3. d \in DOMAIN steps /\ d < pc BY <1>1, <2>2
  <2>4. ~ printed BY <1>3 DEF SignersExist, TypeOK
  <2>5. Achieved(steps[d]) BY <2>3, <2>4 DEF Passed
  <2> QED BY <2>1, <2>2, <2>5 DEF Achieved
<1> QED BY <1>2, <1>3

LEMMA UndisturbedStep ==
    ASSUME TypeOK, Counted, Planned, Passed, Alone, OnlyCallsPrinted, SignersExist,
           Undisturbed, [Next]_vars
    PROVE  Undisturbed'
<1> USE DEF bounds
<1>0. /\ steps' = steps /\ network' = network /\ pc \in Nat /\ pc >= 1
      /\ chain \in Chains /\ mempool \in Seq(Transactions) /\ Unread # 0 /\ Unread # 1
      /\ foreign \in BOOLEAN
  BY StepsStay, PlanFacts, UnreadType DEF TypeOK
<1>1. CASE Skip
  <2>1. /\ phase = "check" /\ phase' \in {"check", "done"} /\ pc' = pc + 1
        /\ UNCHANGED <<foreign, lead, mempool>>
    BY <1>1 DEF Skip, Advance
  <2> QED BY <1>0, <2>1 DEF Undisturbed
<1>2. CASE Recount
  <2>1. /\ phase = "check" /\ phase' \in {"check", "done"} /\ pc' = pc + 1 /\ lead' = 0
        /\ UNCHANGED <<foreign, mempool>>
    BY <1>2 DEF Recount, Advance
  <2> QED BY <1>0, <2>1 DEF Undisturbed
<1>3. CASE Prepare
  <2>1. SUFFICES ASSUME ~ foreign, ~ step.raw PROVE Undisturbed'
    <3>1. foreign' = (foreign \/ step.raw) BY <1>3 DEF Prepare
    <3>2. step.raw \in BOOLEAN BY <1>3, PrepareMempool DEF Steps
    <3> QED BY <1>0, <3>1, <3>2 DEF Undisturbed
  <2>2. /\ phase = "check" /\ phase' = "send" /\ step' = step /\ mempool' = mempool
        /\ chain' = chain /\ Wanted(step, chain)
        /\ lead' = IF step.kind = "genesis" THEN lead
                   ELSE (IF lead = Unread THEN 0 ELSE lead) + 1
    BY <1>3, <2>1, PrepareMempool DEF Prepare
  <2>3. mempool = <<>> /\ lead \in {Unread, 0} /\ (pc = 1 => lead = Unread)
    BY <2>1, <2>2 DEF Undisturbed
  <2>4. step.kind = "genesis" => pc = 1
    BY <1>3, PrepareMempool, PlanOrder DEF TypeOK, steps
  <2>5. lead' = IF step.kind = "genesis" THEN Unread ELSE 1
    BY <1>0, <2>2, <2>3, <2>4
  <2>6. step.kind \in Creating /\ step.on \in chain.code =>
          step.kind = "factory" /\ step.again # {} /\ network \in Multisig
    BY <2>2, DeployedIsMissing
  <2> QED BY <1>0, <2>2, <2>3, <2>5, <2>6 DEF Undisturbed
<1>4. CASE SendForAnother \/ Throw \/ Abort \/ Crash
  BY <1>4 DEF SendForAnother, Throw, Abort, Crash, Fail, Undisturbed
<1>5. CASE Send
  <2>1. CASE phase' = "failed" BY <2>1 DEF Undisturbed
  <2>2. CASE phase' = "wait" /\ ~ foreign
    <3>1. phase = "send" /\ step' = step /\ UNCHANGED <<lead, chain>>
      BY <1>5, SendOutcome DEF step, steps
    <3>2. PICK t \in Transactions :
            mempool' = Append(mempool, t) /\ ~ Reverts(t, "deployer", chain)
      BY <1>5, <2>2, SendAccepted
    <3>3. mempool'[1] = t BY <2>2, <3>1, <3>2 DEF Undisturbed
    <3> QED BY <2>2, <3>1, <3>2, <3>3 DEF Undisturbed
  <2>3. CASE foreign
    <3>1. foreign' = foreign BY <1>5 DEF Send
    <3> QED BY <2>3, <3>1 DEF Undisturbed
  <2> QED BY <1>5, <2>1, <2>2, <2>3, SendOutcome
<1>6. CASE Instruct
  <2>1. /\ phase = "send" /\ phase' \in {"check", "done"} /\ pc' = pc + 1
        /\ step.kind # "genesis" /\ lead' = lead - 1 /\ UNCHANGED <<foreign, mempool>>
    BY <1>6 DEF Instruct, Advance, MayInstruct, Calling
  <2> QED BY <1>0, <2>1 DEF Undisturbed
<1>7. CASE Mine
  <2>1. foreign' = foreign /\ mempool # <<>> /\ mempool' = Tail(mempool)
        /\ lead' = IF lead = Unread THEN Unread ELSE lead - 1
    BY <1>7 DEF Mine
  <2>2. CASE foreign BY <2>1, <2>2 DEF Undisturbed
  <2>3. CASE ~ foreign /\ phase = "wait"
    <3>1. Len(mempool) = 1 BY <2>3 DEF Alone
    <3>2. mempool' = <<>> BY <1>0, <2>1, <3>1, TailIndices
    <3>3. phase' = "failed" \/ (phase' \in {"check", "done"} /\ pc' = pc + 1)
      BY <1>7, <2>3, <3>1 DEF Mine, Fail, Advance
    <3>4. lead' \in {Unread, 0} BY <1>0, <2>1, <2>3 DEF Undisturbed
    <3> QED BY <1>0, <3>2, <3>3, <3>4 DEF Undisturbed
  <2>4. CASE ~ foreign /\ phase # "wait"
    <3>1. phase' = phase BY <1>7, <2>4 DEF Mine
    <3>2. phase \notin {"check", "send", "wait"} BY <2>1, <2>4 DEF Undisturbed
    <3> QED BY <3>1, <3>2 DEF Undisturbed
  <2> QED BY <2>2, <2>3, <2>4
<1>8. CASE Execute
  <2>1. UNCHANGED <<phase, pc, lead, foreign, mempool, step>>
    BY <1>8 DEF Execute, process, step, steps
  <2>2. PICK q \in Transactions :
          q.step.kind \in Calling /\ chain' = Executed(q, "multisig", chain)
    <3>1. 1 \in DOMAIN queue /\ Head(queue) = queue[1] /\ Head(queue) \in Transactions
      BY <1>8, TailIndices DEF Execute, TypeOK
    <3>2. chain' = Executed(Head(queue), "multisig", chain) BY <1>8 DEF Execute
    <3> QED BY <3>1, <3>2 DEF OnlyCallsPrinted
  <2>3. chain'.code = chain.code
    <3>1. q.step \in Steps BY DEF Transactions
    <3> QED BY <1>0, <2>2, <3>1 DEF Executed, Apply, Chains, Steps, Creating, Calling
  <2>4. ASSUME phase = "wait", ~ Reverts(mempool[1], "deployer", chain)
        PROVE  ~ Reverts(mempool[1], "deployer", chain')
    <3>1. Len(mempool) = 1 BY <2>4 DEF Alone
    <3>2. mempool[1] \in Transactions BY <1>0, <3>1
    <3> QED BY <1>0, <2>2, <2>4, <3>2, EstimateHolds
  <2> QED BY <1>0, <2>1, <2>3, <2>4 DEF Undisturbed, Reverts
<1>9. CASE Restart
  BY <1>9 DEF Restart, Undisturbed
<1>10. CASE UNCHANGED vars
  <2>1. UNCHANGED <<phase, pc, lead, foreign, mempool, step, chain, network>>
    BY <1>10 DEF vars, process, step, steps
  <2> QED BY <2>1 DEF Undisturbed, Reverts
<1> QED BY <1>1, <1>2, <1>3, <1>4, <1>5, <1>6, <1>7, <1>8, <1>9, <1>10 DEF Next, Script

-----------------------------------------------------------------------------
(* Giving up. *)

ActInv ==
    /\ Alone /\ OnlyCallsPrinted /\ CodePassed
    /\ SignersExist /\ Owned /\ SetBehind /\ Undisturbed

\* Somebody can act for a contract that is deployed.
LEMMA SomebodyActs ==
    ASSUME TypeOK, CodePassed, Owned, phase = "send", step.on \notin Adminless
    PROVE  \E via \in Ways : MaySend(step, via, chain) \/ MayInstruct(step, via, chain)
<1>1. step \in Steps /\ step = steps[pc] /\ pc \in DOMAIN steps /\ pc <= pc
  BY PlanFacts DEF Running, step
<1>2. CASE step.kind \notin Calling BY <1>2 DEF MaySend, Ways
<1>3. CASE step.kind \in Calling
  <2>1. step.on \in chain.code /\ "Holograph" \in chain.code
    BY <1>1, <1>3, CalledExist
  <2>2. step.on \in Contracts /\ "Holograph" \in Contracts /\ chain \in Chains
    BY <1>1, NamesType DEF Steps, TypeOK
  <2>3. chain.admin[step.on] \in Principals /\ chain.admin["Holograph"] \in Principals
    BY <2>1, <2>2 DEF Owned, Chains
  <2>4. CASE chain.admin[step.on] = "deployer"
    BY <1>3, <2>4 DEF MaySend, Authorised, Ways
  <2>5. CASE chain.admin[step.on] = "multisig"
    BY <1>3, <2>2, <2>5 DEF Owned, MayInstruct, Authorised, Ways
  <2>6. CASE chain.admin[step.on] = "Holograph"
    <3>1. chain.admin["Holograph"] \in {"deployer", "multisig"}
      BY <2>3 DEF Owned, Principals
    <3>2. CASE chain.admin["Holograph"] = "deployer"
      BY <1>3, <2>6, <3>2 DEF MaySend, Authorised, Ways
    <3>3. CASE chain.admin["Holograph"] = "multisig"
      BY <1>3, <2>2, <2>6, <3>3 DEF Owned, MayInstruct, Authorised, Ways
    <3> QED BY <3>1, <3>2, <3>3
  <2> QED BY <2>3, <2>4, <2>5, <2>6 DEF Principals
<1> QED BY <1>2, <1>3

\* A transaction that is refused although nothing else was sent.
LEMMA RefusedOnlyFor ==
    ASSUME TypeOK, CodePassed, SetBehind, Undisturbed, ~ foreign, Send, phase' = "failed"
    PROVE  step.again # {} /\ step.on \in chain.code /\ network \in Multisig
<1>1. step \in Steps /\ phase = "send" BY PlanFacts DEF Send, Running
<1>2. PICK via \in Ways : LET t == [step |-> step, via |-> via] IN
        /\ MaySend(step, via, chain)
        /\ IF Reverts(t, "deployer", chain) \/ Nonce < Len(mempool)
           THEN Fail
           ELSE phase' = IF Nonce = Len(mempool) THEN "wait" ELSE "hung"
  BY DEF Send
<1>3. PICK t : t = [step |-> step, via |-> via] OBVIOUS
<1>4. t.step = step /\ t.via = via BY <1>3
<1>5. Nonce = 0 /\ Len(mempool) = 0
  BY <1>1 DEF Undisturbed, Nonce
<1>6. Reverts(t, "deployer", chain) BY <1>2, <1>3, <1>5
<1>7. step.kind = "set" => step.needs \cap chain.stale = {}
  BY <1>1, <1>2, NeedsAreSet
<1>8. step.kind \in Calling => Authorised(step, via, "deployer", chain)
  BY <1>2 DEF MaySend
<1>9. step.kind \in Creating /\ step.on \in chain.code
  BY <1>4, <1>6, <1>7, <1>8 DEF Reverts
<1> QED BY <1>1, <1>9 DEF Undisturbed

LEMMA GivesUpFor ==
    ASSUME TypeOK, Counted, Planned, ActInv, [Next]_vars, phase # "failed", phase' = "failed"
    PROVE  \/ foreign
           \/ step.raw
           \/ step.on \in Adminless
           \/ step.kind = "fund" /\ network \notin Wealthy
           \/ step.again # {} /\ step.on \in chain.code /\ network \in Multisig
<1> SUFFICES ASSUME ~ foreign, step.on \notin Adminless
             PROVE  \/ step.raw
                    \/ step.kind = "fund" /\ network \notin Wealthy
                    \/ step.again # {} /\ step.on \in chain.code /\ network \in Multisig
  OBVIOUS
<1>1. CASE Throw BY <1>1 DEF Throw, Throws
<1>2. CASE Send BY <1>2, RefusedOnlyFor DEF ActInv
<1>3. ~ Abort BY SomebodyActs DEF Abort, ActInv
<1>4. ~ Mine
  <2> SUFFICES ASSUME Mine PROVE FALSE
    OBVIOUS
  <2>1. phase = "wait" /\ Len(mempool) = 1 /\ Reverts(Head(mempool), "deployer", chain)
    BY DEF Mine, Advance
  <2>2. Head(mempool) = mempool[1] BY TailIndices DEF Mine, TypeOK
  <2> QED BY <2>1, <2>2 DEF ActInv, Undisturbed
<1> QED BY <1>1, <1>2, <1>3, <1>4
        DEF Next, Script, Skip, Recount, Prepare, SendForAnother, Instruct, Execute, Crash, Restart, Advance,
            vars, process

\* A command gives up for the reasons listed and no other, for every plan in the
\* order of PlanOrder: somebody can always act for a contract; a transaction that is
\* alone has the next nonce; and it is mined as it was estimated, whatever the
\* signers execute in between.
THEOREM GivesUpOnlyFor == Spec => AbortsOnlyFor
<1>1. Init => ActInv
  <2> SUFFICES ASSUME Init PROVE ActInv
    OBVIOUS
  <2>1. TypeOK /\ network \in Networks BY InitType DEF Init
  <2>2. Owned BY <2>1, StartOrder DEF Init, Owned
  <2>3. SignersExist BY DEF Init, SignersExist
  <2>4. SetBehind
    <3>1. pc = 1 /\ \A d \in DOMAIN steps : ~ (d < 1) BY <2>1, PlanFacts DEF Init
    <3> QED BY <3>1 DEF SetBehind
  <2>5. Undisturbed BY DEF Init, Undisturbed
  <2> QED BY <2>2, <2>3, <2>4, <2>5, InitAlone, InitCodePassed DEF ActInv
<1>2. Inv /\ ActInv /\ [Next]_vars => ActInv'
  BY AloneStep, OnlyCallsStep, CodePassedStep, SignersExistStep, OwnedStep, SetBehindStep,
     UndisturbedStep DEF Inv, ActInv
<1>3. Inv /\ ActInv /\ [Next]_vars =>
        [phase # "failed" /\ phase' = "failed" =>
           \/ foreign
           \/ step.raw
           \/ step.on \in Adminless
           \/ step.kind = "fund" /\ network \notin Wealthy
           \/ step.again # {} /\ step.on \in chain.code /\ network \in Multisig]_vars
  BY GivesUpFor DEF Inv
<1> QED BY <1>1, <1>2, <1>3, Invariance, PTL DEF Spec, AbortsOnlyFor

-----------------------------------------------------------------------------
\* Every plan of a multisig network that hands contracts over hands over all it
\* configures, but those the factory made and those without an admin.
HandsAllOver ==
    \A n \in Networks \cap Multisig :
        (\E i \in DOMAIN Plan[n] : Plan[n][i].kind = "admin") =>
            \A i \in DOMAIN Plan[n] :
                /\ Plan[n][i].kind \in {"set", "resend"}
                /\ Plan[n][i].on \notin Adminless
                /\ \A j \in DOMAIN Plan[n] :
                      ~ (Plan[n][j].kind = "factory" /\ Plan[n][j].on = Plan[n][i].on)
                => \E j \in DOMAIN Plan[n] :
                      Plan[n][j].kind = "admin" /\ Plan[n][j].on = Plan[n][i].on

\* When a command has nothing left to say, nothing it configures is left to the key
\* of the deployer, wherever it was interrupted between handing over Holograph and
\* the others.
THEOREM NothingStaysWithTheDeployer ==
    ASSUME HandsAllOver PROVE Spec => []NothingLeftToTheDeployer
<1>1. TypeOK /\ SettledMeansDesired => NothingLeftToTheDeployer
  <2> SUFFICES ASSUME TypeOK, SettledMeansDesired, Settled, HandedOver # {},
                      network \in Multisig, NEW c \in Configured \ (Made \cup Adminless)
               PROVE  chain.admin[c] # "deployer"
    BY DEF NothingLeftToTheDeployer
  <2>1. network \in Networks /\ steps = Plan[network] BY DEF TypeOK, steps
  <2>2. PICK i \in DOMAIN steps : steps[i].kind \in {"set", "resend"} /\ steps[i].on = c
    BY DEF Configured
  <2>3. \A j \in DOMAIN steps : ~ (steps[j].kind = "factory" /\ steps[j].on = c)
    BY DEF Made
  <2>4. \E j \in DOMAIN steps : steps[j].kind = "admin" BY DEF HandedOver
  <2>5. PICK j \in DOMAIN steps : steps[j].kind = "admin" /\ steps[j].on = c
    BY <2>1, <2>2, <2>3, <2>4 DEF HandsAllOver
  <2>6. steps[j].to # "deployer" BY <2>5, HandedTo
  <2>7. Achieved(steps[j]) BY DEF SettledMeansDesired
  <2> QED BY <2>5, <2>6, <2>7 DEF Achieved
<1> QED BY <1>1, TypeCorrect, DoneIsDesired, PTL
=============================================================================
