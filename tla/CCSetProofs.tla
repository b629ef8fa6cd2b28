----------------------------- MODULE CCSetProofs -----------------------------
(***************************************************************************)
(* Proofs about CCSet, for any modules, commands, routes and policies.     *)
(***************************************************************************)
EXTENDS CCSet, TLAPS

\* The module of step j, if it is alive and connected, has the new value.
Applied(j) == Live(j) => conf[Route[cmd][j]][cmd] = data

\* Steps behind the current one count as done when their failure would show:
\* it would have ended the command ("stop") or stayed in ret ("or").
StepsCount == Policy[cmd] = "stop" \/ (Policy[cmd] = "or" /\ ret = "ok")

\* While a command is handled: what the steps behind it achieved, that a
\* stopping command has not failed so far, and what the current step achieved.
StepInv ==
    pc # "idle" =>
        /\ StepsCount => \A j \in 1..(k - 1) : Applied(j) /\ db[cmd] = data
        /\ Policy[cmd] = "stop" /\ pc # "reply" => ret = "ok"
        /\ pc = "commit" \/ (pc = "answered" /\ rval = "ok") \/ (pc = "reply" /\ ret = "ok")
              => Applied(k)
        /\ pc = "reply" /\ ret = "ok" => db[cmd] = data /\ k = Len(Route[cmd])

IInv == TypeOK /\ StepInv

----------------------------------------------------------------------------
\* A route is not empty and leads to modules or to the data base alone.
LEMMA RouteType ==
    ASSUME NEW c \in Cmd
    PROVE  /\ Len(Route[c]) \in Nat \ {0}
           /\ \A j \in 1..Len(Route[c]) : Route[c][j] \in Module \cup {None}
           /\ Policy[c] \in Policies
PROOF
<1>1. Route[c] \in Seq(Module \cup {None}) /\ Route[c] # <<>>
  BY SetAssumption
<1>2. Len(Route[c]) \in Nat /\ Len(Route[c]) # 0
  BY <1>1
<1>3. \A j \in 1..Len(Route[c]) : Route[c][j] \in Module \cup {None}
  BY <1>1
<1> QED
  BY <1>2, <1>3, SetAssumption

\* Every reachable state has its type: in particular the step is on the route.
THEOREM TypeCorrect == Spec => []TypeOK
PROOF
<1>1. Init => TypeOK
  BY RouteType DEF Init, TypeOK, Result
<1>2. TypeOK /\ [Next]_vars => TypeOK'
  <2> SUFFICES ASSUME TypeOK, [Next]_vars PROVE TypeOK'
    OBVIOUS
  <2> USE DEF TypeOK, Result, serverVars
  <2>0. Len(Route[cmd]) \in Nat \ {0} /\ k \in 1..Len(Route[cmd])
    BY RouteType
  <2>1. ASSUME NEW r \in Result, StepEnds(r)
        PROVE  /\ ret' \in Result /\ rval' \in Result
               /\ cmd' \in Cmd /\ data' \in Data
               /\ k' \in 1..Len(Route[cmd']) /\ pc' \in {"reply", "step"}
    BY <2>0, <2>1 DEF StepEnds, Accumulate
  <2>2. ASSUME NEW c \in Cmd, NEW d \in Data, HostSet(c, d) PROVE TypeOK'
    BY <2>2, RouteType DEF HostSet
  <2>3. CASE SkipModule
    BY <2>3 DEF SkipModule
  <2>4. CASE Push
    <3>1. CASE life[Target] = "dead"
      BY <2>1, <2>4, <3>1 DEF Push, StepEnds
    <3>2. CASE life[Target] # "dead"
      BY <2>4, <3>2 DEF Push
    <3> QED
      BY <3>1, <3>2
  <2>5. CASE Receive
    <3>1. CASE rval = "ok"
      BY <2>5, <3>1 DEF Receive
    <3>2. CASE rval # "ok"
      BY <2>1, <2>5, <3>2 DEF Receive, StepEnds
    <3> QED
      BY <3>1, <3>2
  <2>6. CASE Commit
    <3>1. CASE db' = [db EXCEPT ![cmd] = data] /\ StepEnds("ok")
      BY <2>1, <2>6, <3>1 DEF Commit, StepEnds
    <3>2. CASE db' = db /\ StepEnds("failed")
      BY <2>1, <2>6, <3>2 DEF Commit, StepEnds
    <3> QED
      BY <2>6, <3>1, <3>2 DEF Commit
  <2>7. CASE ReplyHost
    BY <2>7 DEF ReplyHost
  <2>8. ASSUME NEW m \in Module, Boot(m) \/ Register(m) \/ Die(m) \/ Reap(m) PROVE TypeOK'
    BY <2>8 DEF Boot, Register, Die, Reap
  <2>9. ASSUME NEW m \in Module, Apply(m) PROVE TypeOK'
    BY <2>9 DEF Apply
  <2>10. CASE UNCHANGED vars
    BY <2>10 DEF vars
  <2> QED
    BY <2>2, <2>3, <2>4, <2>5, <2>6, <2>7, <2>8, <2>9, <2>10 DEF Next, ServerStep
<1> QED
  BY <1>1, <1>2, PTL DEF Spec

----------------------------------------------------------------------------
\* The end of a step keeps StepInv, when a step that ended well left its module
\* and the data base with the new value and moved neither otherwise.
LEMMA StepEndsKeeps ==
    ASSUME TypeOK, TypeOK', StepInv, pc # "idle", pc # "reply",
           NEW r \in Result, StepEnds(r),
           r = "ok" => Applied(k) /\ db'[cmd] = data,
           conf' = conf, life' = life,
           db[cmd] = data => db'[cmd] = data
    PROVE  StepInv'
PROOF
<1> USE DEF Result
<1>1. Len(Route[cmd]) \in Nat \ {0} /\ k \in 1..Len(Route[cmd]) /\ Policy[cmd] \in Policies
  BY RouteType DEF TypeOK
<1>2. cmd' = cmd /\ data' = data /\ rval' = rval /\ pc' \in {"reply", "step"}
  BY DEF StepEnds
<1>3. \A j : Applied(j) => Applied(j)'
  BY <1>2 DEF Applied, Live
<1>4. (StepsCount /\ r = "ok") => \A j \in 1..k : Applied(j)' /\ db'[cmd] = data
  <2> SUFFICES ASSUME StepsCount, r = "ok", NEW j \in 1..k
               PROVE  Applied(j)' /\ db'[cmd] = data
    OBVIOUS
  <2>1. CASE j = k
    BY <1>3, <2>1
  <2>2. CASE j \in 1..(k - 1)
    BY <1>3, <2>2 DEF StepInv
  <2> QED
    BY <1>1, <2>1, <2>2
<1>5. StepsCount' => \A j \in 1..(k' - 1) : Applied(j)' /\ db'[cmd'] = data'
  <2> SUFFICES ASSUME StepsCount', NEW j \in 1..(k' - 1)
               PROVE  Applied(j)' /\ db'[cmd] = data
    BY <1>2
  <2>1. StepsCount
    BY <1>1, <1>2 DEF StepsCount, StepEnds, Accumulate, Policies, TypeOK
  <2>2. CASE r = "ok"
    <3>1. j \in 1..k
      BY <1>1 DEF StepEnds
    <3> QED
      BY <1>4, <2>1, <2>2, <3>1
  <2>3. CASE r = "failed"
    <3>1. Policy[cmd] = "stop"
      BY <1>1, <1>2, <2>3 DEF StepsCount, StepEnds, Accumulate, Policies
    <3>2. k' = k
      BY <2>3, <3>1 DEF StepEnds
    <3> QED
      BY <1>3, <2>1, <3>2 DEF StepInv
  <2> QED
    BY <2>2, <2>3
<1>6. (Policy[cmd'] = "stop" /\ pc' # "reply") => ret' = "ok"
  BY <1>2 DEF StepEnds, Accumulate
<1>7. (pc' = "reply" /\ ret' = "ok") => Applied(k)' /\ db'[cmd'] = data' /\ k' = Len(Route[cmd'])
  <2> SUFFICES ASSUME pc' = "reply", ret' = "ok"
               PROVE  Applied(k)' /\ db'[cmd] = data /\ k' = Len(Route[cmd])
    BY <1>2
  <2>1. r = "ok"
    BY DEF StepEnds, Accumulate
  <2>2. k = Len(Route[cmd]) /\ k' = k
    BY <2>1 DEF StepEnds
  <2> QED
    BY <1>3, <2>1, <2>2 DEF Applied
<1> QED
  BY <1>2, <1>5, <1>6, <1>7 DEF StepInv

\* The step invariant is inductive with the type invariant.
THEOREM StepInvariant == Spec => []IInv
PROOF
<1>1. Init => StepInv
  BY DEF Init, StepInv
<1>2. IInv /\ TypeOK' /\ [Next]_vars => StepInv'
  <2> SUFFICES ASSUME TypeOK, StepInv, TypeOK', [Next]_vars PROVE StepInv'
    BY DEF IInv
  <2> USE DEF TypeOK, Result, serverVars
  <2>0. Len(Route[cmd]) \in Nat \ {0} /\ k \in 1..Len(Route[cmd])
    BY RouteType
  <2>1. ASSUME NEW c \in Cmd, NEW d \in Data, HostSet(c, d) PROVE StepInv'
    BY <2>1 DEF HostSet, StepInv
  <2>2. CASE SkipModule
    <3>1. ~Live(k)
      BY <2>2 DEF SkipModule, Connected, Live, Target
    <3> QED
      BY <2>2, <3>1 DEF SkipModule, StepInv, StepsCount, Applied, Live
  <2>3. CASE Push
    <3>1. CASE life[Target] = "dead"
      <4>1. StepEnds("failed") /\ UNCHANGED <<db, conf, life>> /\ pc = "step"
        BY <2>3, <3>1 DEF Push
      <4> QED
        BY <4>1, StepEndsKeeps
    <3>2. CASE life[Target] # "dead"
      BY <2>3, <3>2 DEF Push, StepInv, StepsCount, Applied, Live
    <3> QED
      BY <3>1, <3>2
  <2>4. CASE Receive
    <3>1. CASE rval = "ok"
      BY <2>4, <3>1 DEF Receive, StepInv, StepsCount, Applied, Live
    <3>2. CASE rval # "ok"
      <4>1. StepEnds("failed") /\ UNCHANGED <<db, conf, life>> /\ pc = "answered"
        BY <2>4, <3>2 DEF Receive
      <4> QED
        BY <4>1, StepEndsKeeps
    <3> QED
      BY <3>1, <3>2
  <2>5. CASE Commit
    <3>1. pc = "commit" /\ UNCHANGED <<conf, life>> /\ Applied(k)
      BY <2>5 DEF Commit, StepInv
    <3>2. CASE db' = [db EXCEPT ![cmd] = data] /\ StepEnds("ok")
      BY <3>1, <3>2, StepEndsKeeps
    <3>3. CASE db' = db /\ StepEnds("failed")
      BY <3>1, <3>3, StepEndsKeeps
    <3> QED
      BY <2>5, <3>2, <3>3 DEF Commit
  <2>6. CASE ReplyHost
    BY <2>6 DEF ReplyHost, StepInv
  <2>7. ASSUME NEW m \in Module, Boot(m) \/ Die(m) PROVE StepInv'
    <3>1. UNCHANGED <<db, pc, cmd, data, k, rval, ret>>
      BY <2>7 DEF Boot, Die
    <3>2. \A j : Applied(j) => Applied(j)'
      BY <2>7, <3>1 DEF Boot, Die, Applied, Live
    <3> QED
      BY <3>1, <3>2 DEF StepInv, StepsCount
  <2>8. ASSUME NEW m \in Module, Register(m) \/ Reap(m) PROVE StepInv'
    BY <2>8 DEF Register, Reap, StepInv
  <2>9. ASSUME NEW m \in Module, Apply(m) PROVE StepInv'
    <3>1. pc = "wait" /\ pc' = "answered" /\ m = Target /\ UNCHANGED <<db, life, cmd, data, k, ret>>
      BY <2>9 DEF Apply
    <3>2. \A n \in Module : conf'[n][cmd] = conf[n][cmd] \/ conf'[n][cmd] = data
      BY <2>9 DEF Apply
    <3>3. \A j : Applied(j) => Applied(j)'
      BY <3>1, <3>2 DEF Applied, Live
    <3>4. rval' = "ok" => Applied(k)'
      BY <2>9, <3>1 DEF Apply, Applied, Live, Target
    <3> QED
      BY <3>1, <3>3, <3>4 DEF StepInv, StepsCount
  <2>10. CASE UNCHANGED vars
    BY <2>10 DEF vars, StepInv, StepsCount, Applied, Live
  <2> QED
    BY <2>1, <2>2, <2>3, <2>4, <2>5, <2>6, <2>7, <2>8, <2>9, <2>10 DEF Next, ServerStep
<1> QED
  BY <1>1, <1>2, TypeCorrect, PTL DEF Spec, IInv

\* A command reported as done is done: in the data base, and in every connected
\* module of its route, whichever modules come and go meanwhile.
THEOREM SuccessCorrect == Spec => []SuccessIsEverywhere
PROOF
<1>1. IInv => SuccessIsEverywhere
  <2> SUFFICES ASSUME TypeOK, StepInv, pc = "reply", ret = "ok"
               PROVE  /\ db[cmd] = data
                      /\ \A j \in 1..Len(Route[cmd]) :
                            (Live(j) /\ (Policy[cmd] # "last" \/ j = Len(Route[cmd])))
                                => conf[Route[cmd][j]][cmd] = data
    BY DEF IInv, SuccessIsEverywhere
  <2>1. db[cmd] = data /\ k = Len(Route[cmd]) /\ Applied(k)
    BY DEF StepInv
  <2>2. ASSUME NEW j \in 1..Len(Route[cmd]), Live(j), Policy[cmd] # "last" \/ j = Len(Route[cmd])
        PROVE  conf[Route[cmd][j]][cmd] = data
    <3>1. CASE j = k
      BY <2>1, <2>2, <3>1 DEF Applied
    <3>2. CASE j # k
      <4>1. j \in 1..(k - 1) /\ StepsCount
        BY <2>1, <2>2, <3>2, RouteType DEF TypeOK, StepsCount, Policies
      <4> QED
        BY <2>2, <4>1 DEF StepInv, Applied
    <3> QED
      BY <3>1, <3>2
  <2> QED
    BY <2>1, <2>2
<1> QED
  BY <1>1, StepInvariant, PTL

\* A command that stopped at a failure has been carried out up to there.
THEOREM PrefixCorrect == Spec => []StoppedIsPrefix
PROOF
<1>1. IInv => StoppedIsPrefix
  <2> SUFFICES ASSUME TypeOK, StepInv, pc = "reply", Policy[cmd] = "stop", k > 1
               PROVE  /\ db[cmd] = data
                      /\ \A j \in 1..(k - 1) : Live(j) => conf[Route[cmd][j]][cmd] = data
    BY DEF IInv, StoppedIsPrefix
  <2>1. \A j \in 1..(k - 1) : Applied(j) /\ db[cmd] = data
    BY DEF StepInv, StepsCount
  <2>2. 1 \in 1..(k - 1)
    BY RouteType DEF TypeOK
  <2> QED
    BY <2>1, <2>2 DEF Applied
<1> QED
  BY <1>1, StepInvariant, PTL

\* The data base gets a new value only once the module just asked has it.
THEOREM WrittenCorrect == Spec => WrittenIfApplied
PROOF
<1>1. ASSUME IInv, [Next]_vars
      PROVE  [db' # db => \A m \in Module : (m = Target /\ life[m] = "registered")
                              => conf[m][cmd] = db'[cmd]]_vars
  <2> SUFFICES ASSUME db' # db, NEW m \in Module, m = Target, life[m] = "registered"
               PROVE  conf[m][cmd] = db'[cmd]
    OBVIOUS
  <2>1. Commit
    BY <1>1 DEF Next, ServerStep, HostSet, SkipModule, Push, Receive, ReplyHost,
                Boot, Register, Die, Reap, Apply, vars
  <2>2. db'[cmd] = data
    BY <1>1, <2>1 DEF Commit, IInv, TypeOK
  <2>3. Applied(k) /\ Live(k)
    BY <1>1, <2>1 DEF Commit, IInv, StepInv, Live, Target
  <2> QED
    BY <2>2, <2>3 DEF Applied, Target
<1> QED
  BY <1>1, StepInvariant, PTL DEF Spec, WrittenIfApplied

=============================================================================
