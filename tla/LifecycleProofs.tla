--------------------------- MODULE LifecycleProofs ---------------------------
(***************************************************************************)
(* Proofs about the life of an agent process, for every environment, every *)
(* set of controller instances and every limit of the back-off.            *)
(***************************************************************************)
EXTENDS AgentLifecycle, FiniteSetTheorems, FunctionTheorems, TLAPS

\* The agent is at a connection: from the dial that succeeded to its Close.
Connected ==
    {"connected", "running", "cause", "canceled", "broken", "leaveFailed", "leaveOk"}

\* An open stream is the one of the instance that the agent is at, which the
\* signal handler may be closing too.
StreamsInv ==
    /\ open \subseteq {cur}
    /\ pc \notin Connected => open = {}

\* What StreamsInv needs to know of a step.
LEMMA StepStreams ==
    ASSUME StreamsInv, [Next]_vars
    PROVE  StreamsInv'
<1>1. ASSUME open' \in {open, {}}, cur' = cur, pc' = pc \/ open' = {}
      PROVE  StreamsInv'
  BY <1>1 DEF StreamsInv
<1>2. ASSUME pc \notin Connected, pc' \notin Connected, open' = open
      PROVE  StreamsInv'
  BY <1>2 DEF StreamsInv
<1>3. CASE Start \/ PreConnect \/ Nap \/ Sleep
  BY <1>2, <1>3 DEF Start, PreConnect, Nap, Sleep, Connected
<1>4. CASE ConnectFails
  BY <1>2, <1>4 DEF ConnectFails, Retry, Connected
<1>5. CASE Connect
  BY <1>5 DEF Connect, StreamsInv, Connected
<1>6. CASE Register
  BY <1>6 DEF Register, StreamsInv, Connected
<1>7. ASSUME NEW status \in {"cause", "canceled", "broken"}, RunReturns(status)
      PROVE  StreamsInv'
  BY <1>7 DEF RunReturns, StreamsInv, Connected
<1>8. ASSUME NEW long \in BOOLEAN, Leave(long)
      PROVE  StreamsInv'
  BY <1>8 DEF Leave, StreamsInv, Connected
<1>9. CASE Signal \/ Cleanup \/ CancelInstance \/ Cleaned \/ GatewayGoesDown \/ GatewayComesUp
  BY <1>1, <1>9 DEF Signal, Cleanup, CancelInstance, Cleaned, GatewayGoesDown, GatewayComesUp,
                    agentVars
<1>10. CASE CloseInstance
  BY <1>10 DEF CloseInstance, agentVars, StreamsInv
<1>11. CASE Exit
  BY <1>1, <1>11 DEF Exit
<1>12. CASE UNCHANGED vars
  BY <1>1, <1>12 DEF vars, agentVars
<1>13. CASE CloseController
  <2>1. open' = {}
    BY <1>13 DEF CloseController, StreamsInv
  <2> QED
    BY <2>1 DEF StreamsInv
<1> QED
  BY <1>3, <1>4, <1>5, <1>6, <1>7, <1>8, <1>9, <1>10, <1>11, <1>12, <1>13
  DEF Next, AgentStep, ControllerStep, SignalStep

\* The agent never has two streams to the gateway, although the signal handler
\* closes an instance while the agent may connect with another one.
THEOREM NeverTwoStreams == Spec => []OneStream
<1>1. Init => StreamsInv
  BY DEF Init, StreamsInv
<1>2. ASSUME StreamsInv
      PROVE  OneStream
  <2>1. IsFiniteSet({cur}) /\ Cardinality({cur}) = 1
    BY FS_Singleton
  <2>2. Cardinality(open) <= Cardinality({cur})
    BY <1>2, <2>1, FS_Subset DEF StreamsInv
  <2> QED
    BY <2>1, <2>2 DEF OneStream
<1> QED
  BY <1>1, <1>2, StepStreams, PTL DEF Spec

-----------------------------------------------------------------------------
(* The back-off *)

\* Powers of two double.  The sets of numbers up to n + 1 are those without
\* n + 1 and as many with it.
LEMMA PowerStep ==
    ASSUME NEW n \in Nat
    PROVE  2 ^ (n + 1) = 2 * 2 ^ n
<1> DEFINE x == n + 1
           A == SUBSET (1..n)
           B == {t \in SUBSET (1..x) : x \in t}
           f == [t \in A |-> t \cup {x}]
<1>1. IsFiniteSet(1..n) /\ Cardinality(1..n) = n
  BY FS_Interval
<1>2. IsFiniteSet(1..x) /\ Cardinality(1..x) = n + 1
  BY FS_Interval
<1>3. IsFiniteSet(A) /\ Cardinality(A) = 2 ^ n
  BY <1>1, FS_SUBSET
<1>4. Cardinality(SUBSET (1..x)) = 2 ^ (n + 1)
  BY <1>2, FS_SUBSET
<1>5. 1..x = (1..n) \cup {x} /\ x \notin 1..n
  OBVIOUS
<1> HIDE DEF x
<1>6. f \in Bijection(A, B)
  <2>1. f \in [A -> B]
    BY <1>5
  <2>2. \A s, t \in A : f[s] = f[t] => s = t
    BY <1>5
  <2>3. \A t \in B : t \ {x} \in A /\ f[t \ {x}] = t
    BY <1>5
  <2> QED
    BY <2>1, <2>2, <2>3, Fun_IsBij
<1>7. IsFiniteSet(B) /\ Cardinality(B) = Cardinality(A)
  BY <1>3, <1>6, FS_Bijection DEF ExistsBijection
<1>8. SUBSET (1..x) = A \cup B /\ A \cap B = {}
  BY <1>5
<1> HIDE DEF A, B
<1>9. Cardinality(A \cup B) = Cardinality(A) + Cardinality(B) - Cardinality(A \cap B)
  BY <1>3, <1>7, FS_Union
<1>10. Cardinality(A) \in Nat
  BY <1>3, FS_CardinalityType
<1>11. Cardinality(A \cap B) = 0
  BY <1>8, FS_EmptySet
<1>12. Cardinality(A \cup B) = 2 * Cardinality(A)
  BY <1>7, <1>9, <1>10, <1>11
<1> QED
  BY <1>3, <1>4, <1>8, <1>12

\* The smaller of two numbers.
LEMMA MinOfTwo ==
    ASSUME NEW a \in Nat, NEW b \in Nat
    PROVE  Min({a, b}) = IF a <= b THEN a ELSE b
  BY DEF Min

\* The exponent of the sleep after a number of failures in a row.
Exponent(n) == IF n <= MaxBackoff - 1 THEN n ELSE MaxBackoff - 1

\* In standard mode the back-off follows the failures in a row, and a dial
\* comes right after a connection that lasted or after the sleep.
BackoffInv ==
    LoadedMode = "standard" =>
        /\ pc \notin {"preconnect", "nap"}
        /\ fails \in 0..MaxBackoff /\ attempt = fails + 1
        /\ duration = 2 ^ Exponent(fails)
        /\ pc = "sleep" => fails # 0
        /\ pc = "start" => fails = 0 /\ waited = 0
        /\ pc = "dial" => waited = IF fails = 0 THEN 0 ELSE 2 ^ Exponent(fails)

\* One more failure doubles the sleep up to the limit.
LEMMA FailureDoubles ==
    ASSUME NEW n \in 0..MaxBackoff
    PROVE  LET m == Min({n + 1, MaxBackoff}) IN
           /\ m \in 1..MaxBackoff
           /\ Min({n + 2, MaxBackoff + 1}) = m + 1
           /\ 2 ^ Exponent(m) = IF n + 2 <= MaxBackoff THEN 2 * 2 ^ Exponent(n)
                                ELSE 2 ^ Exponent(n)
<1>1. MaxBackoff \in Nat \ {0} /\ n \in Nat
  BY LifecycleAssumption
<1> DEFINE m == Min({n + 1, MaxBackoff})
<1>2. m = IF n + 1 <= MaxBackoff THEN n + 1 ELSE MaxBackoff
  BY <1>1, MinOfTwo
<1>3. Min({n + 2, MaxBackoff + 1}) = IF n + 2 <= MaxBackoff + 1 THEN n + 2 ELSE MaxBackoff + 1
  BY <1>1, MinOfTwo
<1> HIDE DEF m
<1>4. m \in 1..MaxBackoff /\ Min({n + 2, MaxBackoff + 1}) = m + 1
  BY <1>1, <1>2, <1>3
<1>5. CASE n + 2 <= MaxBackoff
  <2>1. Exponent(m) = n + 1 /\ Exponent(n) = n
    BY <1>1, <1>2, <1>5 DEF Exponent
  <2> QED
    BY <1>1, <1>4, <1>5, <2>1, PowerStep DEF m
<1>6. CASE ~(n + 2 <= MaxBackoff)
  <2>1. Exponent(m) = MaxBackoff - 1 /\ Exponent(n) = MaxBackoff - 1
    BY <1>1, <1>2, <1>6 DEF Exponent
  <2> QED
    BY <1>4, <1>6, <2>1 DEF m
<1> QED
  BY <1>5, <1>6

\* The two ends of a turn in standard mode.
LEMMA RetryBackoff ==
    ASSUME BackoffInv, NEW failed \in BOOLEAN, Retry(failed), LoadedMode = "standard", env' = env
    PROVE  BackoffInv'
<1>1. CASE failed
  <2>1. /\ attempt' = Min({attempt + 1, MaxBackoff + 1})
        /\ duration' = IF attempt + 1 <= MaxBackoff THEN 2 * duration ELSE duration
        /\ pc' = "sleep" /\ fails' = Min({fails + 1, MaxBackoff})
    BY <1>1 DEF Retry
  <2>2. fails \in 0..MaxBackoff /\ attempt = fails + 1 /\ duration = 2 ^ Exponent(fails)
    BY DEF BackoffInv
  <2>3. attempt + 1 = fails + 2
    BY <2>2
  <2>4. /\ fails' \in 1..MaxBackoff /\ attempt' = fails' + 1
        /\ duration' = 2 ^ Exponent(fails')
    BY <2>1, <2>2, <2>3, FailureDoubles
  <2>5. fails' \in 0..MaxBackoff /\ fails' # 0
    BY <2>4, LifecycleAssumption
  <2> QED
    BY <2>1, <2>4, <2>5 DEF BackoffInv, Exponent
<1>2. CASE ~failed
  <2>1. attempt' = 1 /\ duration' = 1 /\ pc' = "dial" /\ fails' = 0 /\ waited' = 0
    BY <1>2 DEF Retry
  <2>2. 2 ^ Exponent(0) = 1 /\ 0 \in 0..MaxBackoff
    BY LifecycleAssumption DEF Exponent
  <2> QED
    BY <2>1, <2>2 DEF BackoffInv, Exponent
<1> QED
  BY <1>1, <1>2

\* Every step keeps it.
LEMMA StepBackoff ==
    ASSUME BackoffInv, [Next]_vars
    PROVE  BackoffInv'
<1>1. env' = env
  BY DEF Next, AgentStep, ControllerStep, CloseController, SignalStep, Start, PreConnect, Nap, Sleep, ConnectFails, Connect,
         Register, RunReturns, Leave, Signal, Cleanup, Cleaned, Exit, CancelInstance,
         CloseInstance, GatewayGoesDown, GatewayComesUp, vars
<1>2. LoadedMode' = LoadedMode
  BY <1>1 DEF LoadedMode, Credentials
<1>3. SUFFICES ASSUME LoadedMode = "standard"
               PROVE  BackoffInv'
  BY <1>2 DEF BackoffInv
<1>4. ASSUME UNCHANGED <<attempt, duration, fails, waited>>,
             pc' = pc \/ pc' \in Connected \cup {"exited"}
      PROVE  BackoffInv'
  BY <1>3, <1>4 DEF BackoffInv, Connected, Exponent
<1>5. CASE Start
  BY <1>3, <1>5 DEF Start, BackoffInv, Exponent
<1>6. CASE PreConnect \/ Nap
  BY <1>3, <1>6 DEF PreConnect, Nap, BackoffInv
<1>7. CASE Sleep
  BY <1>3, <1>7 DEF Sleep, BackoffInv, Exponent
<1>8. CASE ConnectFails
  BY <1>1, <1>3, <1>8, RetryBackoff DEF ConnectFails
<1>9. CASE CloseController
  BY <1>1, <1>3, <1>9, RetryBackoff DEF CloseController
<1>10. CASE \/ Connect \/ Register \/ \E long \in BOOLEAN : Leave(long)
            \/ \E status \in {"cause", "canceled", "broken"} : RunReturns(status)
  BY <1>4, <1>10 DEF Connect, Register, RunReturns, Leave, Connected
<1>11. CASE SignalStep \/ Signal \/ CancelInstance \/ CloseInstance \/ GatewayGoesDown \/ GatewayComesUp
  BY <1>4, <1>11 DEF SignalStep, Signal, Cleanup, Cleaned, Exit, CancelInstance, CloseInstance,
                     GatewayGoesDown, GatewayComesUp, agentVars
<1>12. CASE UNCHANGED vars
  BY <1>4, <1>12 DEF vars, agentVars
<1> QED
  BY <1>5, <1>6, <1>7, <1>8, <1>9, <1>10, <1>11, <1>12
  DEF Next, AgentStep, ControllerStep

\* The back-off doubles with every failure up to its limit, for any limit, and
\* starts over only after a connection that was cancelled or lasted.
THEOREM Pacing == Spec => []RetryPaced
<1>1. ASSUME Init
      PROVE  BackoffInv
  <2>1. 2 ^ Exponent(0) = 1 /\ 0 \in 0..MaxBackoff
    BY LifecycleAssumption DEF Exponent
  <2> QED
    BY <1>1, <2>1 DEF Init, BackoffInv
<1>2. ASSUME BackoffInv
      PROVE  RetryPaced
  <2>1. SUFFICES ASSUME pc = "dial", LoadedMode = "standard"
                 PROVE  waited = IF fails = 0 THEN 0 ELSE 2 ^ Min({fails, MaxBackoff - 1})
    BY DEF RetryPaced
  <2>2. fails \in Nat /\ MaxBackoff - 1 \in Nat
    BY <1>2, <2>1, LifecycleAssumption DEF BackoffInv
  <2>3. Min({fails, MaxBackoff - 1}) = Exponent(fails)
    BY <2>2, MinOfTwo DEF Exponent
  <2> QED
    BY <1>2, <2>1, <2>3 DEF BackoffInv
<1> QED
  BY <1>1, <1>2, StepBackoff, PTL DEF Spec

=============================================================================
