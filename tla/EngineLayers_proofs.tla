-------------------------- MODULE EngineLayers_proofs --------------------------
(***************************************************************************)
(* Theorems about the engine's layers and their proofs: first the runtime  *)
(* above (permits, the idle event and the shared health probe), then the   *)
(* subprocesses and the compute service below, and both together.          *)
(***************************************************************************)
EXTENDS EngineLayers, FiniteSetTheorems, SequenceTheorems, TLAPS

----------------------------------------------------------------------------
(* The inductive invariant of the runtime.                                 *)

Holders(calls) == {c \in Calls : calls[c] \in Owning}

\* The line holds exactly the calls that wait, each once.
LineExact(calls) ==
    /\ \A i \in DOMAIN line : calls[line[i]] = "waiting"
    /\ \A c \in Calls : calls[c] = "waiting" => \E i \in DOMAIN line : line[i] = c
    /\ \A i, k \in DOMAIN line : line[i] = line[k] => i = k

CallsInv ==
    /\ LineExact(call)
    /\ IsFiniteSet(Holders(call))
    /\ PermitsBalance

\* A check has no probe before it starts one, a probe in charge has been started
\* and is not yet retired, a cancelled one is being retired, and close() has begun
\* the retirement of the last.
ProbesInv ==
    /\ \A h \in Checkers : checker[h] \in {"new", "retrying"}
                               => probe[h] = "none" /\ retirement[h] = "none"
    /\ \A h \in Checkers : checker[h] = "joined"
                               => joined[h] \in Checkers /\ probe[joined[h]] # "none"
    /\ \A p \in Checkers : probe[p] = "cancelling" => retirement[p] # "none"
    /\ current # NoProbe => probe[current] # "none" /\ retirement[current] # "done"
    /\ phase \in {"cancelling", "closed"} /\ current # NoProbe
           => retirement[current] = "pending"
    /\ OneProbe

ClosedInv == phase = "closed" => Active(call) = {} /\ current = NoProbe /\ cache = "none"

RuntimeInv == TypeOK /\ CallsInv /\ ProbesInv /\ IdleExact /\ ClosedInv

----------------------------------------------------------------------------
(* Sequences without repetition.                                           *)

\* The first k elements of a sequence without repetition are k elements.
LEMMA DistinctPrefix ==
    ASSUME NEW S, NEW s \in Seq(S), NEW k \in 0..Len(s),
           \A i, j \in DOMAIN s : s[i] = s[j] => i = j
    PROVE  /\ IsFiniteSet({s[i] : i \in 1..k})
           /\ Cardinality({s[i] : i \in 1..k}) = k
<1> DEFINE T == {s[i] : i \in 1..k}
           f == [i \in 1..k |-> s[i]]
<1>1. DOMAIN s = 1..Len(s) /\ Len(s) \in Nat /\ k \in Nat
  BY LenProperties
<1>2. f \in Surjection(1..k, T)
  BY DEF Surjection
<1>3. \A i, j \in 1..k : f[i] = f[j] => i = j
  BY <1>1
<1>4. f \in Injection(1..k, T)
  BY <1>3 DEF Injection, IsInjective
<1>5. IsFiniteSet(1..k) /\ Cardinality(1..k) = k
  BY <1>1, FS_Interval
<1> HIDE DEF T, f
<1>6. IsFiniteSet(T) /\ Cardinality(T) = k
  BY <1>2, <1>4, <1>5, FS_Surjection
<1>7. QED
  BY <1>6 DEF T

\* Three numbers have a smallest.
LEMMA Smallest ==
    ASSUME NEW a \in Nat, NEW b \in Nat, NEW c \in Nat
    PROVE  \E k \in {a, b, c} : \A l \in {a, b, c} : k <= l
<1>1. CASE a <= b /\ a <= c
  BY <1>1
<1>2. CASE b <= a /\ b <= c
  BY <1>2
<1>3. CASE c <= a /\ c <= b
  BY <1>3
<1>4. QED
  BY <1>1, <1>2, <1>3

\* What is left of the line without one of its callers.
LEMMA WithoutExact ==
    ASSUME NEW c, line \in Seq(Calls),
           \A i, k \in DOMAIN line : line[i] = line[k] => i = k
    PROVE  /\ Without(c) \in Seq(Calls)
           /\ \A i \in DOMAIN Without(c) : /\ Without(c)[i] # c
                                           /\ \E k \in DOMAIN line : Without(c)[i] = line[k]
           /\ \A k \in DOMAIN line : line[k] # c => \E i \in DOMAIN Without(c) : Without(c)[i] = line[k]
           /\ \A i, k \in DOMAIN Without(c) : Without(c)[i] = Without(c)[k] => i = k
<1>1. /\ Len(line) \in Nat /\ DOMAIN line = 1..Len(line)
      /\ \A i \in 1..Len(line) : line[i] \in Calls
  BY LenProperties, ElementOfSeq
<1>2. CASE ~\E i \in DOMAIN line : line[i] = c
  BY <1>2 DEF Without
<1>3. CASE \E i \in DOMAIN line : line[i] = c
  <2> DEFINE at == CHOOSE i \in DOMAIN line : line[i] = c
             n == Len(line) - 1
             rest == [k \in 1..n |-> line[IF k < at THEN k ELSE k + 1]]
  <2>1. at \in 1..Len(line) /\ line[at] = c
    BY <1>1, <1>3
  <2>2. Without(c) = rest
    BY <1>3 DEF Without
  <2> HIDE DEF at
  <2>3. n \in Nat
    BY <1>1, <2>1
  <2>4. \A k \in 1..n : /\ (IF k < at THEN k ELSE k + 1) \in 1..Len(line)
                        /\ (IF k < at THEN k ELSE k + 1) # at
    BY <1>1, <2>1
  <2>5. \A k \in 1..n : rest[k] \in Calls /\ rest[k] # c
    BY <1>1, <2>1, <2>4
  <2>6. rest \in Seq(Calls)
    BY <2>3, <2>5, SeqDef
  <2>7. \A k \in 1..n : \E i \in DOMAIN line : rest[k] = line[i]
    BY <1>1, <2>4
  <2>8. ASSUME NEW k \in DOMAIN line, line[k] # c
        PROVE  \E i \in 1..n : rest[i] = line[k]
    <3>1. CASE k < at
      <4>1. k \in 1..n
        BY <1>1, <2>1, <3>1
      <4>2. QED
        BY <3>1, <4>1
    <3>2. CASE k > at
      <4>1. k - 1 \in 1..n /\ ~(k - 1 < at) /\ (k - 1) + 1 = k
        BY <1>1, <2>1, <3>2
      <4>2. QED
        BY <4>1
    <3>3. QED
      BY <1>1, <2>1, <2>8, <3>1, <3>2
  <2>9. ASSUME NEW i \in 1..n, NEW k \in 1..n, rest[i] = rest[k] PROVE i = k
    <3>1. (IF i < at THEN i ELSE i + 1) = (IF k < at THEN k ELSE k + 1)
      BY <1>1, <2>4, <2>9
    <3>2. QED
      BY <1>1, <2>1, <3>1
  <2>10. DOMAIN rest = 1..n
    OBVIOUS
  <2> HIDE DEF rest, n
  <2>11. QED
    BY <2>2, <2>5, <2>6, <2>7, <2>8, <2>9, <2>10
<1>4. QED
  BY <1>2, <1>3

----------------------------------------------------------------------------
(* Calls: the permits and the line.                                        *)

CallStates == {"new"} \cup Waiting \cup Owning \cup Over

\* Handing permits to the first in the line: none is lost or made, the line stays
\* exact, and somebody is on the way if a permit is left over beside a waiter.
LEMMA ServeKeeps ==
    ASSUME RuntimeAssumption, line \in Seq(Calls),
           NEW n \in 0..Capacity, NEW most \in Nat, most = 0 => line = <<>>,
           NEW calls \in [Calls -> CallStates], LineExact(calls),
           IsFiniteSet(Holders(calls)), n + Cardinality(Holders(calls)) = Capacity,
           Serve(n, most, calls)
    PROVE  /\ permits' \in 0..Capacity /\ line' \in Seq(Calls) /\ call' \in [Calls -> CallStates]
           /\ CallsInv'
           /\ Active(call') = Active(calls)
<1> DEFINE len == Len(line)
           served == CHOOSE k \in {n, most, len} : \A l \in {n, most, len} : k <= l
           first == {line[i] : i \in 1..served}
<1>1. len \in Nat /\ DOMAIN line = 1..len
  BY LenProperties
<1>2. n \in Nat /\ most \in Nat /\ Capacity \in Nat /\ n <= Capacity
  BY DEF RuntimeAssumption
<1>3. /\ served \in Nat /\ served \in {n, most, len}
      /\ served <= n /\ served <= most /\ served <= len
  <2>1. len \in Nat /\ most \in Nat
    BY <1>1, <1>2
  <2>2. \E k \in {n, most, len} : \A l \in {n, most, len} : k <= l
    BY <1>2, <2>1, Smallest
  <2>3. QED
    BY <1>2, <2>1, <2>2
<1>4. permits' = n - served
  BY DEF Serve
<1>5. line' = SubSeq(line, served + 1, len)
  BY DEF Serve
<1>6. call' = [c \in Calls |-> IF c \in first THEN "granted" ELSE calls[c]]
  BY DEF Serve
<1> HIDE DEF served, len
<1>7. permits' \in 0..Capacity
  BY <1>2, <1>3, <1>4
<1>8. /\ line' \in Seq(Calls) /\ Len(line') = len - served
      /\ DOMAIN line' = 1..(len - served)
  <2>1. \A i \in (served + 1)..len : line[i] \in Calls
    <3>1. SUFFICES ASSUME NEW i \in (served + 1)..len PROVE line[i] \in Calls
      OBVIOUS
    <3>2. i \in 1..len
      BY <1>1, <1>3
    <3>3. QED
      BY <3>2, ElementOfSeq DEF len
  <2>2. served + 1 \in Int /\ len \in Int
    BY <1>1, <1>3
  <2>3. /\ line' \in Seq(Calls)
        /\ Len(line') = IF served + 1 <= len THEN len - (served + 1) + 1 ELSE 0
    BY <1>5, <2>1, <2>2, SubSeqProperties
  <2>4. Len(line') = len - served
    BY <1>1, <1>3, <2>3
  <2>5. QED
    BY <2>3, <2>4, LenProperties
<1>9. ASSUME NEW i \in DOMAIN line'
      PROVE  served + i \in DOMAIN line /\ line'[i] = line[served + i] /\ i \in Nat \ {0}
  <2>1. i \in 1..(len - served)
    BY <1>8, <1>9
  <2>2. \A k \in (served + 1)..len : line[k] \in Calls
    <3>1. SUFFICES ASSUME NEW k \in (served + 1)..len PROVE line[k] \in Calls
      OBVIOUS
    <3>2. k \in 1..len
      BY <1>1, <1>3
    <3>3. QED
      BY <3>2, ElementOfSeq DEF len
  <2>3. served + 1 \in Int /\ len \in Int
    BY <1>1, <1>3
  <2>4. \A k \in 1..(len - (served + 1) + 1) : line'[k] = line[served + 1 + k - 1]
    BY <1>5, <2>2, <2>3, SubSeqProperties
  <2>5. i \in 1..(len - (served + 1) + 1) /\ served + 1 + i - 1 = served + i
    BY <1>1, <1>3, <2>1
  <2>6. served + i \in 1..len /\ i \in Nat \ {0}
    BY <1>1, <1>3, <2>1
  <2>7. QED
    BY <1>1, <2>4, <2>5, <2>6
<1>10. \A c \in first : c \in Calls /\ calls[c] = "waiting"
  <2>1. SUFFICES ASSUME NEW i \in 1..served PROVE line[i] \in Calls /\ calls[line[i]] = "waiting"
    OBVIOUS
  <2>2. i \in 1..len
    BY <1>1, <1>3
  <2>3. line[i] \in Calls
    BY <2>2, ElementOfSeq DEF len
  <2>4. QED
    BY <1>1, <2>2, <2>3 DEF LineExact
<1>11. call' \in [Calls -> CallStates]
  BY <1>6 DEF CallStates, Owning
<1>12. LineExact(call)'
  <2>1. ASSUME NEW i \in DOMAIN line' PROVE call'[line'[i]] = "waiting"
    <3>1. line'[i] = line[served + i] /\ served + i \in DOMAIN line
      BY <1>9
    <3>2. line'[i] \in Calls
      BY <1>8, LenProperties, ElementOfSeq
    <3>3. \A k \in 1..served : k \in DOMAIN line /\ k # served + i
      BY <1>1, <1>3, <1>9
    <3>4. line'[i] \notin first
      BY <3>1, <3>3 DEF LineExact
    <3>5. calls[line'[i]] = "waiting"
      BY <3>1 DEF LineExact
    <3>6. QED
      BY <1>6, <3>2, <3>4, <3>5
  <2>2. ASSUME NEW c \in Calls, call'[c] = "waiting" PROVE \E i \in DOMAIN line' : line'[i] = c
    <3>1. c \notin first /\ calls[c] = "waiting"
      BY <1>6, <2>2
    <3>2. PICK k \in DOMAIN line : line[k] = c
      BY <3>1 DEF LineExact
    <3>3. k \in 1..len /\ ~(k \in 1..served)
      BY <1>1, <3>1, <3>2
    <3>4. k - served \in 1..(len - served) /\ served + (k - served) = k
      BY <1>1, <1>3, <3>3
    <3>5. k - served \in DOMAIN line'
      BY <1>8, <3>4
    <3>6. line'[k - served] = line[k]
      BY <1>9, <3>4, <3>5
    <3>7. QED
      BY <3>2, <3>5, <3>6
  <2>3. ASSUME NEW i \in DOMAIN line', NEW k \in DOMAIN line', line'[i] = line'[k] PROVE i = k
    <3>1. /\ line[served + i] = line[served + k]
          /\ served + i \in DOMAIN line /\ served + k \in DOMAIN line
          /\ i \in Nat /\ k \in Nat
      BY <1>9, <2>3
    <3>2. served + i = served + k
      BY <3>1 DEF LineExact
    <3>3. QED
      BY <1>3, <3>1, <3>2
  <2>4. QED
    BY <2>1, <2>2, <2>3 DEF LineExact
<1>13. IsFiniteSet(first) /\ Cardinality(first) = served
  <2>1. served \in 0..len
    BY <1>1, <1>3
  <2>2. served \in 0..Len(line)
    BY <2>1 DEF len
  <2>3. \A i, j \in DOMAIN line : line[i] = line[j] => i = j
    BY DEF LineExact
  <2> HIDE DEF first
  <2>4. \A k \in 0..Len(line) : /\ IsFiniteSet({line[i] : i \in 1..k})
                                 /\ Cardinality({line[i] : i \in 1..k}) = k
    <3>1. TAKE k \in 0..Len(line)
    <3>2. QED
      BY <2>3, DistinctPrefix
  <2>5. QED
    BY <2>2, <2>4 DEF first
<1>14. Holders(call') = Holders(calls) \cup first /\ Holders(calls) \cap first = {}
  BY <1>6, <1>10 DEF Holders, Owning
<1>15. /\ IsFiniteSet(Holders(call'))
       /\ Cardinality(Holders(call')) = Cardinality(Holders(calls)) + served
  <2> HIDE DEF first
  <2>1. /\ IsFiniteSet(Holders(calls) \cup first)
        /\ Cardinality(Holders(calls) \cup first)
             = Cardinality(Holders(calls)) + Cardinality(first)
                                           - Cardinality(Holders(calls) \cap first)
    BY <1>13, FS_Union
  <2>2. Cardinality(Holders(calls)) \in Nat
    BY FS_CardinalityType
  <2>3. Cardinality(Holders(calls) \cap first) = 0
    BY <1>14, FS_EmptySet
  <2>4. Cardinality(Holders(calls) \cup first) = Cardinality(Holders(calls)) + served
    BY <1>3, <1>13, <2>1, <2>2, <2>3
  <2>5. QED
    BY <1>14, <2>1, <2>4
<1>16. PermitsBalance'
  <2>1. permits' + Cardinality(Holders(call')) = Capacity
    <3>1. Cardinality(Holders(calls)) \in Nat
      BY FS_CardinalityType
    <3>2. QED
      BY <1>2, <1>3, <1>4, <1>15, <3>1
  <2>2. ASSUME line' # <<>>, permits' > 0 PROVE \E c \in Calls : call'[c] \in {"granted", "returning"}
    <3>1. Len(line') \in Nat \ {0}
      BY <1>8, <2>2, EmptySeq
    <3>2. served = most
      <4>1. served # len
        BY <1>1, <1>3, <1>8, <3>1
      <4>2. served # n
        BY <1>2, <1>3, <1>4, <2>2
      <4>3. QED
        BY <1>3, <4>1, <4>2
    <3>3. 1 \in 1..served
      <4>1. most # 0
        <5>1. SUFFICES ASSUME most = 0 PROVE FALSE
          OBVIOUS
        <5>2. len = 0
          BY <5>1, EmptySeq DEF len
        <5>3. QED
          BY <1>3, <1>8, <3>1, <5>2
      <4>2. QED
        BY <1>2, <3>2, <4>1
    <3>4. line[1] \in first
      BY <3>3
    <3>5. line[1] \in Calls /\ call'[line[1]] = "granted"
      BY <1>6, <1>10, <3>4
    <3>6. QED
      BY <3>5
  <2>3. QED
    BY <2>1, <2>2 DEF PermitsBalance, Holders
<1>17. Active(call') = Active(calls)
  BY <1>6, <1>10 DEF Active, Waiting, Owning
<1>18. QED
  BY <1>7, <1>8, <1>11, <1>12, <1>15, <1>16, <1>17 DEF CallsInv

\* A call that has its permit, or has none and does not wait, changes its state
\* and keeps what it has.
LEMMA KeepsItsPermit ==
    ASSUME RuntimeInv, NEW c \in Calls, NEW s \in CallStates \ {"waiting"},
           call[c] # "waiting", call[c] \in Owning <=> s \in Owning
    PROVE  /\ [call EXCEPT ![c] = s] \in [Calls -> CallStates]
           /\ LineExact([call EXCEPT ![c] = s])
           /\ Holders([call EXCEPT ![c] = s]) = Holders(call)
<1>1. call \in [Calls -> CallStates] /\ \A i \in DOMAIN line : line[i] \in Calls
  BY LenProperties, ElementOfSeq DEF RuntimeInv, TypeOK, CallStates
<1>2. LineExact(call)
  BY DEF RuntimeInv, CallsInv
<1>3. QED
  BY <1>1, <1>2 DEF LineExact, Holders

\* A call gives its permit back.
LEMMA ReturnsItsPermit ==
    ASSUME RuntimeAssumption, RuntimeInv,
           NEW c \in Calls, NEW s \in CallStates \ (Owning \cup {"waiting"}),
           call[c] \in Owning
    PROVE  /\ [call EXCEPT ![c] = s] \in [Calls -> CallStates]
           /\ LineExact([call EXCEPT ![c] = s])
           /\ IsFiniteSet(Holders([call EXCEPT ![c] = s]))
           /\ permits + 1 \in 0..Capacity
           /\ permits + 1 + Cardinality(Holders([call EXCEPT ![c] = s])) = Capacity
<1> DEFINE calls == [call EXCEPT ![c] = s]
<1>1. call \in [Calls -> CallStates] /\ \A i \in DOMAIN line : line[i] \in Calls
  BY LenProperties, ElementOfSeq DEF RuntimeInv, TypeOK, CallStates
<1>2. LineExact(call) /\ IsFiniteSet(Holders(call)) /\ permits \in 0..Capacity
  BY DEF RuntimeInv, CallsInv, TypeOK
<1>3. calls \in [Calls -> CallStates] /\ LineExact(calls)
  BY <1>1, <1>2 DEF LineExact, Owning
<1>4. c \in Holders(call) /\ Holders(calls) = Holders(call) \ {c}
  BY <1>1 DEF Holders
<1>5. /\ IsFiniteSet(Holders(calls))
      /\ Cardinality(Holders(calls)) = Cardinality(Holders(call)) - 1
  BY <1>2, <1>4, FS_RemoveElement
<1>6. permits + Cardinality(Holders(call)) = Capacity
  BY DEF RuntimeInv, CallsInv, PermitsBalance, Holders
<1> HIDE DEF calls
<1>7. Cardinality(Holders(calls)) \in Nat /\ Cardinality(Holders(call)) \in Nat
  BY <1>2, <1>5, FS_CardinalityType
<1>8. Capacity \in Nat
  BY DEF RuntimeAssumption
<1>9. permits + 1 \in 0..Capacity /\ permits + 1 + Cardinality(Holders(calls)) = Capacity
  BY <1>2, <1>5, <1>6, <1>7, <1>8
<1>10. QED
  BY <1>3, <1>5, <1>9 DEF calls

\* _sync_idle() computes the event from the probe in charge, which is the only one.
LEMMA SyncExact ==
    ASSUME RuntimeAssumption, OneProbe', current' \in Checkers \cup {NoProbe}, SyncIdle
    PROVE  IdleExact' /\ idle' \in BOOLEAN
<1>1. /\ idle' \in BOOLEAN
      /\ idle' <=> /\ Active(call') = {}
                   /\ current' # NoProbe => ~Alive(probe'[current'])
  BY DEF SyncIdle
<1>2. (current' # NoProbe => ~Alive(probe'[current'])) <=> \A p \in Checkers : ~Alive(probe'[p])
  BY DEF RuntimeAssumption, OneProbe
<1>3. QED
  BY <1>1, <1>2 DEF IdleExact

\* Steps of calls leave the health checks alone.
LEMMA CallsOnly ==
    ASSUME RuntimeAssumption, RuntimeInv,
           permits' \in 0..Capacity, line' \in Seq(Calls), call' \in [Calls -> CallStates],
           CallsInv', UNCHANGED <<phase, checkVars, probeVars>>,
           SyncIdle \/ (idle' = idle /\ Active(call') = Active(call)),
           phase = "closed" => Active(call') = {}
    PROVE  RuntimeInv'
<1>1. UNCHANGED <<phase, checker, joined, current, probe, retirement, cache>>
  BY DEF checkVars, probeVars
<1>2. ProbesInv'
  BY <1>1 DEF RuntimeInv, ProbesInv, OneProbe
<1>3. IdleExact' /\ idle' \in BOOLEAN
  <2>1. OneProbe' /\ current' \in Checkers \cup {NoProbe}
    BY <1>1, <1>2 DEF ProbesInv, RuntimeInv, TypeOK
  <2>2. CASE SyncIdle
    BY <2>1, <2>2, SyncExact
  <2>3. CASE idle' = idle /\ Active(call') = Active(call)
    BY <1>1, <2>3 DEF RuntimeInv, IdleExact, TypeOK
  <2>4. QED
    BY <2>2, <2>3
<1>4. TypeOK'
  BY <1>1, <1>3 DEF RuntimeInv, TypeOK, CallStates
<1>5. ClosedInv'
  BY <1>1 DEF RuntimeInv, ClosedInv
<1>6. QED
  BY <1>2, <1>3, <1>4, <1>5 DEF RuntimeInv

\* The end of an acquire() or of a call hands permits on and is then noticed by
\* _sync_idle().
LEMMA ServeSteps ==
    ASSUME RuntimeAssumption, RuntimeInv, phase # "closed",
           NEW n \in 0..Capacity, NEW most \in Nat, most = 0 => line = <<>>,
           NEW calls \in [Calls -> CallStates], LineExact(calls),
           IsFiniteSet(Holders(calls)), n + Cardinality(Holders(calls)) = Capacity,
           Serve(n, most, calls), UNCHANGED <<phase, checkVars, probeVars>>, SyncIdle
    PROVE  RuntimeInv'
<1>1. line \in Seq(Calls)
  BY DEF RuntimeInv, TypeOK
<1>2. /\ permits' \in 0..Capacity /\ line' \in Seq(Calls) /\ call' \in [Calls -> CallStates]
      /\ CallsInv'
  BY <1>1, ServeKeeps
<1>3. QED
  BY <1>2, CallsOnly

LEMMA CallStepKeeps ==
    ASSUME RuntimeAssumption, RuntimeInv, NEW c \in Calls, CallStep(c)
    PROVE  RuntimeInv'
<1>1. /\ call \in [Calls -> CallStates] /\ line \in Seq(Calls) /\ permits \in 0..Capacity
      /\ Capacity \in Nat \ {0}
  BY DEF RuntimeInv, TypeOK, CallStates, RuntimeAssumption
<1>2. /\ LineExact(call) /\ IsFiniteSet(Holders(call)) /\ Cardinality(Holders(call)) \in Nat
      /\ permits + Cardinality(Holders(call)) = Capacity
      /\ line # <<>> /\ permits > 0 => \E b \in Calls : call[b] \in {"granted", "returning"}
  BY FS_CardinalityType DEF RuntimeInv, CallsInv, PermitsBalance, Holders
<1>3. call[c] \in Waiting \cup Owning => phase # "closed"
  BY DEF RuntimeInv, ClosedInv, Active
<1>4. Len(line) \in Nat /\ (Len(line) = 0 => line = <<>>)
  BY <1>1, LenProperties, EmptySeq
<1>5. /\ "stopped" \in CallStates \ (Owning \cup {"waiting"})
      /\ "done" \in CallStates \ (Owning \cup {"waiting"})
      /\ "computing" \in (CallStates \ {"waiting"}) \cap Owning
  BY DEF CallStates, Owning, Over, Waiting
<1>6. CASE CallRefused(c)
  <2>1. /\ call' = [call EXCEPT ![c] = "stopped"] /\ call[c] = "new"
        /\ permits' = permits /\ line' = line
        /\ UNCHANGED <<phase, checkVars, probeVars>> /\ SyncIdle
    BY <1>6 DEF CallRefused
  <2>2. /\ call' \in [Calls -> CallStates] /\ LineExact(call') /\ Holders(call') = Holders(call)
    BY <1>5, <2>1, KeepsItsPermit DEF Owning
  <2>3. \A b \in Calls : call[b] \in {"granted", "returning"} => call'[b] = call[b]
    BY <1>1, <2>1
  <2>4. PermitsBalance'
    BY <1>2, <2>1, <2>2, <2>3 DEF PermitsBalance, Holders
  <2>5. CallsInv'
    BY <1>2, <2>1, <2>2, <2>4 DEF CallsInv, LineExact
  <2>6. Active(call') = Active(call)
    BY <1>1, <2>1 DEF Active, Waiting, Owning
  <2>7. QED
    BY <1>1, <2>1, <2>2, <2>5, <2>6, CallsOnly DEF RuntimeInv, ClosedInv
<1>7. CASE CallStarts(c)
  <2>1. /\ call' = [call EXCEPT ![c] = "computing"] /\ call[c] = "new"
        /\ permits' = permits - 1 /\ line' = line /\ phase # "closed" /\ ~Locked
        /\ UNCHANGED <<phase, checkVars, probeVars>> /\ SyncIdle
    BY <1>7 DEF CallStarts, MayCall
  <2>2. permits # 0 /\ \A b \in Calls : call[b] # "waiting"
    BY <2>1 DEF Locked
  <2>3. line = <<>>
    <3>1. SUFFICES ASSUME line # <<>> PROVE FALSE
      OBVIOUS
    <3>2. 1 \in DOMAIN line /\ line[1] \in Calls
      BY <1>1, <1>4, <3>1, LenProperties, ElementOfSeq
    <3>3. QED
      BY <1>2, <2>2, <3>2 DEF LineExact
  <2>4. /\ call' \in [Calls -> CallStates]
        /\ \A b \in Calls : call'[b] # "waiting"
    BY <1>1, <1>5, <2>1, <2>2
  <2>5. LineExact(call)'
    BY <1>4, <2>1, <2>3, <2>4 DEF LineExact
  <2>6. c \notin Holders(call) /\ Holders(call') = Holders(call) \cup {c}
    BY <1>1, <2>1 DEF Holders, Owning
  <2>7. /\ IsFiniteSet(Holders(call'))
        /\ Cardinality(Holders(call')) = Cardinality(Holders(call)) + 1
    BY <1>2, <2>6, FS_AddElement
  <2>8. permits' \in 0..Capacity /\ permits' + Cardinality(Holders(call')) = Capacity
    BY <1>1, <1>2, <2>1, <2>2, <2>7
  <2>9. CallsInv'
    BY <2>1, <2>3, <2>5, <2>7, <2>8 DEF CallsInv, PermitsBalance, Holders
  <2>10. QED
    BY <1>1, <2>1, <2>4, <2>8, <2>9, CallsOnly
<1>8. CASE CallWaits(c)
  <2>1. /\ call' = [call EXCEPT ![c] = "waiting"] /\ call[c] = "new" /\ Locked
        /\ permits' = permits /\ line' = Append(line, c) /\ phase # "closed"
        /\ UNCHANGED <<phase, checkVars, probeVars>> /\ SyncIdle
    BY <1>8 DEF CallWaits, MayCall
  <2>2. /\ line' \in Seq(Calls) /\ Len(line') = Len(line) + 1
        /\ \A i \in 1..Len(line) : line'[i] = line[i]
        /\ line'[Len(line) + 1] = c
    BY <1>1, <2>1, AppendProperties
  <2> DEFINE len == Len(line)
  <2>3. /\ len \in Nat /\ DOMAIN line = 1..len /\ DOMAIN line' = 1..(len + 1)
        /\ \A i \in 1..len : line[i] \in Calls
        /\ \A i \in 1..len : line'[i] = line[i]
        /\ line'[len + 1] = c
    BY <1>1, <1>4, <2>2, LenProperties, ElementOfSeq
  <2> HIDE DEF len
  <2>4. \A i \in 1..(len + 1) : i \in 1..len \/ i = len + 1
    BY <2>3
  <2>5. \A i \in 1..len : line[i] # c
    BY <1>2, <2>1, <2>3 DEF LineExact
  <2>6. LineExact(call)'
    <3>1. \A i \in 1..(len + 1) : call'[line'[i]] = "waiting"
      BY <1>1, <1>2, <2>1, <2>3, <2>4, <2>5 DEF LineExact
    <3>2. ASSUME NEW b \in Calls, call'[b] = "waiting" PROVE \E i \in 1..(len + 1) : line'[i] = b
      <4>1. CASE b = c
        BY <2>3, <4>1
      <4>2. CASE b # c
        <5>1. PICK i \in 1..len : line[i] = b
          BY <1>1, <1>2, <2>1, <2>3, <3>2, <4>2 DEF LineExact
        <5>2. i \in 1..(len + 1)
          BY <2>3
        <5>3. QED
          BY <2>3, <5>1, <5>2
      <4>3. QED
        BY <4>1, <4>2
    <3>3. \A i, k \in 1..(len + 1) : line'[i] = line'[k] => i = k
      BY <1>2, <2>3, <2>4, <2>5 DEF LineExact
    <3>4. QED
      BY <2>3, <3>1, <3>2, <3>3 DEF LineExact
  <2>7. call' \in [Calls -> CallStates] /\ Holders(call') = Holders(call)
    BY <1>1, <2>1 DEF CallStates, Holders, Waiting, Owning
  <2>8. ASSUME permits' > 0 PROVE \E b \in Calls : call'[b] \in {"granted", "returning"}
    <3>1. PICK b \in Calls : call[b] \in {"waiting", "granted", "returning"}
      BY <2>1, <2>8 DEF Locked
    <3>2. CASE call[b] = "waiting"
      <4>1. line # <<>>
        BY <1>2, <2>3, <3>2, EmptySeq DEF LineExact, len
      <4>2. PICK a \in Calls : call[a] \in {"granted", "returning"}
        BY <1>2, <2>1, <2>8, <4>1
      <4>3. QED
        BY <1>1, <2>1, <4>2
    <3>3. QED
      BY <1>1, <2>1, <3>1, <3>2
  <2>9. CallsInv'
    BY <1>2, <2>1, <2>6, <2>7, <2>8 DEF CallsInv, PermitsBalance, Holders
  <2>10. QED
    BY <1>1, <2>1, <2>2, <2>7, <2>9, CallsOnly
<1>9. CASE CallResumes(c)
  <2>1. /\ call[c] = "granted" /\ phase # "closed" /\ call[c] \in Owning
        /\ UNCHANGED <<phase, checkVars, probeVars>> /\ SyncIdle
    BY <1>3, <1>9 DEF CallResumes, Owning
  <2>2. CASE Closing
    <3>1. Serve(permits + 1, Len(line), [call EXCEPT ![c] = "stopped"])
      BY <1>9, <2>2 DEF CallResumes
    <3>2. QED
      BY <1>4, <1>5, <2>1, <3>1, ReturnsItsPermit, ServeSteps
  <2>3. CASE ~Closing
    <3>1. Serve(permits, Len(line), [call EXCEPT ![c] = "computing"])
      BY <1>9, <2>3 DEF CallResumes
    <3>2. /\ [call EXCEPT ![c] = "computing"] \in [Calls -> CallStates]
          /\ LineExact([call EXCEPT ![c] = "computing"])
          /\ Holders([call EXCEPT ![c] = "computing"]) = Holders(call)
      BY <1>5, <2>1, KeepsItsPermit
    <3>3. QED
      BY <1>1, <1>2, <1>4, <2>1, <3>1, <3>2, ServeSteps
  <2>4. QED
    BY <2>2, <2>3
<1>10. CASE CancelledLeaves(c)
  <2>1. /\ call[c] \in {"leaving", "returning"} /\ phase # "closed"
        /\ UNCHANGED <<phase, checkVars, probeVars>> /\ SyncIdle
    BY <1>3, <1>10 DEF CancelledLeaves, Waiting, Owning
  <2>2. CASE call[c] = "returning"
    <3>1. Serve(permits + 1, Len(line), [call EXCEPT ![c] = "stopped"]) /\ call[c] \in Owning
      BY <1>10, <2>2 DEF CancelledLeaves, Owning
    <3>2. QED
      BY <1>4, <1>5, <2>1, <3>1, ReturnsItsPermit, ServeSteps
  <2>3. CASE call[c] = "leaving"
    <3>1. Serve(permits, Len(line), [call EXCEPT ![c] = "stopped"]) /\ call[c] \notin Owning
      BY <1>10, <2>3 DEF CancelledLeaves, Owning
    <3>2. /\ [call EXCEPT ![c] = "stopped"] \in [Calls -> CallStates]
          /\ LineExact([call EXCEPT ![c] = "stopped"])
          /\ Holders([call EXCEPT ![c] = "stopped"]) = Holders(call)
      BY <1>5, <2>3, <3>1, KeepsItsPermit
    <3>3. QED
      BY <1>1, <1>2, <1>4, <2>1, <3>1, <3>2, ServeSteps
  <2>4. QED
    BY <2>1, <2>2, <2>3
<1>11. CASE CallEnds(c)
  <2>1. /\ call[c] \in {"computing", "cleaning"} /\ phase # "closed" /\ call[c] \in Owning
        /\ UNCHANGED <<phase, checkVars, probeVars>> /\ SyncIdle
    BY <1>3, <1>11 DEF CallEnds, Owning
  <2>2. PICK s \in {"done", "stopped"} : Serve(permits + 1, 1, [call EXCEPT ![c] = s])
    BY <1>1, <1>11 DEF CallEnds
  <2>3. s \in CallStates \ (Owning \cup {"waiting"})
    BY <1>5
  <2>4. QED
    BY <2>1, <2>2, <2>3, ReturnsItsPermit, ServeSteps
<1>12. CASE CancelCall(c)
  <2>1. /\ call[c] \in {"waiting", "granted", "computing"}
        /\ call' = [call EXCEPT ![c] = AfterCancel(call[c])]
        /\ line' = Without(c) /\ permits' = permits /\ idle' = idle /\ phase # "closed"
        /\ UNCHANGED <<phase, checkVars, probeVars>>
    BY <1>3, <1>12 DEF CancelCall, Waiting, Owning
  <2>2. \A i, k \in DOMAIN line : line[i] = line[k] => i = k
    BY <1>2 DEF LineExact
  <2>3. /\ line' \in Seq(Calls)
        /\ \A i \in DOMAIN line' : line'[i] # c /\ \E k \in DOMAIN line : line'[i] = line[k]
        /\ \A k \in DOMAIN line : line[k] # c => \E i \in DOMAIN line' : line'[i] = line[k]
        /\ \A i, k \in DOMAIN line' : line'[i] = line'[k] => i = k
    BY <1>1, <2>1, <2>2, WithoutExact
  <2>4. /\ call' \in [Calls -> CallStates] /\ Holders(call') = Holders(call)
        /\ Active(call') = Active(call) /\ call'[c] # "waiting"
        /\ \A b \in Calls : b # c => call'[b] = call[b]
        /\ call[c] = "granted" => call'[c] = "returning"
    BY <1>1, <2>1 DEF AfterCancel, CallStates, Holders, Active, Waiting, Owning
  <2>5. \A i \in DOMAIN line' : line'[i] \in Calls
    BY <2>3, LenProperties, ElementOfSeq
  <2>6. LineExact(call)'
    BY <1>2, <2>3, <2>4, <2>5 DEF LineExact
  <2>7. line' # <<>> => line # <<>>
    <3>1. SUFFICES ASSUME line' # <<>>, line = <<>> PROVE FALSE
      OBVIOUS
    <3>2. Len(line') \in Nat /\ DOMAIN line' = 1..Len(line') /\ Len(line') # 0
      BY <2>3, <3>1, LenProperties, EmptySeq
    <3>3. 1 \in DOMAIN line'
      BY <3>2
    <3>4. QED
      BY <2>3, <3>1, <3>3
  <2>8. \A b \in Calls : call[b] \in {"granted", "returning"}
                            => call'[b] \in {"granted", "returning"}
    BY <2>1, <2>4
  <2>9. PermitsBalance'
    BY <1>2, <2>1, <2>4, <2>7, <2>8 DEF PermitsBalance, Holders
  <2>10. CallsInv'
    BY <1>2, <2>4, <2>6, <2>9 DEF CallsInv
  <2>11. QED
    BY <1>1, <2>1, <2>3, <2>4, <2>10, CallsOnly
<1>13. QED
  BY <1>6, <1>7, <1>8, <1>9, <1>10, <1>11, <1>12 DEF CallStep

----------------------------------------------------------------------------
(* Health checks: one probe, shared while it lasts.                         *)

ProbeTypes ==
    /\ current \in Checkers \cup {NoProbe}
    /\ probe \in [Checkers -> {"none", "running", "cancelling", "done"}]
    /\ retirement \in [Checkers -> {"none", "pending", "done"}]
    /\ checker \in [Checkers -> {"new", "joined", "retrying", "finishing", "over"}]
    /\ joined \in [Checkers -> Checkers \cup {NoProbe}]
    /\ cache \in {"none", "fresh", "stale"}

\* Steps of health checks and of the probe leave the calls alone.
LEMMA ChecksOnly ==
    ASSUME RuntimeAssumption, RuntimeInv, UNCHANGED <<phase, callVars>>,
           ProbeTypes', ProbesInv',
           SyncIdle \/ (idle' = idle /\ \A p \in Checkers : Alive(probe'[p]) <=> Alive(probe[p])),
           phase = "closed" => current' = NoProbe /\ cache' = "none"
    PROVE  RuntimeInv'
<1>1. UNCHANGED <<phase, permits, line, call>>
  BY DEF callVars
<1>2. CallsInv'
  BY <1>1 DEF RuntimeInv, CallsInv, LineExact, PermitsBalance, Holders
<1>3. IdleExact' /\ idle' \in BOOLEAN
  <2>1. CASE SyncIdle
    BY <2>1, SyncExact DEF ProbesInv, ProbeTypes
  <2>2. CASE idle' = idle /\ \A p \in Checkers : Alive(probe'[p]) <=> Alive(probe[p])
    BY <1>1, <2>2 DEF RuntimeInv, IdleExact, Active, TypeOK
  <2>3. QED
    BY <2>1, <2>2
<1>4. TypeOK'
  BY <1>1, <1>3 DEF RuntimeInv, TypeOK, ProbeTypes
<1>5. ClosedInv'
  BY <1>1 DEF RuntimeInv, ClosedInv, Active
<1>6. QED
  BY <1>2, <1>3, <1>4, <1>5 DEF RuntimeInv

\* What the last waiter of a probe leaves behind.
LEMMA LeaveKeeps ==
    ASSUME RuntimeAssumption, RuntimeInv, NEW h \in Checkers, checker[h] = "joined",
           LeaveProbe(h), UNCHANGED <<phase, idle, callVars, joined, cache>>
    PROVE  /\ RuntimeInv'
           /\ CancelsUnwanted
           /\ \A b \in Checkers : checker'[b] = "joined" => checker[b] = "joined"
<1> DEFINE p == joined[h]
<1>1. ProbeTypes /\ ProbesInv /\ ClosedInv
  BY DEF RuntimeInv, TypeOK, ProbeTypes
<1>2. p \in Checkers /\ probe[p] # "none"
  BY <1>1 DEF ProbesInv
<1>3. /\ joined' = joined /\ cache' = cache /\ phase' = phase /\ idle' = idle
  OBVIOUS
<1>4. CASE WaitersOf(p) # {h}
  <2>1. checker' = [checker EXCEPT ![h] = "over"] /\ UNCHANGED <<current, probe, retirement>>
    BY <1>4 DEF LeaveProbe
  <2>2. ProbeTypes' /\ ProbesInv'
    BY <1>1, <1>3, <2>1 DEF ProbeTypes, ProbesInv, OneProbe
  <2>3. RuntimeInv'
    BY <1>1, <1>3, <2>1, <2>2, ChecksOnly DEF ClosedInv
  <2>4. QED
    BY <1>1, <2>1, <2>3 DEF CancelsUnwanted, ProbeTypes
<1>5. CASE WaitersOf(p) = {h}
  <2>1. /\ checker' = [checker EXCEPT ![h] = IF retirement'[p] = "pending"
                                             THEN "finishing" ELSE "over"]
        /\ current' = IF retirement'[p] = "none" /\ current = p THEN NoProbe ELSE current
    BY <1>5 DEF LeaveProbe
  <2>2. checker'[h] # "joined" /\ \A b \in Checkers : b # h => checker'[b] = checker[b]
    BY <1>1, <2>1 DEF ProbeTypes
  <2>3. WaitersOf(p)' = {}
    BY <1>3, <1>5, <2>2 DEF WaitersOf
  <2>4. CASE probe[p] = "done" \/ retirement[p] # "none"
    <3>1. UNCHANGED <<retirement, probe>>
      BY <1>5, <2>4 DEF LeaveProbe, BeginRetirement
    <3>2. retirement[p] = "none" => probe[p] = "done"
      BY <2>4
    <3>3. ProbeTypes' /\ ProbesInv'
      BY <1>1, <1>2, <1>3, <2>1, <3>1, <3>2 DEF ProbeTypes, ProbesInv, OneProbe, Alive
    <3>4. RuntimeInv'
      BY <1>1, <1>3, <2>1, <3>1, <3>3, ChecksOnly DEF ClosedInv
    <3>5. QED
      BY <2>2, <3>1, <3>4 DEF CancelsUnwanted
  <2>5. CASE probe[p] # "done" /\ retirement[p] = "none"
    <3>1. /\ retirement' = [retirement EXCEPT ![p] = "pending"]
          /\ probe' = [probe EXCEPT ![p] = IF @ = "running" THEN "cancelling" ELSE @]
      BY <1>5, <2>5 DEF LeaveProbe, BeginRetirement
    <3>2. probe[p] = "running" /\ current = p
      BY <1>1, <1>2, <2>5 DEF ProbesInv, OneProbe, Alive, ProbeTypes
    <3>3. probe' = [probe EXCEPT ![p] = "cancelling"] /\ current' = current
      BY <1>1, <1>2, <2>1, <3>1, <3>2 DEF ProbeTypes
    <3>4. ProbeTypes'
      BY <1>1, <1>2, <1>3, <2>1, <3>1, <3>3 DEF ProbeTypes
    <3>5. ProbesInv'
      BY <1>1, <1>2, <1>3, <2>1, <2>2, <3>1, <3>2, <3>3 DEF ProbeTypes, ProbesInv, OneProbe, Alive
    <3>6. \A b \in Checkers : Alive(probe'[b]) <=> Alive(probe[b])
      BY <1>1, <1>2, <3>2, <3>3 DEF ProbeTypes, Alive
    <3>7. phase = "closed" => current' = NoProbe /\ cache' = "none"
      BY <1>1, <1>3, <3>3 DEF ClosedInv
    <3>8. RuntimeInv'
      BY <1>3, <3>4, <3>5, <3>6, <3>7, ChecksOnly
    <3>9. CancelsUnwanted
      BY <1>1, <1>2, <2>3, <3>3 DEF CancelsUnwanted, ProbeTypes
    <3>10. QED
      BY <2>2, <3>8, <3>9
  <2>6. QED
    BY <2>4, <2>5
<1>6. QED
  BY <1>4, <1>5

LEMMA CheckStepKeeps ==
    ASSUME RuntimeAssumption, RuntimeInv, NEW h \in Checkers, CheckStep(h)
    PROVE  RuntimeInv' /\ JoinsRunning /\ CancelsUnwanted
<1>1. ProbeTypes /\ ProbesInv /\ ClosedInv /\ NoProbe \notin Checkers
  BY DEF RuntimeInv, TypeOK, ProbeTypes, RuntimeAssumption
<1>2. Asking(h) => checker[h] \in {"new", "retrying"}
  BY DEF Asking
<1>3. CASE CheckRefused(h) \/ CancelRetry(h) \/ CheckFinishes(h)
  <2>1. /\ checker' = [checker EXCEPT ![h] = "over"]
        /\ UNCHANGED <<phase, idle, callVars, joined, probeVars>>
    BY <1>3 DEF CheckRefused, CancelRetry, CheckFinishes
  <2>2. UNCHANGED <<current, probe, retirement, cache>>
    BY <2>1 DEF probeVars
  <2>3. ProbeTypes' /\ ProbesInv'
    BY <1>1, <2>1, <2>2 DEF ProbeTypes, ProbesInv, OneProbe
  <2>4. RuntimeInv'
    BY <1>1, <2>1, <2>2, <2>3, ChecksOnly DEF ClosedInv
  <2>5. QED
    BY <1>1, <2>1, <2>2, <2>4 DEF JoinsRunning, CancelsUnwanted, ProbeTypes
<1>4. CASE CheckRetries(h)
  <2>1. /\ checker' = [checker EXCEPT ![h] = "retrying"]
        /\ joined' = [joined EXCEPT ![h] = current]
        /\ checker[h] \in {"new", "retrying"}
        /\ UNCHANGED <<phase, idle, callVars, probeVars>>
    BY <1>2, <1>4 DEF CheckRetries
  <2>2. UNCHANGED <<current, probe, retirement, cache>>
    BY <2>1 DEF probeVars
  <2>3. ProbeTypes' /\ ProbesInv'
    BY <1>1, <2>1, <2>2 DEF ProbeTypes, ProbesInv, OneProbe
  <2>4. RuntimeInv'
    BY <1>1, <2>1, <2>2, <2>3, ChecksOnly DEF ClosedInv
  <2>5. QED
    BY <1>1, <2>1, <2>2, <2>4 DEF JoinsRunning, CancelsUnwanted, ProbeTypes
<1>5. CASE CheckCached(h)
  <2>1. /\ checker' = [checker EXCEPT ![h] = "over"] /\ current' = Kept /\ phase = "open"
        /\ UNCHANGED <<phase, idle, callVars, joined, probe, retirement, cache>>
    BY <1>5 DEF CheckCached
  <2>2. ProbeTypes' /\ ProbesInv'
    BY <1>1, <2>1 DEF ProbeTypes, ProbesInv, OneProbe, Kept, Alive
  <2>3. RuntimeInv'
    BY <2>1, <2>2, ChecksOnly
  <2>4. QED
    BY <1>1, <2>1, <2>3 DEF JoinsRunning, CancelsUnwanted, ProbeTypes
<1>6. CASE CheckJoins(h)
  <2>1. /\ checker' = [checker EXCEPT ![h] = "joined"]
        /\ joined' = [joined EXCEPT ![h] = current]
        /\ current # NoProbe /\ probe[current] # "done" /\ retirement[current] = "none"
        /\ phase = "open" /\ UNCHANGED <<phase, idle, callVars, probeVars>>
    BY <1>6 DEF CheckJoins, Kept, Retiring
  <2>2. UNCHANGED <<current, probe, retirement, cache>>
    BY <2>1 DEF probeVars
  <2>3. current \in Checkers /\ probe[current] = "running"
    BY <1>1, <2>1 DEF ProbeTypes, ProbesInv
  <2>4. ProbeTypes' /\ ProbesInv'
    BY <1>1, <2>1, <2>2, <2>3 DEF ProbeTypes, ProbesInv, OneProbe
  <2>5. RuntimeInv'
    BY <2>1, <2>2, <2>4, ChecksOnly
  <2>6. JoinsRunning
    BY <1>1, <2>1, <2>2, <2>3 DEF JoinsRunning, ProbeTypes
  <2>7. QED
    BY <1>1, <2>2, <2>5, <2>6 DEF CancelsUnwanted, ProbeTypes
<1>7. CASE CheckStarts(h)
  <2>1. /\ checker' = [checker EXCEPT ![h] = "joined"]
        /\ joined' = [joined EXCEPT ![h] = h]
        /\ probe' = [probe EXCEPT ![h] = "running"] /\ current' = h
        /\ current # NoProbe => probe[current] = "done"
        /\ phase = "open" /\ checker[h] \in {"new", "retrying"}
        /\ UNCHANGED <<phase, callVars, retirement, cache>> /\ SyncIdle
    BY <1>1, <1>2, <1>7 DEF CheckStarts, Kept, ProbeTypes
  <2>2. probe[h] = "none" /\ retirement[h] = "none" /\ \A p \in Checkers : ~Alive(probe[p])
    BY <1>1, <2>1 DEF ProbesInv, OneProbe, Alive
  <2>3. ProbeTypes'
    BY <1>1, <2>1 DEF ProbeTypes
  <2>4. ProbesInv'
    BY <1>1, <2>1, <2>2 DEF ProbeTypes, ProbesInv, OneProbe
  <2>5. RuntimeInv'
    BY <2>1, <2>3, <2>4, ChecksOnly
  <2>6. QED
    BY <1>1, <2>1, <2>2, <2>5 DEF JoinsRunning, CancelsUnwanted, ProbeTypes
<1>8. CASE CheckResumes(h) \/ CancelCheck(h)
  <2>1. /\ checker[h] = "joined" /\ LeaveProbe(h)
        /\ UNCHANGED <<phase, idle, callVars, joined, cache>>
    BY <1>8 DEF CheckResumes, CancelCheck
  <2>2. QED
    BY <2>1, LeaveKeeps DEF JoinsRunning
<1>9. QED
  BY <1>3, <1>4, <1>5, <1>6, <1>7, <1>8 DEF CheckStep, Ask

LEMMA ProbeStepKeeps ==
    ASSUME RuntimeAssumption, RuntimeInv, NEW p \in Checkers, ProbeStep(p)
    PROVE  RuntimeInv' /\ JoinsRunning /\ CancelsUnwanted
<1>1. ProbeTypes /\ ProbesInv /\ ClosedInv /\ NoProbe \notin Checkers
  BY DEF RuntimeInv, TypeOK, ProbeTypes, RuntimeAssumption
<1>2. UNCHANGED <<phase, callVars, checker, joined>> /\ SyncIdle
  BY DEF ProbeStep, ProbeAnswers, ProbeCancelled, Retire, checkVars
<1>3. JoinsRunning
  BY <1>2 DEF JoinsRunning
<1>4. CASE ProbeAnswers(p) \/ ProbeCancelled(p)
  <2>1. /\ probe' = [probe EXCEPT ![p] = "done"] /\ UNCHANGED <<current, retirement>>
        /\ cache' = cache \/ (cache' = "fresh" /\ phase # "closed")
        /\ probe[p] # "none"
    BY <1>4 DEF ProbeAnswers, ProbeCancelled, Closing
  <2>2. ProbeTypes' /\ ProbesInv'
    BY <1>1, <1>2, <2>1 DEF ProbeTypes, ProbesInv, OneProbe, Alive
  <2>3. RuntimeInv'
    BY <1>1, <1>2, <2>1, <2>2, ChecksOnly DEF ClosedInv
  <2>4. QED
    BY <1>1, <1>3, <2>1, <2>3 DEF CancelsUnwanted, ProbeTypes
<1>5. CASE Retire(p)
  <2>1. /\ retirement[p] = "pending" /\ probe[p] = "done"
        /\ retirement' = [retirement EXCEPT ![p] = "done"]
        /\ current' = IF current = p THEN NoProbe ELSE current
        /\ UNCHANGED <<probe, cache>>
    BY <1>5 DEF Retire
  <2>2. ProbeTypes' /\ ProbesInv'
    BY <1>1, <1>2, <2>1 DEF ProbeTypes, ProbesInv, OneProbe, Alive
  <2>3. RuntimeInv'
    BY <1>1, <1>2, <2>1, <2>2, ChecksOnly DEF ClosedInv
  <2>4. QED
    BY <1>1, <1>3, <2>1, <2>3 DEF CancelsUnwanted, ProbeTypes
<1>6. QED
  BY <1>4, <1>5 DEF ProbeStep

----------------------------------------------------------------------------
(* Shutdown.                                                               *)

\* What close() cancels: no call waits any more, and each keeps its permit.
LEMMA CloseCancelsKeeps ==
    ASSUME RuntimeAssumption, RuntimeInv, CloseCancels
    PROVE  RuntimeInv' /\ JoinsRunning /\ CancelsUnwanted
<1>1. ProbeTypes /\ ProbesInv /\ IdleExact /\ NoProbe \notin Checkers
  BY DEF RuntimeInv, TypeOK, ProbeTypes, RuntimeAssumption
<1>2. call \in [Calls -> CallStates]
  BY DEF RuntimeInv, TypeOK, CallStates
<1>3. /\ phase = "closing" /\ phase' = "cancelling" /\ line' = <<>>
      /\ call' = [c \in Calls |-> AfterCancel(call[c])]
      /\ IF current = NoProbe THEN UNCHANGED <<probe, retirement>> ELSE BeginRetirement(current)
      /\ permits' = permits /\ idle' = idle /\ current' = current /\ cache' = cache
      /\ checker' = checker /\ joined' = joined
  BY DEF CloseCancels, checkVars
<1>4. /\ call' \in [Calls -> CallStates] /\ Holders(call') = Holders(call)
      /\ Active(call') = Active(call) /\ \A c \in Calls : call'[c] # "waiting"
  BY <1>2, <1>3 DEF AfterCancel, CallStates, Holders, Active, Waiting, Owning, Over
<1>5. CallsInv'
  <2>1. IsFiniteSet(Holders(call')) /\ permits' + Cardinality(Holders(call')) = Capacity
    BY <1>3, <1>4 DEF RuntimeInv, CallsInv, PermitsBalance, Holders
  <2>2. PermitsBalance'
    BY <1>3, <2>1 DEF PermitsBalance, Holders
  <2>3. LineExact(call)'
    BY <1>3, <1>4 DEF LineExact
  <2>4. QED
    BY <2>1, <2>2, <2>3 DEF CallsInv
<1>6. /\ ProbeTypes' /\ ProbesInv'
      /\ \A p \in Checkers : Alive(probe'[p]) <=> Alive(probe[p])
  <2>1. CASE current = NoProbe \/ retirement[current] # "none"
    <3>1. UNCHANGED <<probe, retirement>>
      BY <1>3, <2>1 DEF BeginRetirement
    <3>2. current # NoProbe => retirement[current] = "pending"
      BY <1>1, <2>1 DEF ProbesInv, ProbeTypes
    <3>3. QED
      BY <1>1, <1>3, <3>1, <3>2 DEF ProbeTypes, ProbesInv, OneProbe
  <2>2. CASE current # NoProbe /\ retirement[current] = "none"
    <3>1. /\ retirement' = [retirement EXCEPT ![current] = "pending"]
          /\ probe' = [probe EXCEPT ![current] = IF @ = "running" THEN "cancelling" ELSE @]
          /\ current \in Checkers
      BY <1>1, <1>3, <2>2 DEF BeginRetirement, ProbeTypes
    <3>2. ProbeTypes' /\ \A p \in Checkers : Alive(probe'[p]) <=> Alive(probe[p])
      BY <1>1, <1>3, <3>1 DEF ProbeTypes, Alive
    <3>3. \A p \in Checkers : probe'[p] = "none" <=> probe[p] = "none"
      BY <1>1, <3>1 DEF ProbeTypes
    <3>4. ProbesInv'
      BY <1>1, <1>3, <3>1, <3>2, <3>3 DEF ProbeTypes, ProbesInv, OneProbe
    <3>5. QED
      BY <3>2, <3>4
  <2>3. QED
    BY <2>1, <2>2
<1>7. IdleExact' /\ TypeOK'
  BY <1>1, <1>3, <1>4, <1>6 DEF IdleExact, RuntimeInv, TypeOK, CallStates, ProbeTypes
<1>8. QED
  BY <1>3, <1>5, <1>6, <1>7 DEF RuntimeInv, ClosedInv, JoinsRunning, CancelsUnwanted

LEMMA PhasesKeep ==
    ASSUME RuntimeAssumption, RuntimeInv, BeginDrain \/ CloseBegins \/ CloseEnds \/ CacheExpires
    PROVE  RuntimeInv' /\ JoinsRunning /\ CancelsUnwanted
<1>1. /\ UNCHANGED <<idle, permits, line, call, checker, joined, current, probe, retirement>>
      /\ \/ phase' = phase /\ cache = "fresh" /\ cache' = "stale"
         \/ phase' \in {"draining", "closing"} /\ cache' = cache
         \/ /\ phase = "cancelling" /\ phase' = "closed" /\ cache' = "none"
            /\ Active(call) = {} /\ \A p \in Checkers : retirement[p] # "pending"
  BY DEF BeginDrain, CloseBegins, CloseEnds, CacheExpires, callVars, checkVars, probeVars
<1>2. TypeOK' /\ CallsInv' /\ IdleExact'
  BY <1>1 DEF RuntimeInv, TypeOK, CallsInv, LineExact, PermitsBalance, Holders, IdleExact, Active
<1>3. ProbesInv'
  BY <1>1 DEF RuntimeInv, ProbesInv, OneProbe
<1>4. phase = "cancelling" /\ phase' = "closed" => current = NoProbe
  BY <1>1 DEF RuntimeInv, ProbesInv, TypeOK
<1>5. ClosedInv'
  BY <1>1, <1>4 DEF RuntimeInv, ClosedInv, Active
<1>6. QED
  BY <1>1, <1>2, <1>3, <1>5 DEF RuntimeInv, JoinsRunning, CancelsUnwanted

----------------------------------------------------------------------------
(* The theorems.                                                           *)

LEMMA InitRuntime == ASSUME RuntimeAssumption, Init PROVE RuntimeInv
<1>1. /\ Holders(call) = {} /\ Active(call) = {} /\ \A h \in Checkers : ~Alive(probe[h])
      /\ permits = Capacity /\ line = <<>> /\ Capacity \in Nat
  BY DEF RuntimeAssumption, Init, Holders, Active, Owning, Waiting, Alive
<1>2. CallsInv
  <2>1. IsFiniteSet(Holders(call)) /\ Cardinality(Holders(call)) = 0
    BY <1>1, FS_EmptySet
  <2>2. permits + Cardinality(Holders(call)) = Capacity
    BY <1>1, <2>1
  <2>3. PermitsBalance
    BY <1>1, <2>2 DEF PermitsBalance, Holders
  <2>4. LineExact(call)
    BY <1>1 DEF Init, LineExact
  <2>5. QED
    BY <2>1, <2>3, <2>4 DEF CallsInv
<1>3. TypeOK
  BY <1>1 DEF RuntimeAssumption, Init, TypeOK
<1>4. ProbesInv /\ IdleExact /\ ClosedInv
  BY <1>1 DEF Init, ProbesInv, OneProbe, IdleExact, ClosedInv
<1>5. QED
  BY <1>2, <1>3, <1>4 DEF RuntimeInv

LEMMA StepRuntime ==
    ASSUME RuntimeAssumption, RuntimeInv, [Next]_vars
    PROVE  RuntimeInv' /\ JoinsRunning /\ CancelsUnwanted
<1>1. ASSUME NEW c \in Calls, CallStep(c) PROVE RuntimeInv' /\ JoinsRunning /\ CancelsUnwanted
  <2>1. UNCHANGED <<checkVars, probeVars>>
    BY <1>1 DEF CallStep, CallRefused, CallStarts, CallWaits, CallResumes, CancelCall,
                CancelledLeaves, CallEnds
  <2>2. JoinsRunning /\ CancelsUnwanted
    BY <2>1 DEF JoinsRunning, CancelsUnwanted, checkVars, probeVars
  <2>3. QED
    BY <1>1, <2>2, CallStepKeeps
<1>2. CASE UNCHANGED vars
  <2>1. UNCHANGED <<phase, idle, permits, line, call, checker, joined, current, probe, retirement, cache>>
    BY <1>2 DEF vars, callVars, checkVars, probeVars
  <2>2. TypeOK' /\ CallsInv' /\ IdleExact'
    BY <2>1 DEF RuntimeInv, TypeOK, CallsInv, LineExact, PermitsBalance, Holders, IdleExact, Active
  <2>3. ProbesInv' /\ ClosedInv'
    BY <2>1 DEF RuntimeInv, ProbesInv, OneProbe, ClosedInv, Active
  <2>4. QED
    BY <2>1, <2>2, <2>3 DEF RuntimeInv, JoinsRunning, CancelsUnwanted
<1>3. QED
  BY <1>1, <1>2, CheckStepKeeps, ProbeStepKeeps, CloseCancelsKeeps, PhasesKeep DEF Next

----------------------------------------------------------------------------
(* What a step does to each call and each probe; for those who compose the   *)
(* runtime with its callers.                                                *)

\* Handing permits on concerns only those who wait.
LEMMA ServeMoves ==
    ASSUME line \in Seq(Calls), NEW n \in Nat, NEW most \in Nat, NEW calls,
           \A i \in DOMAIN line : calls[line[i]] = "waiting",
           Serve(n, most, calls), NEW d \in Calls
    PROVE  call'[d] = calls[d] \/ (calls[d] = "waiting" /\ call'[d] = "granted")
<1> DEFINE len == Len(line)
           served == CHOOSE k \in {n, most, len} : \A l \in {n, most, len} : k <= l
<1>1. len \in Nat /\ DOMAIN line = 1..len
  BY LenProperties
<1>2. served \in Nat /\ served <= len
  <2>1. \E k \in {n, most, len} : \A l \in {n, most, len} : k <= l
    BY <1>1, Smallest
  <2>2. served \in {n, most, len} /\ \A l \in {n, most, len} : served <= l
    BY <2>1
  <2> HIDE DEF served, len
  <2>3. QED
    BY <1>1, <2>2
<1>3. call'[d] = IF \E i \in 1..served : line[i] = d THEN "granted" ELSE calls[d]
  BY DEF Serve
<1> HIDE DEF served, len
<1>4. 1..served \subseteq 1..len
  BY <1>1, <1>2
<1>5. QED
  BY <1>1, <1>3, <1>4

\* A call enters run_engine by its own step, while it may, and only a refusal
\* stops one that has not.
LEMMA CallStepMoves ==
    ASSUME RuntimeAssumption, RuntimeInv, NEW c \in Calls, CallStep(c), NEW d \in Calls
    PROVE  /\ d \in Active(call') => d \in Active(call) \/ (d = c /\ MayCall(c))
           /\ call[d] = "new" /\ call'[d] = "stopped" => d = c /\ CallRefused(c)
<1>1. /\ call \in [Calls -> CallStates] /\ line \in Seq(Calls) /\ permits \in Nat
      /\ \A i \in DOMAIN line : line[i] \in Calls /\ call[line[i]] = "waiting"
  <2>1. call \in [Calls -> CallStates] /\ line \in Seq(Calls) /\ permits \in 0..Capacity
    BY DEF RuntimeInv, TypeOK, CallStates
  <2>2. QED
    BY <2>1, LenProperties, ElementOfSeq DEF RuntimeInv, CallsInv, LineExact, RuntimeAssumption
<1>2. CASE CallRefused(c)
  <2>1. call' = [call EXCEPT ![c] = "stopped"]
    BY <1>2 DEF CallRefused
  <2>2. QED
    BY <1>1, <1>2, <2>1 DEF Active, Waiting, Owning
<1>3. CASE CallStarts(c) \/ CallWaits(c)
  <2>1. MayCall(c) /\ (\/ call' = [call EXCEPT ![c] = "computing"]
                       \/ call' = [call EXCEPT ![c] = "waiting"])
    BY <1>3 DEF CallStarts, CallWaits
  <2>2. QED
    BY <1>1, <2>1 DEF Active
<1>4. CASE CancelCall(c)
  <2>1. call' = [call EXCEPT ![c] = AfterCancel(@)] /\ call[c] \in {"waiting", "granted", "computing"}
    BY <1>4 DEF CancelCall
  <2>2. QED
    BY <1>1, <2>1 DEF Active, AfterCancel, Waiting, Owning
<1>5. CASE CallResumes(c) \/ CancelledLeaves(c) \/ CallEnds(c)
  <2>1. \E s \in {"stopped", "computing", "done"}, n \in {permits, permits + 1}, most \in {1, Len(line)} :
            Serve(n, most, [call EXCEPT ![c] = s])
    <3>1. CASE CallResumes(c)
      BY <3>1 DEF CallResumes
    <3>2. CASE CancelledLeaves(c)
      BY <3>2 DEF CancelledLeaves
    <3>3. CASE CallEnds(c)
      <4>1. Serve(permits + 1, 1, [call EXCEPT ![c] = IF call[c] = "computing" THEN "done" ELSE "stopped"])
        BY <3>3 DEF CallEnds
      <4>2. QED
        BY <4>1
    <3>4. QED
      BY <1>5, <3>1, <3>2, <3>3
  <2>2. call[c] \in {"granted", "leaving", "returning", "computing", "cleaning"}
    BY <1>5 DEF CallResumes, CancelledLeaves, CallEnds
  <2>3. PICK s \in {"stopped", "computing", "done"}, n \in {permits, permits + 1}, most \in {1, Len(line)} :
            Serve(n, most, [call EXCEPT ![c] = s])
    BY <2>1
  <2> DEFINE calls == [call EXCEPT ![c] = s]
  <2>4. \A i \in DOMAIN line : calls[line[i]] = "waiting"
    BY <1>1, <2>2
  <2>5. n \in Nat /\ most \in Nat
    BY <1>1, LenProperties
  <2>6. Serve(n, most, calls)
    BY <2>3
  <2> HIDE DEF calls
  <2>7. call'[d] = calls[d] \/ (calls[d] = "waiting" /\ call'[d] = "granted")
    BY <1>1, <2>4, <2>5, <2>6, ServeMoves
  <2>8. calls[d] = IF d = c THEN s ELSE call[d]
    BY <1>1 DEF calls
  <2>9. QED
    BY <1>1, <2>2, <2>7, <2>8 DEF Active, Waiting, Owning
<1>6. QED
  BY <1>2, <1>3, <1>4, <1>5 DEF CallStep

\* A probe is started only by an open runtime.
LEMMA ProbeMoves ==
    ASSUME RuntimeAssumption, RuntimeInv, NEW h \in Checkers, NEW p \in Checkers,
           CheckStep(h) \/ ProbeStep(h) \/ CacheExpires
    PROVE  /\ UNCHANGED <<phase, callVars>>
           /\ Alive(probe'[p]) => Alive(probe[p]) \/ phase = "open"
<1>1. /\ probe \in [Checkers -> {"none", "running", "cancelling", "done"}]
      /\ joined \in [Checkers -> Checkers \cup {NoProbe}]
      /\ checker[h] = "joined" => joined[h] \in Checkers
  BY DEF RuntimeInv, TypeOK, ProbesInv
<1>2. CASE Ask(h) \/ CheckFinishes(h) \/ CancelRetry(h) \/ CacheExpires
  BY <1>2, <1>1 DEF Ask, CheckRefused, CheckRetries, CheckCached, CheckJoins, CheckStarts,
                    CheckFinishes, CancelRetry, CacheExpires, probeVars, Alive
<1>3. CASE CheckResumes(h) \/ CancelCheck(h)
  <2>1. UNCHANGED <<phase, callVars>> /\ LeaveProbe(h) /\ joined[h] \in Checkers
    BY <1>1, <1>3 DEF CheckResumes, CancelCheck
  <2>2. \/ probe' = probe
        \/ probe' = [probe EXCEPT ![joined[h]] = IF @ = "running" THEN "cancelling" ELSE @]
    BY <2>1 DEF LeaveProbe, BeginRetirement
  <2>3. QED
    BY <1>1, <2>1, <2>2 DEF Alive
<1>4. CASE ProbeStep(h)
  BY <1>4, <1>1 DEF ProbeStep, ProbeAnswers, ProbeCancelled, Retire, Alive
<1>5. QED
  BY <1>2, <1>3, <1>4 DEF CheckStep

----------------------------------------------------------------------------
(* The theorems.                                                           *)

\* When everybody has left, the permits are back and nobody is in the line.
LEMMA RuntimeInvConsistent ==
    ASSUME RuntimeAssumption, RuntimeInv
    PROVE  PermitsConsistent
<1>1. TypeOK /\ PermitsBalance /\ IdleExact /\ LineExact(call)
  BY DEF RuntimeInv, CallsInv
<1>2. ASSUME phase = "closed" PROVE permits = Capacity /\ line = <<>>
  <2>1. Active(call) = {}
    BY <1>2 DEF RuntimeInv, ClosedInv
  <2>2. Holders(call) = {} /\ \A c \in Calls : call[c] # "waiting"
    BY <2>1 DEF Active, Holders, Waiting
  <2>3. permits = Capacity
    <3>1. Cardinality(Holders(call)) = 0
      BY <2>2, FS_EmptySet
    <3>2. permits + Cardinality(Holders(call)) = Capacity
      BY <1>1 DEF PermitsBalance, Holders
    <3>3. permits \in Nat
      BY <1>1 DEF TypeOK, RuntimeAssumption
    <3>4. QED
      BY <3>1, <3>2, <3>3
  <2>4. line \in Seq(Calls)
    BY <1>1 DEF TypeOK
  <2>5. SUFFICES ASSUME line # <<>> PROVE FALSE
    BY <2>3
  <2>6. Len(line) \in Nat /\ DOMAIN line = 1..Len(line) /\ Len(line) # 0
    BY <2>4, <2>5, LenProperties, EmptySeq
  <2>7. 1 \in DOMAIN line /\ line[1] \in Calls
    BY <2>4, <2>6, ElementOfSeq
  <2>8. QED
    BY <1>1, <2>2, <2>7 DEF LineExact
<1>3. ClosedQuiet
  BY <1>2 DEF ClosedQuiet, RuntimeInv, ClosedInv, ProbesInv, OneProbe, RuntimeAssumption
<1>4. QED
  BY <1>1, <1>3 DEF PermitsConsistent

\* Whatever the calls, the checks and close() do and in whatever order, the
\* semaphore's permits and the calls that own one add up, a free permit next to a
\* waiter is on its way, the drain's event is set exactly when nothing is left, and
\* a closed runtime has everything back.
THEOREM PermitsAlwaysConsistent == Spec => []PermitsConsistent
<1>1. Init => RuntimeInv
  BY RuntimeAssumption, InitRuntime
<1>2. RuntimeInv /\ [Next]_vars => RuntimeInv'
  BY RuntimeAssumption, StepRuntime
<1>3. RuntimeInv => PermitsConsistent
  BY RuntimeAssumption, RuntimeInvConsistent
<1>4. QED
  BY <1>1, <1>2, <1>3, PTL DEF Spec

\* At most one probe is alive, nobody joins one that has ended, and nobody's probe
\* is cancelled while others still wait for it, unless the runtime closes.
THEOREM ProbeIsShared == Spec => ProbeShared
<1>1. Init => RuntimeInv
  BY RuntimeAssumption, InitRuntime
<1>2. RuntimeInv /\ [Next]_vars => RuntimeInv' /\ [OneProbe' /\ JoinsRunning /\ CancelsUnwanted]_vars
  BY RuntimeAssumption, StepRuntime DEF RuntimeInv, ProbesInv
<1>3. QED
  BY <1>1, <1>2, PTL DEF Spec, ProbeShared

----------------------------------------------------------------------------
(* The inductive invariant of the subprocess transport.                    *)

Outcomes == {"none", "ok", "rejected", "failed", "error", "cancelled"}

ProcessStates ==
    [check : BOOLEAN,
     pc : {"new", "starting", "talking", "cleaning", "returned"},
     startup : {"none", "spawning", "forked", "handed", "failed"},
     child : {"none", "running", "zombie", "reaped"},
     said : {"nothing", "result", "rejection", "result and failure", "garbage"},
     communication : {"none", "reading", "done", "broken"},
     readers : {0, 1},
     cleanup : {"none", "awaiting startup", "killing", "draining", "done"},
     cancels : Nat,
     outcome : Outcomes]

\* There is a child from the fork on, one reader from the handover on at most, and a
\* cleanup that is over has seen the startup fail or the child reaped.
ChildAccounted(p) ==
    /\ p.child = "none" <=> p.startup \in {"none", "spawning", "failed"}
    /\ p.readers = IF p.communication = "reading" THEN 1 ELSE 0
    /\ p.communication = "done" => p.child = "reaped"
    /\ p.communication # "none" => p.startup = "handed"
    /\ p.pc = "new" => p.startup = "none" /\ p.cleanup = "none"
    /\ p.pc = "starting" => p.startup # "none" /\ p.communication = "none" /\ p.cleanup = "none"
    /\ p.pc = "talking" => p.startup = "handed" /\ p.cleanup = "none"
    /\ p.pc = "returned" => p.cleanup \in {"none", "done"} /\ p.startup \in {"none", "handed", "failed"}
                                                           /\ p.child \in {"none", "reaped"}
    /\ p.cleanup = "awaiting startup" => p.communication = "none" /\ p.startup # "none"
    /\ p.cleanup \in {"killing", "draining"} => p.startup = "handed"
    /\ p.cleanup = "done" => p.startup \in {"handed", "failed"} /\ p.child \in {"none", "reaped"}

ProcessInv ==
    /\ process \in [Invocations -> ProcessStates]
    /\ \A i \in Invocations : ChildAccounted(process[i])

----------------------------------------------------------------------------
(* The inductive invariant of the compute service and its clients.         *)

HandlerStates ==
    [pc : {"gone", "admission", "load", "acquire", "recheck", "working", "reply", "replied"},
     seen : Nat, permit : BOOLEAN, ok : BOOLEAN, graph : Graphs \cup {None}]

ServiceStates ==
    [phase : {"off", "up", "draining", "cutting"}, loaded : Graphs \cup {None}, active : Nat]

RpcTypes ==
    /\ artifact \in Graphs \cup {None, Torn}
    /\ companion \in Graphs \cup {None}
    /\ exporter \in Graphs \cup {None}
    /\ service \in ServiceStates
    /\ handler \in [RpcCalls -> HandlerStates]
    /\ app \in [phase : {"down", "artifact", "companion", "health", "up"},
                wanted : Graphs \cup {None}, network : Graphs \cup {None},
                defaults : Graphs \cup {None}]
    /\ rpc \in [RpcCalls -> [pc : {"new", "sent", "over"}, graph : Graphs \cup {None},
                             prepared : SUBSET (Graphs \cup {None}),
                             outcome : {"none", "ok", "failed"}, answer : Graphs \cup {None}]]

PermitHolders(handlers) == {c \in RpcCalls : handlers[c].permit}

\* A permit belongs to a handler behind the gate, and there is no handler without a
\* service or a request.
GateInv ==
    /\ IsFiniteSet(PermitHolders(handler))
    /\ GateExact
    /\ \A c \in RpcCalls :
          /\ handler[c].permit => handler[c].pc \in {"recheck", "working", "reply"}
          /\ rpc[c].pc = "new" \/ service.phase = "off" => handler[c].pc = "gone"

\* An application that serves has prepared the graph it is configured with, and so
\* have its requests been.
PreparedInv ==
    /\ app.phase \in {"companion", "health", "up"} => app.network = app.wanted
    /\ app.phase \in {"health", "up"} => app.defaults = app.wanted
    /\ \A c \in RpcCalls :
          rpc[c].pc = "sent" /\ rpc[c].graph # None => rpc[c].prepared = {rpc[c].graph}
    /\ AnswersPrepared

RpcInv == RpcTypes /\ GateInv /\ PreparedInv

----------------------------------------------------------------------------
(* The subprocess transport.                                               *)

LEMMA ProcessStarts == ASSUME ProcessInit PROVE ProcessInv
<1>1. NewProcess \in ProcessStates /\ ChildAccounted(NewProcess)
  BY DEF NewProcess, ProcessStates, Outcomes, ChildAccounted
<1>2. QED
  BY <1>1 DEF ProcessInit, ProcessInv

\* An invocation goes to a state in which its child is accounted for.
LEMMA BecomingKeeps ==
    ASSUME ProcessInv, NEW i \in Invocations, NEW next \in ProcessStates,
           ChildAccounted(next), Becomes(i, next)
    PROVE  ProcessInv'
BY DEF ProcessInv, Becomes

\* What the operating system does with a child and its pipes.
LEMMA SystemKeeps ==
    ASSUME ProcessInv, NEW i \in Invocations,
           Forks(i) \/ HandedOver(i) \/ ChildExits(i) \/ Reaped(i) \/ Drained(i) \/ PipeBreaks(i)
    PROVE  ProcessInv'
<1>1. process[i] \in ProcessStates /\ ChildAccounted(process[i])
  BY DEF ProcessInv
<1>2. CASE Forks(i)
  <2>1. CASE Becomes(i, [process[i] EXCEPT !.startup = "forked", !.child = "running"])
    <3> DEFINE next == [process[i] EXCEPT !.startup = "forked", !.child = "running"]
    <3>1. Becomes(i, next) /\ process[i].startup = "spawning"
      BY <1>2, <2>1 DEF Forks
    <3>2. next \in ProcessStates
      BY <1>1, ZenonT(60) DEF ProcessStates
    <3>3. /\ next.pc = process[i].pc /\ next.startup = "forked"
          /\ next.child = "running" /\ next.communication = process[i].communication
          /\ next.readers = process[i].readers /\ next.cleanup = process[i].cleanup
      BY <1>1 DEF ProcessStates
    <3> HIDE DEF next
    <3>4. ChildAccounted(next)
      BY <1>1, <3>1, <2>1, <3>3 DEF ChildAccounted
    <3>5. QED
      BY <3>1, <3>2, <3>4, BecomingKeeps
  <2>2. CASE Becomes(i, [process[i] EXCEPT !.startup = "failed"])
    <3> DEFINE next == [process[i] EXCEPT !.startup = "failed"]
    <3>1. Becomes(i, next) /\ process[i].startup = "spawning"
      BY <1>2, <2>2 DEF Forks
    <3>2. next \in ProcessStates
      BY <1>1, ZenonT(60) DEF ProcessStates, Outcomes
    <3>3. /\ next.pc = process[i].pc /\ next.startup = "failed"
          /\ next.child = process[i].child /\ next.communication = process[i].communication
          /\ next.readers = process[i].readers /\ next.cleanup = process[i].cleanup
      BY <1>1 DEF ProcessStates
    <3> HIDE DEF next
    <3>4. ChildAccounted(next)
      BY <1>1, <3>1, <2>2, <3>3 DEF ChildAccounted
    <3>5. QED
      BY <3>1, <3>2, <3>4, BecomingKeeps
  <2>3. QED
    BY <1>2, <2>1, <2>2 DEF Forks
<1>3. CASE HandedOver(i)
  <2> DEFINE next == [process[i] EXCEPT !.startup = "handed"]
  <2>1. Becomes(i, next) /\ process[i].startup = "forked"
    BY <1>3 DEF HandedOver
  <2>2. next \in ProcessStates
    BY <1>1, ZenonT(60) DEF ProcessStates
  <2>3. /\ next.pc = process[i].pc /\ next.startup = "handed"
        /\ next.child = process[i].child /\ next.communication = process[i].communication
        /\ next.readers = process[i].readers /\ next.cleanup = process[i].cleanup
    BY <1>1 DEF ProcessStates
  <2> HIDE DEF next
  <2>4. ChildAccounted(next)
    BY <1>1, <2>1, <2>3 DEF ChildAccounted
  <2>5. QED
    BY <2>1, <2>2, <2>4, BecomingKeeps
<1>4. CASE ChildExits(i)
  <2>1. PICK said \in {"result", "rejection", "result and failure", "garbage"} :
           Becomes(i, [process[i] EXCEPT !.child = "zombie", !.said = said]) /\ process[i].child = "running"
    BY <1>4 DEF ChildExits
  <2> DEFINE next == [process[i] EXCEPT !.child = "zombie", !.said = said]
  <2>2. next \in ProcessStates
    BY <1>1, <2>1, ZenonT(60) DEF ProcessStates
  <2>3. /\ next.pc = process[i].pc /\ next.startup = process[i].startup
        /\ next.child = "zombie" /\ next.communication = process[i].communication
        /\ next.readers = process[i].readers /\ next.cleanup = process[i].cleanup
    BY <1>1 DEF ProcessStates
  <2>4. Becomes(i, next) /\ process[i].child = "running"
    BY <2>1
  <2> HIDE DEF next
  <2>5. ChildAccounted(next)
    BY <1>1, <2>4, <2>3 DEF ChildAccounted
  <2>6. QED
    BY <2>4, <2>2, <2>5, BecomingKeeps
<1>5. CASE Reaped(i)
  <2> DEFINE next == [process[i] EXCEPT !.child = "reaped"]
  <2>1. Becomes(i, next) /\ process[i].child = "zombie"
    BY <1>5 DEF Reaped
  <2>2. next \in ProcessStates
    BY <1>1, ZenonT(60) DEF ProcessStates
  <2>3. /\ next.pc = process[i].pc /\ next.startup = process[i].startup
        /\ next.child = "reaped" /\ next.communication = process[i].communication
        /\ next.readers = process[i].readers /\ next.cleanup = process[i].cleanup
    BY <1>1 DEF ProcessStates
  <2> HIDE DEF next
  <2>4. ChildAccounted(next)
    BY <1>1, <2>1, <2>3 DEF ChildAccounted
  <2>5. QED
    BY <2>1, <2>2, <2>4, BecomingKeeps
<1>6. CASE Drained(i)
  <2> DEFINE next == [process[i] EXCEPT !.communication = "done", !.readers = 0]
  <2>1. Becomes(i, next) /\ process[i].communication = "reading" /\ process[i].child = "reaped"
    BY <1>6 DEF Drained
  <2>2. next \in ProcessStates
    BY <1>1, ZenonT(60) DEF ProcessStates
  <2>3. /\ next.pc = process[i].pc /\ next.startup = process[i].startup
        /\ next.child = process[i].child /\ next.communication = "done"
        /\ next.readers = 0 /\ next.cleanup = process[i].cleanup
    BY <1>1 DEF ProcessStates
  <2> HIDE DEF next
  <2>4. ChildAccounted(next)
    BY <1>1, <2>1, <2>3 DEF ChildAccounted
  <2>5. QED
    BY <2>1, <2>2, <2>4, BecomingKeeps
<1>7. CASE PipeBreaks(i)
  <2> DEFINE next == [process[i] EXCEPT !.communication = "broken", !.readers = @ - 1]
  <2>1. Becomes(i, next) /\ process[i].communication = "reading"
    BY <1>7 DEF PipeBreaks
  <2>2. process[i].readers = 1
    BY <1>1, <2>1 DEF ChildAccounted
  <2>3. process[i].readers = 1 /\ process[i].readers - 1 = 0
    BY <2>2
  <2>4. next \in ProcessStates
    BY <1>1, <2>3, ZenonT(60) DEF ProcessStates
  <2>5. /\ next.pc = process[i].pc /\ next.startup = process[i].startup
        /\ next.child = process[i].child /\ next.communication = "broken"
        /\ next.readers = 0 /\ next.cleanup = process[i].cleanup
    BY <1>1, <2>3 DEF ProcessStates
  <2> HIDE DEF next
  <2>6. ChildAccounted(next)
    BY <1>1, <2>1, <2>5 DEF ChildAccounted
  <2>7. QED
    BY <2>1, <2>4, <2>6, BecomingKeeps
<1>8. QED
  BY <1>2, <1>3, <1>4, <1>5, <1>6, <1>7

\* What the invocation does, or a cancellation does to it.
LEMMA InvocationKeeps ==
    ASSUME ProcessInv, NEW i \in Invocations,
           Starts(i) \/ StartSettles(i) \/ Answered(i) \/ GivesUp(i) \/ Cancelled(i)
    PROVE  ProcessInv'
<1>1. process[i] \in ProcessStates /\ ChildAccounted(process[i])
  BY DEF ProcessInv
<1>2. CASE Starts(i)
  <2>1. CASE process[i].pc = "new" /\ Returns(i, "failed")
    <3> DEFINE next == [process[i] EXCEPT !.pc = "returned", !.outcome = "failed"]
    <3>1. Becomes(i, next) /\ process[i].pc = "new"
      BY <1>2, <2>1 DEF Starts, Returns
    <3>2. next \in ProcessStates
      BY <1>1, ZenonT(60) DEF ProcessStates, Outcomes
    <3>3. /\ next.pc = "returned" /\ next.startup = process[i].startup
          /\ next.child = process[i].child /\ next.communication = process[i].communication
          /\ next.readers = process[i].readers /\ next.cleanup = process[i].cleanup
      BY <1>1 DEF ProcessStates
    <3> HIDE DEF next
    <3>4. ChildAccounted(next)
      BY <1>1, <3>1, <2>1, <3>3 DEF ChildAccounted
    <3>5. QED
      BY <3>1, <3>2, <3>4, BecomingKeeps
  <2>2. CASE process[i].pc = "new" /\ ~Returns(i, "failed")
    <3>1. PICK check \in BOOLEAN :
             Becomes(i, [process[i] EXCEPT !.pc = "starting", !.startup = "spawning", !.check = check]) /\ process[i].pc = "new"
      BY <1>2, <2>2 DEF Starts
    <3> DEFINE next == [process[i] EXCEPT !.pc = "starting", !.startup = "spawning",
                                         !.check = check]
    <3>2. next \in ProcessStates
      BY <1>1, <3>1, ZenonT(60) DEF ProcessStates
    <3>3. /\ next.pc = "starting" /\ next.startup = "spawning"
          /\ next.child = process[i].child /\ next.communication = process[i].communication
          /\ next.readers = process[i].readers /\ next.cleanup = process[i].cleanup
      BY <1>1 DEF ProcessStates
    <3>4. Becomes(i, next) /\ process[i].pc = "new"
      BY <3>1
    <3> HIDE DEF next
    <3>5. ChildAccounted(next)
      BY <1>1, <3>4, <2>2, <3>3 DEF ChildAccounted
    <3>6. QED
      BY <3>4, <3>2, <3>5, BecomingKeeps
  <2>3. QED
    BY <1>2, <2>1, <2>2 DEF Starts
<1>3. CASE StartSettles(i)
  <2>1. CASE process[i].startup = "handed"
    <3> DEFINE next == [Reading(i) EXCEPT !.pc = "talking"]
    <3>1. Becomes(i, next) /\ process[i].pc = "starting"
      BY <1>3, <2>1 DEF StartSettles, Reading
    <3>2. process[i].readers = 0
      BY <1>1, <3>1 DEF ChildAccounted
    <3>3. process[i].readers = 0 /\ process[i].readers + 1 = 1
      BY <3>2
    <3>4. next \in ProcessStates
      BY <1>1, <3>3, ZenonT(60) DEF ProcessStates, Reading
    <3>5. /\ next.pc = "talking" /\ next.startup = process[i].startup
          /\ next.child = process[i].child /\ next.communication = "reading"
          /\ next.readers = 1 /\ next.cleanup = process[i].cleanup
      BY <1>1, <3>3 DEF ProcessStates, Reading
    <3> HIDE DEF next
    <3>6. ChildAccounted(next)
      BY <1>1, <3>1, <2>1, <3>5 DEF ChildAccounted
    <3>7. QED
      BY <3>1, <3>4, <3>6, BecomingKeeps
  <2>2. CASE process[i].startup = "failed"
    <3> DEFINE next == [process[i] EXCEPT !.pc = "returned", !.outcome = Failure(i)]
    <3>1. Becomes(i, next) /\ process[i].pc = "starting"
      BY <1>3, <2>2 DEF StartSettles, Returns, Failure
    <3>2. Failure(i) \in Outcomes
      BY DEF Failure, Outcomes
    <3>3. next \in ProcessStates
      BY <1>1, <3>2, ZenonT(60) DEF ProcessStates
    <3>4. /\ next.pc = "returned" /\ next.startup = process[i].startup
          /\ next.child = process[i].child /\ next.communication = process[i].communication
          /\ next.readers = process[i].readers /\ next.cleanup = process[i].cleanup
      BY <1>1 DEF ProcessStates
    <3> HIDE DEF next
    <3>5. ChildAccounted(next)
      BY <1>1, <3>1, <2>2, <3>4 DEF ChildAccounted
    <3>6. QED
      BY <3>1, <3>3, <3>5, BecomingKeeps
  <2>3. QED
    BY <1>3, <2>1, <2>2 DEF StartSettles
<1>4. CASE Answered(i)
  <2> DEFINE next == [process[i] EXCEPT !.pc = "returned", !.outcome = Decoded(i)]
  <2>1. Becomes(i, next) /\ process[i].pc = "talking" /\ process[i].communication = "done"
    BY <1>4 DEF Answered, Returns, Decoded, Failure
  <2>2. Decoded(i) \in Outcomes
    BY DEF Decoded, Failure, Outcomes
  <2>3. next \in ProcessStates
    BY <1>1, <2>2, ZenonT(60) DEF ProcessStates
  <2>4. /\ next.pc = "returned" /\ next.startup = process[i].startup
        /\ next.child = process[i].child /\ next.communication = process[i].communication
        /\ next.readers = process[i].readers /\ next.cleanup = process[i].cleanup
    BY <1>1 DEF ProcessStates
  <2> HIDE DEF next
  <2>5. ChildAccounted(next)
    BY <1>1, <2>1, <2>4 DEF ChildAccounted
  <2>6. QED
    BY <2>1, <2>3, <2>5, BecomingKeeps
<1>5. CASE GivesUp(i)
  <2> DEFINE next == [process[i] EXCEPT !.pc = "cleaning", !.cleanup = "killing",
                                       !.outcome = Failure(i)]
  <2>1. Becomes(i, next) /\ process[i].pc = "talking"
    BY <1>5 DEF GivesUp, Failure
  <2>2. Failure(i) \in Outcomes
    BY DEF Failure, Outcomes
  <2>3. next \in ProcessStates
    BY <1>1, <2>2, ZenonT(60) DEF ProcessStates
  <2>4. /\ next.pc = "cleaning" /\ next.startup = process[i].startup
        /\ next.child = process[i].child /\ next.communication = process[i].communication
        /\ next.readers = process[i].readers /\ next.cleanup = "killing"
    BY <1>1 DEF ProcessStates
  <2> HIDE DEF next
  <2>5. ChildAccounted(next)
    BY <1>1, <2>1, <2>4 DEF ChildAccounted
  <2>6. QED
    BY <2>1, <2>3, <2>5, BecomingKeeps
<1>6. CASE Cancelled(i)
  <2>1. CASE CancelStart(i)
    <3> DEFINE next == [process[i] EXCEPT !.pc = "cleaning", !.cleanup = "awaiting startup",
                                         !.cancels = @ + 1, !.outcome = "cancelled"]
    <3>1. Becomes(i, next) /\ process[i].pc = "starting"
      BY <1>6, <2>1 DEF Cancelled, CancelStart
    <3>2. process[i].cancels \in Nat
      BY <1>1 DEF ProcessStates
    <3>3. process[i].cancels + 1 \in Nat
      BY <3>2
    <3>4. "cancelled" \in Outcomes
      BY DEF Outcomes
    <3>5. next \in ProcessStates
      BY <1>1, <3>3, <3>4, ZenonT(60) DEF ProcessStates
    <3>6. /\ next.pc = "cleaning" /\ next.startup = process[i].startup
          /\ next.child = process[i].child /\ next.communication = process[i].communication
          /\ next.readers = process[i].readers /\ next.cleanup = "awaiting startup"
      BY <1>1 DEF ProcessStates
    <3> HIDE DEF next
    <3>7. ChildAccounted(next)
      BY <1>1, <3>1, <2>1, <3>6 DEF ChildAccounted
    <3>8. QED
      BY <3>1, <3>5, <3>7, BecomingKeeps
  <2>2. CASE CancelTalk(i)
    <3> DEFINE next == [process[i] EXCEPT !.pc = "cleaning", !.cleanup = "killing",
                                         !.cancels = @ + 1, !.outcome = "cancelled"]
    <3>1. Becomes(i, next) /\ process[i].pc = "talking"
      BY <1>6, <2>2 DEF Cancelled, CancelTalk
    <3>2. process[i].cancels \in Nat
      BY <1>1 DEF ProcessStates
    <3>3. process[i].cancels + 1 \in Nat
      BY <3>2
    <3>4. "cancelled" \in Outcomes
      BY DEF Outcomes
    <3>5. next \in ProcessStates
      BY <1>1, <3>3, <3>4, ZenonT(60) DEF ProcessStates
    <3>6. /\ next.pc = "cleaning" /\ next.startup = process[i].startup
          /\ next.child = process[i].child /\ next.communication = process[i].communication
          /\ next.readers = process[i].readers /\ next.cleanup = "killing"
      BY <1>1 DEF ProcessStates
    <3> HIDE DEF next
    <3>7. ChildAccounted(next)
      BY <1>1, <3>1, <2>2, <3>6 DEF ChildAccounted
    <3>8. QED
      BY <3>1, <3>5, <3>7, BecomingKeeps
  <2>3. CASE CancelAgain(i)
    <3> DEFINE next == [process[i] EXCEPT !.cancels = @ + 1, !.outcome = "cancelled"]
    <3>1. Becomes(i, next) /\ process[i].pc = "cleaning"
      BY <1>6, <2>3 DEF Cancelled, CancelAgain
    <3>2. process[i].cancels \in Nat
      BY <1>1 DEF ProcessStates
    <3>3. process[i].cancels + 1 \in Nat
      BY <3>2
    <3>4. "cancelled" \in Outcomes
      BY DEF Outcomes
    <3>5. next \in ProcessStates
      BY <1>1, <3>3, <3>4, ZenonT(60) DEF ProcessStates
    <3>6. /\ next.pc = process[i].pc /\ next.startup = process[i].startup
          /\ next.child = process[i].child /\ next.communication = process[i].communication
          /\ next.readers = process[i].readers /\ next.cleanup = process[i].cleanup
      BY <1>1 DEF ProcessStates
    <3> HIDE DEF next
    <3>7. ChildAccounted(next)
      BY <1>1, <3>1, <2>3, <3>6 DEF ChildAccounted
    <3>8. QED
      BY <3>1, <3>5, <3>7, BecomingKeeps
  <2>4. QED
    BY <1>6, <2>1, <2>2, <2>3 DEF Cancelled
<1>7. QED
  BY <1>2, <1>3, <1>4, <1>5, <1>6

\* The cleanup: it waits for the startup, kills, drains and reaps.
LEMMA CleanupKeeps ==
    ASSUME ProcessInv, NEW i \in Invocations,
           StartupOver(i) \/ Kill(i) \/ CleanupOver(i) \/ CleanedUp(i)
    PROVE  ProcessInv'
<1>1. process[i] \in ProcessStates /\ ChildAccounted(process[i])
  BY DEF ProcessInv
<1>2. CASE StartupOver(i)
  <2>1. PICK cleanup \in {"killing", "done"} :
             /\ Becomes(i, [process[i] EXCEPT !.cleanup = cleanup])
             /\ process[i].cleanup = "awaiting startup"
             /\ process[i].startup = IF cleanup = "killing" THEN "handed" ELSE "failed"
    BY <1>2 DEF StartupOver
  <2> DEFINE next == [process[i] EXCEPT !.cleanup = cleanup]
  <2>2. next \in ProcessStates
    BY <1>1, <2>1 DEF ProcessStates
  <2>3. ChildAccounted(next)
    BY <1>1, <2>1 DEF ProcessStates, ChildAccounted
  <2>4. QED
    BY <2>1, <2>2, <2>3, BecomingKeeps
<1>3. CASE Kill(i)
  <2> DEFINE before == IF DrainsItself(i) THEN Reading(i) ELSE process[i]
             next == [before EXCEPT !.cleanup = "draining",
                                    !.child = IF @ = "running" THEN "zombie" ELSE @,
                                    !.said = IF @ = "nothing" THEN "garbage" ELSE @]
  <2>1. Becomes(i, next) /\ process[i].cleanup = "killing"
    BY <1>3 DEF Kill
  <2>2. /\ before \in ProcessStates /\ ChildAccounted(before)
        /\ before.cleanup = "killing"
    <3>1. CASE ~DrainsItself(i)
      BY <1>1, <2>1, <3>1
    <3>2. CASE DrainsItself(i)
      <4> DEFINE reading == [process[i] EXCEPT !.communication = "reading",
                                               !.readers = @ + 1]
      <4>1. process[i].communication = "none" /\ process[i].readers = 0
                                             /\ process[i].readers + 1 = 1
        <5>1. process[i].communication = "none"
          BY <3>2 DEF DrainsItself
        <5>2. process[i].readers = 0
          BY <1>1, <5>1 DEF ChildAccounted
        <5>3. QED
          BY <5>1, <5>2
      <4>2. reading \in ProcessStates
        BY <1>1, <4>1, ZenonT(60) DEF ProcessStates
      <4>3. /\ reading.pc = process[i].pc /\ reading.startup = process[i].startup
            /\ reading.child = process[i].child /\ reading.communication = "reading"
            /\ reading.readers = 1 /\ reading.cleanup = process[i].cleanup
        BY <1>1, <4>1 DEF ProcessStates
      <4>4. before = reading
        BY <3>2 DEF Reading
      <4> HIDE DEF reading
      <4>5. ChildAccounted(reading)
        BY <1>1, <2>1, <4>1, <4>3 DEF ChildAccounted
      <4>6. QED
        BY <2>1, <4>2, <4>3, <4>4, <4>5
    <3>3. QED
      BY <3>1, <3>2
  <2> HIDE DEF before
  <2>4. next \in ProcessStates
    BY <2>2, ZenonT(60) DEF ProcessStates
  <2>5. /\ next.pc = before.pc /\ next.startup = before.startup
        /\ next.child = IF before.child = "running" THEN "zombie" ELSE before.child
        /\ next.communication = before.communication /\ next.readers = before.readers
        /\ next.cleanup = "draining"
    BY <2>2 DEF ProcessStates
  <2> HIDE DEF next
  <2>6. ChildAccounted(next)
    BY <2>2, <2>5 DEF ChildAccounted
  <2>7. QED
    BY <2>1, <2>4, <2>6, BecomingKeeps
<1>4. CASE CleanupOver(i)
  <2> DEFINE next == [process[i] EXCEPT !.cleanup = "done"]
  <2>1. Becomes(i, next) /\ process[i].cleanup = "draining" /\ process[i].child = "reaped"
    BY <1>4 DEF CleanupOver
  <2>2. next \in ProcessStates
    BY <1>1 DEF ProcessStates
  <2>3. ChildAccounted(next)
    BY <1>1, <2>1 DEF ProcessStates, ChildAccounted
  <2>4. QED
    BY <2>1, <2>2, <2>3, BecomingKeeps
<1>5. CASE CleanedUp(i)
  <2> DEFINE next == [process[i] EXCEPT !.pc = "returned"]
  <2>1. Becomes(i, next) /\ process[i].cleanup = "done"
    BY <1>1, <1>5 DEF CleanedUp, Returns, Becomes, ProcessStates
  <2>2. next \in ProcessStates
    BY <1>1 DEF ProcessStates
  <2>3. ChildAccounted(next)
    BY <1>1, <2>1 DEF ProcessStates, ChildAccounted
  <2>4. QED
    BY <2>1, <2>2, <2>3, BecomingKeeps
<1>6. QED
  BY <1>2, <1>3, <1>4, <1>5

LEMMA ProcessStepKeeps ==
    ASSUME ProcessInv, [ProcessNext]_process
    PROVE  ProcessInv'
<1>1. CASE UNCHANGED process
  BY <1>1 DEF ProcessInv
<1>2. QED
  BY <1>1, SystemKeeps, InvocationKeeps, CleanupKeeps DEF ProcessNext, ProcessStep

LEMMA ProcessInvOwned == ASSUME ProcessInv PROVE ProcessesOwned
<1>1. \A i \in Invocations : process[i].readers \in {0, 1}
  BY DEF ProcessInv, ProcessStates
<1>2. OneReader
  BY <1>1 DEF OneReader
<1>3. NoOrphan
  BY DEF ProcessInv, ChildAccounted, NoOrphan
<1>4. QED
  BY <1>2, <1>3 DEF ProcessesOwned

----------------------------------------------------------------------------
(* The compute service: the gate.                                          *)

\* Nobody, one more or one fewer holds a permit.
LEMMA GateKeeps ==
    ASSUME RpcInv, service' \in ServiceStates,
           \A c \in RpcCalls :
              /\ handler'[c].permit => handler'[c].pc \in {"recheck", "working", "reply"}
              /\ rpc'[c].pc = "new" \/ service'.phase = "off" => handler'[c].pc = "gone",
           \/ PermitHolders(handler') = PermitHolders(handler) /\ service'.active = service.active
           \/ \E c \in PermitHolders(handler) :
                 /\ PermitHolders(handler') = PermitHolders(handler) \ {c}
                 /\ service'.active = service.active - 1
           \/ \E c \in RpcCalls \ PermitHolders(handler) :
                 /\ PermitHolders(handler') = PermitHolders(handler) \cup {c}
                 /\ service'.active = service.active + 1 /\ service.active < GateCapacity,
           GateCapacity \in Nat
    PROVE  GateInv'
<1> DEFINE H == PermitHolders(handler)
<1>1. IsFiniteSet(H) /\ service.active = Cardinality(H) /\ Cardinality(H) <= GateCapacity
  BY DEF RpcInv, GateInv, GateExact, PermitHolders
<1>2. Cardinality(H) \in Nat
  BY <1>1, FS_CardinalityType
<1> HIDE DEF H
<1>3. /\ IsFiniteSet(PermitHolders(handler'))
      /\ service'.active = Cardinality(PermitHolders(handler'))
      /\ Cardinality(PermitHolders(handler')) <= GateCapacity
  <2>1. CASE PermitHolders(handler') = H /\ service'.active = service.active
    BY <1>1, <2>1
  <2>2. CASE \E c \in H : /\ PermitHolders(handler') = H \ {c}
                          /\ service'.active = service.active - 1
    <3>1. PICK c \in H : /\ PermitHolders(handler') = H \ {c}
                         /\ service'.active = service.active - 1
      BY <2>2
    <3>2. IsFiniteSet(H \ {c}) /\ Cardinality(H \ {c}) = Cardinality(H) - 1
      BY <1>1, FS_RemoveElement
    <3>3. QED
      BY <1>1, <1>2, <3>1, <3>2
  <2>3. CASE \E c \in RpcCalls \ H : /\ PermitHolders(handler') = H \cup {c}
                                     /\ service'.active = service.active + 1
                                     /\ service.active < GateCapacity
    <3>1. PICK c \in RpcCalls \ H : /\ PermitHolders(handler') = H \cup {c}
                                    /\ service'.active = service.active + 1
                                    /\ service.active < GateCapacity
      BY <2>3
    <3>2. IsFiniteSet(H \cup {c}) /\ Cardinality(H \cup {c}) = Cardinality(H) + 1
      BY <1>1, <3>1, FS_AddElement
    <3>3. QED
      BY <1>1, <1>2, <3>1, <3>2
  <2>4. QED
    BY <2>1, <2>2, <2>3 DEF H
<1>4. GateExact'
  BY <1>3 DEF GateExact, PermitHolders
<1>5. QED
  BY <1>3, <1>4 DEF GateInv

\* What the handlers change concerns no application and no answer.
LEMMA HandlersOnly ==
    ASSUME RpcInv, handler' \in [RpcCalls -> HandlerStates], service' \in ServiceStates,
           UNCHANGED <<fileVars, app, rpc>>, GateInv'
    PROVE  RpcInv'
<1>1. UNCHANGED <<artifact, companion, exporter, app, rpc>>
  BY DEF fileVars
<1>2. RpcTypes'
  BY <1>1 DEF RpcInv, RpcTypes
<1>3. PreparedInv'
  BY <1>1 DEF RpcInv, PreparedInv, AnswersPrepared
<1>4. QED
  BY <1>2, <1>3 DEF RpcInv

\* A handler goes on, and keeps the permit it has or has none.
LEMMA GoesKeeps ==
    ASSUME RpcAssumption, RpcInv, NEW c \in RpcCalls, NEW state \in HandlerStates,
           handler[c].pc # "gone", state.permit = handler[c].permit,
           state.permit => state.pc \in {"recheck", "working", "reply"},
           Goes(c, state)
    PROVE  RpcInv'
<1>1. /\ handler \in [RpcCalls -> HandlerStates] /\ service \in ServiceStates
      /\ handler' = [handler EXCEPT ![c] = state] /\ service' = service
      /\ UNCHANGED <<fileVars, app, rpc>>
  BY DEF RpcInv, RpcTypes, Goes, HandlerVars
<1>2. handler' \in [RpcCalls -> HandlerStates]
  BY <1>1
<1>3. PermitHolders(handler') = PermitHolders(handler)
  BY <1>1 DEF PermitHolders
<1>4. \A d \in RpcCalls :
         /\ handler'[d].permit => handler'[d].pc \in {"recheck", "working", "reply"}
         /\ rpc'[d].pc = "new" \/ service'.phase = "off" => handler'[d].pc = "gone"
  BY <1>1 DEF RpcInv, GateInv
<1>5. GateInv'
  BY <1>1, <1>3, <1>4, GateKeeps DEF RpcAssumption
<1>6. QED
  BY <1>1, <1>2, <1>5, HandlersOnly

\* A handler is over, and its place behind the gate is free again.
LEMMA EndsKeeps ==
    ASSUME RpcAssumption, RpcInv, NEW c \in RpcCalls, NEW ok \in BOOLEAN,
           handler[c].pc # "gone", Ends(c, ok)
    PROVE  RpcInv'
<1> DEFINE state == IF InFlight(c)
                    THEN [NoHandler EXCEPT !.pc = "replied", !.ok = ok, !.graph = handler[c].graph]
                    ELSE NoHandler
<1>1. /\ handler \in [RpcCalls -> HandlerStates] /\ service \in ServiceStates
      /\ handler' = [handler EXCEPT ![c] = state]
      /\ service' = IF handler[c].permit THEN [service EXCEPT !.active = @ - 1] ELSE service
      /\ UNCHANGED <<fileVars, app, rpc>>
  BY DEF RpcInv, RpcTypes, Ends, HandlerVars
<1>2. handler[c].graph \in Graphs \cup {None} /\ handler[c].permit \in BOOLEAN
  BY <1>1 DEF HandlerStates
<1>3. state \in HandlerStates /\ ~state.permit
  BY <1>2 DEF HandlerStates, NoHandler
<1>4. rpc[c].pc # "new" /\ service.phase # "off"
  BY DEF RpcInv, GateInv
<1> HIDE DEF state
<1>5. handler' \in [RpcCalls -> HandlerStates]
  BY <1>1, <1>3
<1>6. PermitHolders(handler') = PermitHolders(handler) \ {c}
  BY <1>1, <1>3 DEF PermitHolders
<1>7. handler[c].permit <=> c \in PermitHolders(handler)
  BY <1>2 DEF PermitHolders
<1>8. /\ service' \in ServiceStates /\ service'.phase = service.phase
      /\ service'.active = IF handler[c].permit THEN service.active - 1 ELSE service.active
  <2>1. CASE ~handler[c].permit
    BY <1>1, <2>1
  <2>2. CASE handler[c].permit
    <3>1. service' = [service EXCEPT !.active = service.active - 1]
      BY <1>1, <2>2
    <3>2. service.active - 1 \in Nat
      <4>1. /\ IsFiniteSet(PermitHolders(handler))
            /\ service.active = Cardinality(PermitHolders(handler))
        BY DEF RpcInv, GateInv, GateExact, PermitHolders
      <4>2. Cardinality(PermitHolders(handler)) \in Nat /\ PermitHolders(handler) # {}
        BY <1>7, <2>2, <4>1, FS_CardinalityType
      <4>3. Cardinality(PermitHolders(handler)) # 0
        BY <4>1, <4>2, FS_EmptySet
      <4>4. QED
        BY <4>1, <4>2, <4>3
    <3>3. QED
      BY <1>1, <2>2, <3>1, <3>2 DEF ServiceStates
  <2>3. QED
    BY <2>1, <2>2
<1>9. \A d \in RpcCalls :
         /\ handler'[d].permit => handler'[d].pc \in {"recheck", "working", "reply"}
         /\ rpc'[d].pc = "new" \/ service'.phase = "off" => handler'[d].pc = "gone"
  BY <1>1, <1>3, <1>4, <1>8 DEF RpcInv, GateInv
<1>10. GateInv'
  <2>1. CASE handler[c].permit
    BY <1>6, <1>7, <1>8, <1>9, <2>1, GateKeeps DEF RpcAssumption
  <2>2. CASE ~handler[c].permit
    <3>1. PermitHolders(handler') = PermitHolders(handler)
      BY <1>6, <1>7, <2>2
    <3>2. QED
      BY <1>8, <1>9, <2>2, <3>1, GateKeeps DEF RpcAssumption
  <2>3. QED
    BY <2>1, <2>2
<1>11. QED
  BY <1>1, <1>5, <1>8, <1>10, HandlersOnly

\* A handler takes a permit, having seen the count it raises.
LEMMA TakesKeeps ==
    ASSUME RpcAssumption, RpcInv, NEW c \in RpcCalls, handler[c].pc = "acquire",
           Room(c), service.active = handler[c].seen,
           service' = [service EXCEPT !.active = @ + 1],
           handler' = [handler EXCEPT ![c].pc = "recheck", ![c].permit = TRUE, ![c].seen = 0],
           UNCHANGED HandlerVars
    PROVE  RpcInv'
<1> DEFINE state == [handler[c] EXCEPT !.pc = "recheck", !.permit = TRUE, !.seen = 0]
<1>1. /\ handler \in [RpcCalls -> HandlerStates] /\ service \in ServiceStates
      /\ UNCHANGED <<fileVars, app, rpc>>
  BY DEF RpcInv, RpcTypes, HandlerVars
<1>2. handler' = [handler EXCEPT ![c] = state]
  BY <1>1 DEF HandlerStates
<1>3. state \in HandlerStates
  BY <1>1, ZenonT(60) DEF HandlerStates
<1>4. state.pc = "recheck" /\ state.permit
  BY <1>1 DEF HandlerStates
<1> HIDE DEF state
<1>5. /\ handler' \in [RpcCalls -> HandlerStates] /\ handler'[c] = state
      /\ \A d \in RpcCalls : d # c => handler'[d] = handler[d]
  BY <1>1, <1>2, <1>3
<1>6. c \notin PermitHolders(handler) /\ rpc[c].pc # "new" /\ service.phase # "off"
  BY DEF RpcInv, GateInv, PermitHolders
<1>7. PermitHolders(handler') = PermitHolders(handler) \cup {c}
  BY <1>4, <1>5 DEF PermitHolders
<1>8. service.active \in Nat /\ service.active < GateCapacity
  BY <1>1 DEF ServiceStates, Room
<1>9. service' \in ServiceStates /\ service'.active = service.active + 1 /\ service'.phase = service.phase
  BY <1>1, <1>8 DEF ServiceStates
<1>10. \A d \in RpcCalls :
         /\ handler'[d].permit => handler'[d].pc \in {"recheck", "working", "reply"}
         /\ rpc'[d].pc = "new" \/ service'.phase = "off" => handler'[d].pc = "gone"
  BY <1>1, <1>4, <1>5, <1>6, <1>9 DEF RpcInv, GateInv
<1>11. GateInv'
  BY <1>6, <1>7, <1>8, <1>9, <1>10, GateKeeps DEF RpcAssumption
<1>12. QED
  BY <1>1, <1>5, <1>9, <1>11, HandlersOnly

LEMMA HandlerStepKeeps ==
    ASSUME RpcAssumption, RpcInv, NEW c \in RpcCalls, HandlerStep(c)
    PROVE  RpcInv'
<1>1. /\ handler[c] \in HandlerStates /\ service \in ServiceStates
      /\ handler[c].permit => handler[c].pc \in {"recheck", "working", "reply"}
  BY DEF RpcInv, RpcTypes, GateInv
<1>2. ASSUME NEW next \in {"load", "acquire", "working", "reply"}, Admits(c, next),
             handler[c].pc # "gone", handler[c].permit => next \in {"working", "reply"}
      PROVE  RpcInv'
  <2> DEFINE state == [handler[c] EXCEPT !.pc = next]
  <2>1. state \in HandlerStates
    BY <1>1, ZenonT(60) DEF HandlerStates
  <2>2. state.permit = handler[c].permit /\ state.pc = next
    BY <1>1 DEF HandlerStates
  <2>3. Goes(c, state)
    BY <1>2 DEF Admits
  <2> HIDE DEF state
  <2>4. QED
    BY <1>2, <2>1, <2>2, <2>3, GoesKeeps
<1>3. ASSUME handler[c].pc # "gone", Stopped(c) \/ Draining(c) \/ Refuses(c) \/ Ends(c, TRUE)
      PROVE  RpcInv'
  <2>1. PICK ok \in BOOLEAN : Ends(c, ok)
    BY <1>3 DEF Stopped, Draining, Refuses
  <2>2. QED
    BY <1>3, <2>1, EndsKeeps
<1>4. CASE Admission(c)
  <2>1. handler[c].pc = "admission" /\ ~handler[c].permit
    BY <1>1, <1>4 DEF Admission
  <2>2. QED
    BY <1>2, <1>3, <1>4, <2>1 DEF Admission
<1>5. CASE LoadCount(c)
  <2> DEFINE state == [handler[c] EXCEPT !.pc = "acquire", !.seen = service.active]
  <2>1. handler[c].pc = "load" /\ ~handler[c].permit /\ Goes(c, state)
    BY <1>1, <1>5 DEF LoadCount
  <2>2. service.active \in Nat
    BY <1>1 DEF ServiceStates
  <2>3. state \in HandlerStates
    BY <1>1, <2>2, ZenonT(60) DEF HandlerStates
  <2>4. state.permit = handler[c].permit
    BY <1>1 DEF HandlerStates
  <2> HIDE DEF state
  <2>5. QED
    BY <2>1, <2>3, <2>4, GoesKeeps
<1>6. CASE Acquire(c)
  <2>1. handler[c].pc = "acquire" /\ ~handler[c].permit
    BY <1>1, <1>6 DEF Acquire
  <2>2. CASE Refuses(c)
    BY <1>3, <2>1, <2>2
  <2>3. CASE /\ Room(c) /\ service.active = handler[c].seen
             /\ service' = [service EXCEPT !.active = @ + 1]
             /\ handler' = [handler EXCEPT ![c].pc = "recheck", ![c].permit = TRUE, ![c].seen = 0]
             /\ UNCHANGED HandlerVars
    BY <2>1, <2>3, TakesKeeps
  <2>4. CASE Goes(c, [handler[c] EXCEPT !.seen = service.active])
    <3> DEFINE state == [handler[c] EXCEPT !.seen = service.active]
    <3>1. service.active \in Nat
      BY <1>1 DEF ServiceStates
    <3>2. state \in HandlerStates
      BY <1>1, <3>1, ZenonT(60) DEF HandlerStates
    <3>3. state.permit = handler[c].permit /\ Goes(c, state)
      BY <1>1, <2>4 DEF HandlerStates
    <3> HIDE DEF state
    <3>4. QED
      BY <2>1, <3>2, <3>3, GoesKeeps
  <2>5. QED
    BY <1>6, <2>2, <2>3, <2>4 DEF Acquire
<1>7. CASE Recheck(c)
  <2>1. handler[c].pc = "recheck"
    BY <1>7 DEF Recheck
  <2>2. QED
    BY <1>2, <1>3, <1>7, <2>1 DEF Recheck
<1>8. CASE Computes(c)
  <2>1. handler[c].pc = "working"
    BY <1>8 DEF Computes
  <2>2. CASE Stopped(c) \/ Refuses(c)
    BY <1>3, <2>1, <2>2
  <2>3. ASSUME NEW g \in Graphs \cup {None}, Goes(c, [handler[c] EXCEPT !.pc = "reply", !.graph = g])
        PROVE  RpcInv'
    <3> DEFINE state == [handler[c] EXCEPT !.pc = "reply", !.graph = g]
    <3>1. state \in HandlerStates
      BY <1>1, <2>3, ZenonT(60) DEF HandlerStates
    <3>2. state.permit = handler[c].permit /\ state.pc = "reply" /\ Goes(c, state)
      BY <1>1, <2>3 DEF HandlerStates
    <3> HIDE DEF state
    <3>3. QED
      BY <2>1, <3>1, <3>2, GoesKeeps
  <2>4. CASE Goes(c, [handler[c] EXCEPT !.pc = "reply", !.graph = service.loaded])
    BY <1>1, <2>3, <2>4 DEF ServiceStates
  <2>5. CASE Goes(c, [handler[c] EXCEPT !.pc = "reply"])
    <3> DEFINE state == [handler[c] EXCEPT !.pc = "reply"]
    <3>1. state \in HandlerStates
      BY <1>1, ZenonT(60) DEF HandlerStates
    <3>2. state.permit = handler[c].permit /\ state.pc = "reply" /\ Goes(c, state)
      BY <1>1, <2>5 DEF HandlerStates
    <3> HIDE DEF state
    <3>3. QED
      BY <2>1, <3>1, <3>2, GoesKeeps
  <2>6. QED
    BY <1>8, <2>2, <2>4, <2>5 DEF Computes
<1>9. CASE Replies(c)
  <2>1. handler[c].pc = "reply"
    BY <1>9 DEF Replies
  <2>2. QED
    BY <1>3, <1>9, <2>1 DEF Replies
<1>10. QED
  BY <1>4, <1>5, <1>6, <1>7, <1>8, <1>9 DEF HandlerStep

----------------------------------------------------------------------------
(* The clients, the files and the lifetimes.                               *)

RpcStates == [pc : {"new", "sent", "over"}, graph : Graphs \cup {None},
              prepared : SUBSET (Graphs \cup {None}),
              outcome : {"none", "ok", "failed"}, answer : Graphs \cup {None}]

AppStates == [phase : {"down", "artifact", "companion", "health", "up"},
              wanted : Graphs \cup {None}, network : Graphs \cup {None},
              defaults : Graphs \cup {None}]

\* A request that is sent has been prepared on its graph, and an answer accepted is
\* the graph asked for.
LEMMA ClientsKeep ==
    ASSUME RpcAssumption, RpcInv, NEW c \in RpcCalls,
           NEW r \in RpcStates, rpc' = [rpc EXCEPT ![c] = r], r.pc # "new",
           r.pc = "sent" /\ r.graph # None => r.prepared = {r.graph},
           r.outcome = "ok" /\ r.graph # None => r.prepared = {r.answer},
           NEW state \in HandlerStates, ~state.permit,
           \/ handler' = handler
           \/ /\ handler' = [handler EXCEPT ![c] = state] /\ ~handler[c].permit
              /\ service.phase = "off" => state.pc = "gone",
           UNCHANGED ClientVars
    PROVE  RpcInv'
<1>1. /\ rpc \in [RpcCalls -> RpcStates] /\ handler \in [RpcCalls -> HandlerStates]
      /\ service \in ServiceStates /\ UNCHANGED <<artifact, companion, exporter, service, app>>
  BY DEF RpcInv, RpcTypes, RpcStates, ClientVars, fileVars
<1>2. /\ rpc' \in [RpcCalls -> RpcStates] /\ handler' \in [RpcCalls -> HandlerStates]
      /\ rpc'[c] = r /\ \A d \in RpcCalls : d # c => rpc'[d] = rpc[d]
  BY <1>1
<1>3. RpcTypes'
  BY <1>1, <1>2 DEF RpcInv, RpcTypes, RpcStates
<1>4. PermitHolders(handler') = PermitHolders(handler)
  BY <1>1 DEF PermitHolders
<1>5. \A d \in RpcCalls :
         /\ handler'[d].permit => handler'[d].pc \in {"recheck", "working", "reply"}
         /\ rpc'[d].pc = "new" \/ service'.phase = "off" => handler'[d].pc = "gone"
  BY <1>1, <1>2 DEF RpcInv, GateInv
<1>6. GateInv'
  BY <1>1, <1>4, <1>5, GateKeeps DEF RpcAssumption
<1>7. PreparedInv'
  <2>1. AnswersPrepared'
    BY <1>2 DEF RpcInv, PreparedInv, AnswersPrepared
  <2>2. QED
    BY <1>1, <1>2, <2>1 DEF RpcInv, PreparedInv
<1>8. QED
  BY <1>3, <1>6, <1>7 DEF RpcInv

LEMMA ClientStepKeeps ==
    ASSUME RpcAssumption, RpcInv, NEW c \in RpcCalls, Send(c) \/ Reply(c) \/ GiveUp(c)
    PROVE  RpcInv'
<1>1. /\ handler[c] \in HandlerStates /\ rpc[c] \in RpcStates /\ app \in AppStates
      /\ handler[c].permit => handler[c].pc \in {"recheck", "working", "reply"}
      /\ rpc[c].pc = "new" => handler[c].pc = "gone"
  BY DEF RpcInv, RpcTypes, GateInv, RpcStates, AppStates
<1>2. /\ NoHandler \in HandlerStates /\ ~NoHandler.permit /\ NoHandler.pc = "gone"
      /\ NewRpc \in RpcStates
  BY DEF NoHandler, HandlerStates, NewRpc, RpcStates
<1> DEFINE failed == [NewRpc EXCEPT !.pc = "over", !.outcome = "failed"]
<1>3. failed \in RpcStates /\ failed.pc = "over" /\ failed.outcome = "failed"
  BY DEF NewRpc, RpcStates
<1>4. CASE Send(c)
  <2>1. PICK g \in {None, app.wanted} :
             rpc' = [rpc EXCEPT ![c] = [NewRpc EXCEPT !.pc = "sent", !.graph = g,
                         !.prepared = IF g = None THEN {} ELSE {app.network, app.defaults}]]
    BY <1>4 DEF Send
  <2>2. /\ app.phase = "up" /\ rpc[c].pc = "new" /\ UNCHANGED ClientVars
        /\ handler' = IF service.phase \in {"up", "draining"}
                      THEN [handler EXCEPT ![c] = [NoHandler EXCEPT !.pc = "admission", !.graph = rpc'[c].graph]]
                      ELSE handler
    BY <1>4 DEF Send
  <2> DEFINE p == IF g = None THEN {} ELSE {app.network, app.defaults}
             r == [NewRpc EXCEPT !.pc = "sent", !.graph = g, !.prepared = p]
             h == [NoHandler EXCEPT !.pc = "admission", !.graph = g]
  <2>3. /\ g \in Graphs \cup {None} /\ p \in SUBSET (Graphs \cup {None})
        /\ g # None => p = {g}
    BY <1>1, <2>2 DEF AppStates, RpcInv, PreparedInv
  <2> HIDE DEF p
  <2>4. /\ r \in RpcStates /\ r.pc = "sent" /\ r.graph = g /\ r.prepared = p
        /\ r.outcome = "none"
    BY <2>3 DEF NewRpc, RpcStates
  <2>5. h \in HandlerStates /\ ~h.permit
    BY <2>3 DEF NoHandler, HandlerStates
  <2>6. rpc' = [rpc EXCEPT ![c] = r]
    BY <2>1 DEF p
  <2> HIDE DEF r
  <2>7. rpc'[c].graph = g
    BY <2>4, <2>6 DEF RpcInv, RpcTypes
  <2>8. handler' = handler \/ (handler' = [handler EXCEPT ![c] = h] /\ service.phase # "off")
    BY <2>2, <2>7
  <2> HIDE DEF h
  <2>9. ~handler[c].permit
    BY <1>1, <2>2
  <2>10. QED
    BY <2>2, <2>3, <2>4, <2>5, <2>6, <2>8, <2>9, ClientsKeep
<1>5. CASE Reply(c)
  <2>1. /\ rpc[c].pc = "sent" /\ handler[c].pc = "replied" /\ UNCHANGED ClientVars
        /\ handler' = [handler EXCEPT ![c] = NoHandler]
    BY <1>5 DEF Reply, InFlight
  <2>2. ~handler[c].permit
    BY <1>1, <2>1
  <2>3. CASE handler[c].ok /\ Accepted(c)
    <3> DEFINE r == [rpc[c] EXCEPT !.pc = "over", !.outcome = "ok", !.answer = handler[c].graph]
    <3>1. rpc' = [rpc EXCEPT ![c] = r]
      BY <1>5, <2>3 DEF Reply, RpcInv, RpcTypes
    <3>2. handler[c].graph \in Graphs \cup {None}
      BY <1>1 DEF HandlerStates
    <3>3. r \in RpcStates
      BY <1>1, <3>2, ZenonT(60) DEF RpcStates
    <3>4. /\ r.pc = "over" /\ r.graph = rpc[c].graph /\ r.prepared = rpc[c].prepared
          /\ r.answer = handler[c].graph
      BY <1>1 DEF RpcStates
    <3>5. rpc[c].graph # None => r.prepared = {r.answer}
      BY <2>1, <2>3, <3>4 DEF Accepted, RpcInv, PreparedInv
    <3> HIDE DEF r
    <3>6. QED
      BY <1>2, <2>1, <2>2, <3>1, <3>3, <3>4, <3>5, ClientsKeep
  <2>4. CASE ~(handler[c].ok /\ Accepted(c))
    <3>1. rpc' = [rpc EXCEPT ![c] = failed]
      BY <1>5, <2>4 DEF Reply, Fails
    <3> HIDE DEF failed
    <3>2. QED
      BY <1>2, <1>3, <2>1, <2>2, <3>1, ClientsKeep
  <2>5. QED
    BY <2>3, <2>4
<1>6. CASE GiveUp(c)
  <2>1. rpc' = [rpc EXCEPT ![c] = failed] /\ handler' = handler /\ UNCHANGED ClientVars
    BY <1>6 DEF GiveUp, Fails
  <2> HIDE DEF failed
  <2>2. QED
    BY <1>2, <1>3, <2>1, ClientsKeep
<1>7. QED
  BY <1>4, <1>5, <1>6

LEMMA FilesKeep ==
    ASSUME RpcAssumption, RpcInv, Discard \/ ExportArtifact \/ ExportCompanion
    PROVE  RpcInv'
<1>1. UNCHANGED <<service, handler, app, rpc>>
  BY DEF Discard, ExportArtifact, ExportCompanion
<1>2. /\ artifact' \in Graphs \cup {None, Torn} /\ companion' \in Graphs \cup {None}
      /\ exporter' \in Graphs \cup {None}
  BY DEF Discard, ExportArtifact, ExportCompanion, RpcInv, RpcTypes
<1>3. RpcTypes'
  BY <1>1, <1>2 DEF RpcInv, RpcTypes
<1>4. GateInv'
  BY <1>1 DEF RpcInv, GateInv, GateExact, PermitHolders
<1>5. PreparedInv'
  BY <1>1 DEF RpcInv, PreparedInv, AnswersPrepared
<1>6. QED
  BY <1>3, <1>4, <1>5 DEF RpcInv

\* A service that starts has no handler, and one that ends takes all with it.
LEMMA ServiceKeeps ==
    ASSUME RpcAssumption, RpcInv, ServiceStarts \/ ServiceDrains \/ ServiceEnds
    PROVE  RpcInv'
<1>1. /\ UNCHANGED <<fileVars, app, rpc>> /\ service \in ServiceStates
      /\ handler \in [RpcCalls -> HandlerStates] /\ artifact \in Graphs \cup {None, Torn}
      /\ GateCapacity \in Nat
  BY DEF ServiceStarts, ServiceDrains, ServiceEnds, ServiceVars, RpcInv, RpcTypes, RpcAssumption
<1>2. CASE ServiceStarts
  <2>1. PICK g \in {None, artifact} \ {Torn} :
             service' = [NoService EXCEPT !.phase = "up", !.loaded = g]
    BY <1>2 DEF ServiceStarts
  <2>2. handler' = handler /\ service.phase = "off"
    BY <1>2 DEF ServiceStarts
  <2>3. service' \in ServiceStates /\ service'.active = 0 /\ service'.phase = "up"
    BY <1>1, <2>1 DEF NoService, ServiceStates
  <2>4. PermitHolders(handler) = {}
    BY <2>2 DEF PermitHolders, RpcInv, GateInv
  <2>5. service.active = 0
    <3>1. service.active = Cardinality(PermitHolders(handler))
      BY DEF RpcInv, GateInv, GateExact, PermitHolders
    <3>2. QED
      BY <2>4, <3>1, FS_EmptySet
  <2>6. \A c \in RpcCalls :
           /\ handler'[c].permit => handler'[c].pc \in {"recheck", "working", "reply"}
           /\ rpc'[c].pc = "new" \/ service'.phase = "off" => handler'[c].pc = "gone"
    BY <1>1, <2>2 DEF RpcInv, GateInv
  <2>7. GateInv'
    BY <1>1, <2>2, <2>3, <2>5, <2>6, GateKeeps
  <2>8. QED
    BY <1>1, <2>2, <2>3, <2>7, HandlersOnly
<1>3. CASE ServiceDrains
  <2>1. /\ handler' = handler /\ service.phase # "off"
        /\ service' = [service EXCEPT !.phase = IF @ = "up" THEN "draining" ELSE "cutting"]
    BY <1>3 DEF ServiceDrains
  <2>2. service' \in ServiceStates /\ service'.active = service.active /\ service'.phase # "off"
    BY <1>1, <2>1 DEF ServiceStates
  <2>3. \A c \in RpcCalls :
           /\ handler'[c].permit => handler'[c].pc \in {"recheck", "working", "reply"}
           /\ rpc'[c].pc = "new" \/ service'.phase = "off" => handler'[c].pc = "gone"
    BY <1>1, <2>1, <2>2 DEF RpcInv, GateInv
  <2>4. GateInv'
    BY <1>1, <2>1, <2>2, <2>3, GateKeeps
  <2>5. QED
    BY <1>1, <2>1, <2>2, <2>4, HandlersOnly
<1>4. CASE ServiceEnds
  <2>1. service' = NoService /\ handler' = [c \in RpcCalls |-> NoHandler]
    BY <1>4 DEF ServiceEnds
  <2>2. /\ service' \in ServiceStates /\ service'.active = 0
        /\ handler' \in [RpcCalls -> HandlerStates]
        /\ \A c \in RpcCalls : ~handler'[c].permit /\ handler'[c].pc = "gone"
    BY <2>1 DEF NoService, NoHandler, ServiceStates, HandlerStates
  <2>3. PermitHolders(handler') = {}
    BY <2>2 DEF PermitHolders
  <2>4. IsFiniteSet(PermitHolders(handler')) /\ Cardinality(PermitHolders(handler')) = 0
    BY <2>3, FS_EmptySet
  <2>5. GateExact'
    BY <1>1, <2>2, <2>4 DEF GateExact, PermitHolders
  <2>6. GateInv'
    BY <2>2, <2>4, <2>5 DEF GateInv
  <2>7. QED
    BY <1>1, <2>2, <2>6, HandlersOnly
<1>5. QED
  BY <1>2, <1>3, <1>4

LEMMA AppKeeps ==
    ASSUME RpcAssumption, RpcInv,
           AppStarts \/ AppReadsArtifact \/ AppReadsCompanion \/ AppChecksHealth \/ AppStops
    PROVE  RpcInv'
<1>1. UNCHANGED <<artifact, companion, exporter, service, handler, rpc>> /\ app \in AppStates
  BY DEF AppStarts, AppReadsArtifact, AppReadsCompanion, AppChecksHealth, AppStops, AppVars,
         fileVars, RpcInv, RpcTypes, AppStates
<1>2. companion \in Graphs \cup {None}
  BY DEF RpcInv, RpcTypes
<1>3. NoApp \in AppStates /\ NoApp.phase = "down" /\ NoApp.network = None /\ NoApp.defaults = None
  BY DEF NoApp, AppStates
<1>4. /\ app' \in AppStates
      /\ app'.phase \in {"companion", "health", "up"} => app'.network = app'.wanted
      /\ app'.phase \in {"health", "up"} => app'.defaults = app'.wanted
  <2>1. CASE AppStarts
    <3>1. PICK g \in Graphs \cup {None} :
               app' = [NoApp EXCEPT !.phase = IF g = None THEN "up" ELSE "artifact", !.wanted = g]
      BY <2>1 DEF AppStarts
    <3>2. QED
      BY <3>1 DEF NoApp, AppStates
  <2>2. CASE AppReadsArtifact
    BY <1>1, <1>3, <2>2 DEF AppReadsArtifact, DigestMatches, AppStates
  <2>3. CASE AppReadsCompanion
    BY <1>1, <1>2, <1>3, <2>3 DEF AppReadsCompanion, AppStates, RpcInv, PreparedInv
  <2>4. CASE AppChecksHealth
    BY <1>1, <1>3, <2>4 DEF AppChecksHealth, AppStates, RpcInv, PreparedInv
  <2>5. CASE AppStops
    BY <1>3, <2>5 DEF AppStops
  <2>6. QED
    BY <2>1, <2>2, <2>3, <2>4, <2>5
<1>5. RpcTypes'
  BY <1>1, <1>4 DEF RpcInv, RpcTypes, AppStates
<1>6. GateInv'
  BY <1>1 DEF RpcInv, GateInv, GateExact, PermitHolders
<1>7. PreparedInv'
  BY <1>1, <1>4 DEF RpcInv, PreparedInv, AnswersPrepared
<1>8. QED
  BY <1>5, <1>6, <1>7 DEF RpcInv

LEMMA RpcStepKeeps ==
    ASSUME RpcAssumption, RpcInv, [RpcNext]_rpcVars
    PROVE  RpcInv'
<1>1. CASE UNCHANGED rpcVars
  <2>1. UNCHANGED <<artifact, companion, exporter, service, handler, app, rpc>>
    BY <1>1 DEF rpcVars, fileVars
  <2>2. RpcTypes' /\ GateInv' /\ PreparedInv'
    BY <2>1 DEF RpcInv, RpcTypes, GateInv, GateExact, PermitHolders, PreparedInv, AnswersPrepared
  <2>3. QED
    BY <2>2 DEF RpcInv
<1>2. QED
  BY <1>1, FilesKeep, ServiceKeeps, AppKeeps, ClientStepKeeps, HandlerStepKeeps DEF RpcNext

LEMMA RpcStarts == ASSUME RpcAssumption, RpcInit PROVE RpcInv
<1>1. /\ NoService \in ServiceStates /\ NoHandler \in HandlerStates /\ NoApp \in AppStates
      /\ NewRpc \in RpcStates /\ NoHandler.pc = "gone" /\ ~NoHandler.permit
      /\ NoService.active = 0 /\ NoApp.phase = "down" /\ NewRpc.pc = "new" /\ NewRpc.outcome = "none"
  BY DEF NoService, NoHandler, NoApp, NewRpc, ServiceStates, HandlerStates, AppStates, RpcStates
<1>2. RpcTypes
  BY <1>1 DEF RpcInit, RpcTypes, AppStates, RpcStates
<1>3. PermitHolders(handler) = {}
  BY <1>1 DEF RpcInit, PermitHolders
<1>4. IsFiniteSet(PermitHolders(handler)) /\ Cardinality(PermitHolders(handler)) = 0
  BY <1>3, FS_EmptySet
<1>5. GateExact
  BY <1>1, <1>4 DEF RpcInit, GateExact, PermitHolders, RpcAssumption
<1>6. GateInv
  BY <1>1, <1>4, <1>5 DEF RpcInit, GateInv
<1>7. PreparedInv
  BY <1>1 DEF RpcInit, PreparedInv, AnswersPrepared
<1>8. QED
  BY <1>2, <1>6, <1>7 DEF RpcInv

----------------------------------------------------------------------------
(* The layers together.                                                    *)

LayersInv == RuntimeInv /\ ProcessInv /\ RpcInv

LEMMA LayersStart == LayersInit => LayersInv
<1>1. ASSUME LayersInit PROVE LayersInv
  <2>1. Init /\ ProcessInit /\ RpcInit
    BY <1>1 DEF LayersInit
  <2>2. QED
    BY <2>1, RuntimeAssumption, RpcAssumption, InitRuntime, ProcessStarts, RpcStarts DEF LayersInv
<1>2. QED
  BY <1>1

\* A step of the layers is a step, or none, of each.
LEMMA LayersStep ==
    LayersInv /\ [LayersNext]_layersVars
        => LayersInv' /\ [OneProbe' /\ JoinsRunning /\ CancelsUnwanted]_vars
<1>1. SUFFICES ASSUME LayersInv, [LayersNext]_layersVars
               PROVE  LayersInv' /\ [OneProbe' /\ JoinsRunning /\ CancelsUnwanted]_vars
  OBVIOUS
<1>2. [Next]_vars /\ [ProcessNext]_process /\ [RpcNext]_rpcVars
  BY <1>1 DEF LayersNext, layersVars
<1>3. RuntimeInv' /\ JoinsRunning /\ CancelsUnwanted
  BY <1>1, <1>2, RuntimeAssumption, StepRuntime DEF LayersInv
<1>4. ProcessInv' /\ RpcInv'
  BY <1>1, <1>2, RpcAssumption, ProcessStepKeeps, RpcStepKeeps DEF LayersInv
<1>5. QED
  BY <1>3, <1>4 DEF LayersInv, RuntimeInv, ProbesInv

\* The runtime's guarantees hold whichever transport it stands on.
THEOREM RuntimeStaysConsistent == LayersSafety => []PermitsConsistent
<1>1. LayersInv => PermitsConsistent
  BY RuntimeAssumption, RuntimeInvConsistent DEF LayersInv
<1>2. QED
  BY <1>1, LayersStart, LayersStep, PTL DEF LayersSafety

THEOREM RuntimeSharesProbe == LayersSafety => ProbeShared
BY LayersStart, LayersStep, PTL DEF LayersSafety, ProbeShared

\* No subprocess survives the invocation that started it, and no pipe has two readers.
THEOREM ProcessesAreOwned == LayersSafety => []ProcessesOwned
<1>1. LayersInv => ProcessesOwned
  BY ProcessInvOwned DEF LayersInv
<1>2. QED
  BY <1>1, LayersStart, LayersStep, PTL DEF LayersSafety

\* The gate counts exactly the handlers behind it, and never more than its capacity.
THEOREM GateIsExact == LayersSafety => []GateExact
<1>1. LayersInv => GateExact
  BY DEF LayersInv, RpcInv, GateInv
<1>2. QED
  BY <1>1, LayersStart, LayersStep, PTL DEF LayersSafety

\* A result for the fixed region was computed on the graph its request was prepared on.
THEOREM AnswersArePrepared == LayersSafety => []AnswersPrepared
<1>1. LayersInv => AnswersPrepared
  BY DEF LayersInv, RpcInv, PreparedInv
<1>2. QED
  BY <1>1, LayersStart, LayersStep, PTL DEF LayersSafety
=============================================================================
