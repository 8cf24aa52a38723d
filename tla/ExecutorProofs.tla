--------------------------- MODULE ExecutorProofs ---------------------------
(***************************************************************************)
(* Theorems about Executor, for any runs, hosts, inventory, registry and   *)
(* plans: versions compare as in Python, type correctness, and what the    *)
(* gate guarantees: no change command without the full audit trail         *)
(* (GatedChange), a trail that says of the plan what the registry says     *)
(* (TrailAgreesWithRegistry), and no new host once the workflow is over    *)
(* (NothingStartsAfterEnd).                                                *)
(***************************************************************************)
EXTENDS Executor, SequenceTheorems, WellFoundedInduction, TLAPS

-----------------------------------------------------------------------------
(* Versions *)

\* What is left of a version after its first component.
LEMMA TailIs ==
  ASSUME NEW v \in Version, v # <<>>
  PROVE  /\ Tail(v) \in Version /\ Head(v) \in Nat /\ Head(v) = v[1]
         /\ Len(v) \in Nat \ {0} /\ Len(Tail(v)) = Len(v) - 1
         /\ DOMAIN v = 1 .. Len(v) /\ DOMAIN Tail(v) = 1 .. Len(v) - 1
         /\ \A i \in 1 .. Len(v) : v[i] \in Nat
         /\ \A i \in 1 .. Len(v) - 1 : Tail(v)[i] = v[i + 1]
  BY HeadTailProperties DEF Version

\* The order looks at the first components, and at the rest when they are the same.
LEMMA TupleLeqStep ==
  ASSUME NEW v \in Version, NEW w \in Version
  PROVE  TupleLeq(v, w) = IF v = <<>> THEN TRUE
                          ELSE IF w = <<>> THEN FALSE
                          ELSE IF Head(v) = Head(w) THEN TupleLeq(Tail(v), Tail(w))
                          ELSE Head(v) < Head(w)
  <1>1. CASE v = <<>>
    <2>1. Len(v) = 0 /\ DOMAIN v = {} /\ Len(w) \in Nat
      BY <1>1 DEF Version
    <2> QED
      BY <1>1, <2>1 DEF TupleLeq
  <1>2. CASE v # <<>> /\ w = <<>>
    <2>1. Len(w) = 0 /\ DOMAIN w = {} /\ Len(v) \in Nat \ {0}
      BY <1>2, TailIs
    <2> QED
      BY <1>2, <2>1 DEF TupleLeq
  <1>3. CASE v # <<>> /\ w # <<>> /\ Head(v) = Head(w)
    <2> DEFINE a == Tail(v)
               b == Tail(w)
    <2>0. /\ Len(v) \in Nat \ {0} /\ Len(a) = Len(v) - 1
          /\ Len(w) \in Nat \ {0} /\ Len(b) = Len(w) - 1
          /\ DOMAIN v = 1 .. Len(v) /\ DOMAIN a = 1 .. Len(v) - 1
          /\ DOMAIN w = 1 .. Len(w) /\ DOMAIN b = 1 .. Len(w) - 1
          /\ \A i \in 1 .. Len(v) - 1 : a[i] = v[i + 1]
          /\ \A i \in 1 .. Len(w) - 1 : b[i] = w[i + 1]
          /\ v[1] = w[1] /\ v[1] \in Nat
      BY <1>3, TailIs
    <2> HIDE DEF a, b
    <2>1. Len(v) <= Len(w) <=> Len(a) <= Len(b)
      BY <2>0
    <2>2. ASSUME Len(a) <= Len(b)
          PROVE  (\A i \in DOMAIN v : v[i] = w[i]) <=> (\A i \in DOMAIN a : a[i] = b[i])
      <3>1. ASSUME \A i \in 1 .. Len(v) : v[i] = w[i], NEW i \in 1 .. Len(v) - 1
            PROVE  a[i] = b[i]
        <4>1. i + 1 \in 1 .. Len(v) /\ i \in 1 .. Len(w) - 1
          BY <2>0, <2>1, <2>2
        <4> QED
          BY <2>0, <3>1, <4>1
      <3>2. ASSUME \A i \in 1 .. Len(v) - 1 : a[i] = b[i], NEW i \in 1 .. Len(v)
            PROVE  v[i] = w[i]
        <4>1. CASE i = 1
          BY <2>0, <4>1
        <4>2. CASE i # 1
          <5>1. /\ i - 1 \in 1 .. Len(v) - 1 /\ i - 1 \in 1 .. Len(w) - 1
                /\ (i - 1) + 1 = i
            BY <2>0, <2>1, <2>2, <4>2
          <5>2. a[i - 1] = v[i] /\ b[i - 1] = w[i]
            <6>1. a[i - 1] = v[(i - 1) + 1] /\ b[i - 1] = w[(i - 1) + 1]
              BY <2>0, <5>1
            <6> QED
              BY <5>1, <6>1
          <5>3. a[i - 1] = b[i - 1]
            BY <3>2, <5>1
          <5> QED
            BY <5>2, <5>3
        <4> QED
          BY <4>1, <4>2
      <3> QED
        BY <2>0, <3>1, <3>2
    <2>3. (\E i \in DOMAIN v \cap DOMAIN w :
             v[i] < w[i] /\ \A j \in 1 .. i - 1 : v[j] = w[j])
          <=> (\E i \in DOMAIN a \cap DOMAIN b :
                 a[i] < b[i] /\ \A j \in 1 .. i - 1 : a[j] = b[j])
      <3>1. ASSUME NEW i \in DOMAIN v \cap DOMAIN w, v[i] < w[i],
                   \A j \in 1 .. i - 1 : v[j] = w[j]
            PROVE  \E k \in DOMAIN a \cap DOMAIN b :
                     a[k] < b[k] /\ \A j \in 1 .. k - 1 : a[j] = b[j]
        <4>1. i # 1
          BY <2>0, <3>1
        <4>2. i - 1 \in 1 .. Len(v) - 1 /\ i - 1 \in 1 .. Len(w) - 1 /\ (i - 1) + 1 = i
          BY <2>0, <4>1
        <4>3. a[i - 1] < b[i - 1]
          BY <2>0, <3>1, <4>2
        <4>4. ASSUME NEW j \in 1 .. (i - 1) - 1 PROVE a[j] = b[j]
          <5>1. j + 1 \in 1 .. i - 1 /\ j \in 1 .. Len(v) - 1 /\ j \in 1 .. Len(w) - 1
            BY <2>0, <4>2
          <5> QED
            BY <2>0, <3>1, <5>1
        <4> QED
          BY <2>0, <4>2, <4>3, <4>4
      <3>2. ASSUME NEW k \in DOMAIN a \cap DOMAIN b, a[k] < b[k],
                   \A j \in 1 .. k - 1 : a[j] = b[j]
            PROVE  \E i \in DOMAIN v \cap DOMAIN w :
                     v[i] < w[i] /\ \A j \in 1 .. i - 1 : v[j] = w[j]
        <4>1. k + 1 \in 1 .. Len(v) /\ k + 1 \in 1 .. Len(w)
          BY <2>0
        <4>2. v[k + 1] < w[k + 1]
          BY <2>0, <3>2
        <4>3. ASSUME NEW j \in 1 .. (k + 1) - 1 PROVE v[j] = w[j]
          <5>1. CASE j = 1
            BY <2>0, <5>1
          <5>2. CASE j # 1
            <6>1. /\ j - 1 \in 1 .. k - 1 /\ (j - 1) + 1 = j
                  /\ j - 1 \in 1 .. Len(v) - 1 /\ j - 1 \in 1 .. Len(w) - 1
              BY <2>0, <5>2
            <6>2. a[j - 1] = v[j] /\ b[j - 1] = w[j]
              <7>1. a[j - 1] = v[(j - 1) + 1] /\ b[j - 1] = w[(j - 1) + 1]
                BY <2>0, <6>1
              <7> QED
                BY <6>1, <7>1
            <6>3. a[j - 1] = b[j - 1]
              BY <3>2, <6>1
            <6> QED
              BY <6>2, <6>3
          <5> QED
            BY <5>1, <5>2
        <4> QED
          BY <2>0, <4>1, <4>2, <4>3
      <3> QED
        BY <3>1, <3>2
    <2>4. TupleLeq(v, w) = TupleLeq(a, b)
      BY <2>1, <2>2, <2>3 DEF TupleLeq
    <2> QED
      BY <1>3, <2>4 DEF a, b
  <1>4. CASE v # <<>> /\ w # <<>> /\ Head(v) # Head(w)
    <2>0. /\ Len(v) \in Nat \ {0} /\ Len(w) \in Nat \ {0}
          /\ DOMAIN v = 1 .. Len(v) /\ DOMAIN w = 1 .. Len(w)
          /\ Head(v) = v[1] /\ Head(w) = w[1] /\ v[1] \in Nat /\ w[1] \in Nat
      BY <1>4, TailIs
    <2>1. 1 \in DOMAIN v \cap DOMAIN w /\ \A j \in 1 .. 1 - 1 : v[j] = w[j]
      BY <2>0
    <2>2. Head(v) < Head(w) => TupleLeq(v, w)
      BY <2>0, <2>1 DEF TupleLeq
    <2>3. ASSUME TupleLeq(v, w) PROVE Head(v) < Head(w)
      <3>1. ~(\A i \in DOMAIN v : v[i] = w[i])
        BY <1>4, <2>0, <2>1
      <3>2. PICK i \in DOMAIN v \cap DOMAIN w :
              v[i] < w[i] /\ \A j \in 1 .. i - 1 : v[j] = w[j]
        BY <2>3, <3>1 DEF TupleLeq
      <3>3. i = 1
        BY <1>4, <2>0, <3>2
      <3> QED
        BY <2>0, <3>2, <3>3
    <2>4. TupleLeq(v, w) \in BOOLEAN
      BY DEF TupleLeq
    <2> QED
      BY <1>4, <2>2, <2>3, <2>4
  <1> QED
    BY <1>1, <1>2, <1>3, <1>4

\* The recursive definition has a solution, TupleLeq being one; so the function it
\* names satisfies it.
LEMMA PythonLeqStep ==
  ASSUME NEW v \in Version, NEW w \in Version
  PROVE  PythonLeq[<<v, w>>] = IF v = <<>> THEN TRUE
                               ELSE IF w = <<>> THEN FALSE
                               ELSE IF Head(v) = Head(w) THEN PythonLeq[<<Tail(v), Tail(w)>>]
                               ELSE Head(v) < Head(w)
  <1> DEFINE Pairs == Version \X Version
             Body(f) == [p \in Pairs |->
                           IF p[1] = <<>> THEN TRUE
                           ELSE IF p[2] = <<>> THEN FALSE
                           ELSE IF Head(p[1]) = Head(p[2]) THEN f[<<Tail(p[1]), Tail(p[2])>>]
                           ELSE Head(p[1]) < Head(p[2])]
             g == [p \in Pairs |-> TupleLeq(p[1], p[2])]
  <1>1. g = Body(g)
    <2> SUFFICES ASSUME NEW p \in Pairs PROVE g[p] = Body(g)[p]
      OBVIOUS
    <2>1. PICK a \in Version, b \in Version : p = <<a, b>>
      OBVIOUS
    <2>2. CASE a # <<>> /\ b # <<>> /\ Head(a) = Head(b)
      <3>1. <<Tail(a), Tail(b)>> \in Pairs
        BY <2>2, TailIs
      <3>2. g[<<Tail(a), Tail(b)>>] = TupleLeq(Tail(a), Tail(b))
        BY <3>1
      <3>3. TupleLeq(a, b) = TupleLeq(Tail(a), Tail(b))
        BY <2>2, TupleLeqStep
      <3> QED
        BY <2>1, <2>2, <3>2, <3>3
    <2>3. CASE ~(a # <<>> /\ b # <<>> /\ Head(a) = Head(b))
      <3>1. TupleLeq(a, b) = IF a = <<>> THEN TRUE
                             ELSE IF b = <<>> THEN FALSE
                             ELSE Head(a) < Head(b)
        BY <2>3, TupleLeqStep
      <3> QED
        BY <2>1, <2>3, <3>1
    <2> QED
      BY <2>2, <2>3
  <1>2. PythonLeq = CHOOSE f : f = Body(f)
    BY DEF PythonLeq
  <1>3. PythonLeq = Body(PythonLeq)
    <2> HIDE DEF Body, g
    <2> QED
      BY <1>1, <1>2
  <1>4. <<v, w>> \in Pairs
    OBVIOUS
  <1>5. Body(PythonLeq)[<<v, w>>] =
          IF v = <<>> THEN TRUE
          ELSE IF w = <<>> THEN FALSE
          ELSE IF Head(v) = Head(w) THEN PythonLeq[<<Tail(v), Tail(w)>>]
          ELSE Head(v) < Head(w)
    BY <1>4
  <1> QED
    BY <1>3, <1>5

\* The comparison of _version_in_range() is Python's, for versions of any two
\* lengths, "19" against "19.0.0.0.0" included (executor/executor.py:61-70): of
\* two versions on which they differed the tails would differ too, and be shorter.
THEOREM TupleLeqIsPythons ==
  \A v, w \in Version : TupleLeq(v, w) = PythonLeq[<<v, w>>]
  <1> DEFINE Same(a, b) == TupleLeq(a, b) = PythonLeq[<<a, b>>]
             Bad == {n \in Nat : \E v, w \in Version : Len(v) = n /\ ~Same(v, w)}
  <1>1. ASSUME NEW v \in Version, NEW w \in Version, ~Same(v, w)
        PROVE  /\ v # <<>> /\ w # <<>>
               /\ Tail(v) \in Version /\ Tail(w) \in Version
               /\ ~Same(Tail(v), Tail(w))
               /\ Len(v) \in Nat \ {0} /\ Len(Tail(v)) = Len(v) - 1
    <2>1. CASE v = <<>>
      <3>1. TupleLeq(v, w) = TRUE
        BY <2>1, TupleLeqStep, Zenon
      <3>2. PythonLeq[<<v, w>>] = TRUE
        BY <2>1, PythonLeqStep, Zenon
      <3> QED
        BY <1>1, <3>1, <3>2, Zenon
    <2>2. CASE v # <<>> /\ w = <<>>
      <3>1. TupleLeq(v, w) = FALSE
        BY <2>2, TupleLeqStep, Zenon
      <3>2. PythonLeq[<<v, w>>] = FALSE
        BY <2>2, PythonLeqStep, Zenon
      <3> QED
        BY <1>1, <3>1, <3>2, Zenon
    <2>3. CASE v # <<>> /\ w # <<>> /\ Head(v) # Head(w)
      <3>1. TupleLeq(v, w) = (Head(v) < Head(w))
        BY <2>3, TupleLeqStep, Zenon
      <3>2. PythonLeq[<<v, w>>] = (Head(v) < Head(w))
        BY <2>3, PythonLeqStep, Zenon
      <3> QED
        BY <1>1, <3>1, <3>2, Zenon
    <2>4. CASE v # <<>> /\ w # <<>> /\ Head(v) = Head(w)
      <3>1. TupleLeq(v, w) = TupleLeq(Tail(v), Tail(w))
        BY <2>4, TupleLeqStep, Zenon
      <3>2. PythonLeq[<<v, w>>] = PythonLeq[<<Tail(v), Tail(w)>>]
        BY <2>4, PythonLeqStep, Zenon
      <3>3. ~Same(Tail(v), Tail(w))
        BY <1>1, <3>1, <3>2, Zenon
      <3> QED
        BY <2>4, <3>3, TailIs
    <2> QED
      BY <2>1, <2>2, <2>3, <2>4
  <1>2. \A v, w \in Version : ~Same(v, w) => Len(v) \in Bad
    <2> SUFFICES ASSUME NEW v \in Version, NEW w \in Version, ~Same(v, w)
                 PROVE  Len(v) \in Bad
      OBVIOUS
    <2>1. Len(v) \in Nat
      BY DEF Version
    <2> QED
      BY <2>1, Zenon
  <1>3. \A n \in Bad : n \in Nat /\ \E v, w \in Version : Len(v) = n /\ ~Same(v, w)
    BY Zenon
  <1> HIDE DEF Bad, Same
  <1>4. ASSUME NEW n \in Bad PROVE \E m \in Bad : <<m, n>> \in OpToRel(<, Nat)
    <2>1. PICK v \in Version, w \in Version : Len(v) = n /\ ~Same(v, w)
      BY <1>3
    <2>2. n - 1 \in Bad /\ n \in Nat \ {0}
      BY <1>1, <1>2, <2>1
    <2> QED
      BY <2>2 DEF OpToRel
  <1>5. Bad = {}
    BY <1>3, <1>4, NatLessThanWellFounded, WFMin
  <1> QED
    BY <1>2, <1>5 DEF Same

-----------------------------------------------------------------------------
(* Type correctness *)

TrailEntry == [event : Event, ok : BOOLEAN]

\* Appending an entry keeps the trails sequences of entries, and adds exactly
\* that entry at the end of one of them.
LEMMA LogType ==
  ASSUME TypeOK, NEW r \in Runs, NEW event \in Event, NEW result \in BOOLEAN,
         Log(r, event, result)
  PROVE  trail' \in [Runs -> Seq([event : Event, ok : BOOLEAN])]
  <1>1. [event |-> event, ok |-> result] \in TrailEntry
    BY DEF TrailEntry
  <1>2. trail[r] \in Seq(TrailEntry)
    BY DEF TypeOK, TrailEntry
  <1>3. Append(trail[r], [event |-> event, ok |-> result]) \in Seq(TrailEntry)
    BY <1>1, <1>2
  <1>4. trail \in [Runs -> Seq(TrailEntry)]
    BY DEF TypeOK, TrailEntry
  <1>5. trail' \in [Runs -> Seq(TrailEntry)]
    BY <1>3, <1>4 DEF Log
  <1> QED
    BY <1>5 DEF TrailEntry

\* A restore point name is a name.
LEMMA NameType ==
  ASSUME NEW id \in DOMAIN Registry, NEW stamp \in Stamps
  PROVE  RestorePointName(id, stamp) \in Names
  <1> DEFINE n == IF StampDigits(id) > 14 THEN 14 ELSE StampDigits(id)
  <1>1. stamp \in Seq(0 .. 9) /\ Len(stamp) = 14
    BY NameAssumption
  <1>2. n \in 0 .. 14
    <2>1. IdLength[id] \in Nat
      BY NameAssumption
    <2>2. StampDigits(id) \in Int /\ StampDigits(id) >= 2
      BY <2>1 DEF StampDigits
    <2> QED
      BY <2>2
  <1>3. SubSeq(stamp, 1, n) \in Seq(0 .. 9)
    <2> HIDE DEF n
    <2>1. n \in Int /\ 1 \in Int
      BY <1>2
    <2>2. \A i \in 1 .. Len(stamp) : stamp[i] \in 0 .. 9
      BY <1>1, ElementOfSeq
    <2>3. \A i \in 1 .. n : i \in 1 .. 14
      BY <1>2
    <2> QED
      BY <1>1, <2>1, <2>2, <2>3, SubSeqProperties
  <1> QED
    BY <1>3 DEF RestorePointName, Names

Plays == [state : PlayStates, at : DOMAIN Inventory]

\* A play that changes its state, or its host, is a play.
LEMMA PlayType ==
  ASSUME TypeOK, NEW r \in Runs, NEW state \in PlayStates
  PROVE  /\ Turn(r, state) => play' \in [Runs -> Plays]
         /\ \A at \in DOMAIN Inventory :
              play' = [play EXCEPT ![r] = [state |-> state, at |-> at]]
                => play' \in [Runs -> Plays]
  <1>1. play \in [Runs -> Plays]
    BY DEF TypeOK, Plays
  <1>2. [play[r] EXCEPT !.state = state] \in Plays
    BY <1>1 DEF Plays
  <1>3. \A at \in DOMAIN Inventory : [state |-> state, at |-> at] \in Plays
    BY DEF Plays
  <1>4. Turn(r, state) => play' \in [Runs -> Plays]
    BY <1>1, <1>2 DEF Turn
  <1> QED
    BY <1>1, <1>3, <1>4

\* A play is always at a host of the inventory, and the next one is there too
\* unless it was the last.
LEMMA InventoryType ==
  /\ DOMAIN Inventory = 1 .. Len(Inventory)
  /\ Len(Inventory) \in Nat
  /\ 1 \in DOMAIN Inventory
  /\ \A i \in DOMAIN Inventory :
       /\ Inventory[i] \in Hosts
       /\ i # Len(Inventory) => i + 1 \in DOMAIN Inventory
  <1>1. /\ DOMAIN Inventory = 1 .. Len(Inventory)
        /\ Len(Inventory) \in Nat
        /\ Len(Inventory) >= 1
    BY InventoryAssumption
  <1>2. \A i \in 1 .. Len(Inventory) : Inventory[i] \in Hosts
    BY InventoryAssumption, ElementOfSeq
  <1> QED
    BY <1>1, <1>2

\* Past the registry lookup and the version check, the plan is one the registry
\* vouches for; without it the restore point would have no name.
Vouched ==
  \A r \in Runs : pc[r] \in Working \ {"recommend", "vet"} => Vetted(plan[r])

TypeInv == TypeOK /\ Vouched

LEMMA InitTypeInv == Init => TypeInv
  <1> SUFFICES ASSUME Init PROVE TypeInv
    OBVIOUS
  <1>1. TypeOK
    BY InventoryAssumption DEF Init, TypeOK, Idle, Active, PlayStates, DbStates
  <1>2. Vouched
    BY DEF Init, Vouched, Working
  <1> QED
    BY <1>1, <1>2 DEF TypeInv

LEMMA NextTypeOK == TypeInv /\ [Next]_vars => TypeOK'
  <1> SUFFICES ASSUME TypeInv, [Next]_vars PROVE TypeOK'
    OBVIOUS
  <1> USE DEF TypeInv
  <1>0. TypeOK
    OBVIOUS
  <1> USE DEF TypeOK
  <1>1. CASE UNCHANGED vars
    BY <1>1 DEF vars, control, world
  <1>2. ASSUME NEW r \in Runs, Enter(r) PROVE TypeOK'
    BY <1>2 DEF Enter, Goto, Working, Ended, control, world
  <1>3. ASSUME NEW r \in Runs, Vet(r) PROVE TypeOK'
    BY <1>3 DEF Vet, Goto, Working, Ended, control, world
  <1>4. ASSUME NEW r \in Runs, Precheck(r) PROVE TypeOK'
    BY <1>4 DEF Precheck, Goto, Working, Ended, control, world, Result
  <1>5. ASSUME NEW r \in Runs, Confirm(r) PROVE TypeOK'
    BY <1>5 DEF Confirm, Goto, Working, Ended, control, world, Result
  <1>6. ASSUME NEW r \in Runs, PlayEnd(r) PROVE TypeOK'
    BY <1>6 DEF PlayEnd, Goto, Working, Ended, control, world, Result
  <1>7. ASSUME NEW r \in Runs, RollbackInfo(r) PROVE TypeOK'
    BY <1>7 DEF RollbackInfo, Goto, Working, Ended, control, world
  <1>8. ASSUME NEW r \in Runs, Kill(r) PROVE TypeOK'
    BY <1>8 DEF Kill, Goto, Working, Ended, control, world
  <1>9. ASSUME NEW r \in Runs, Apply(r) PROVE TypeOK'
    <2>1. play' \in [Runs -> Plays]
      BY <1>9, PlayType, InventoryType DEF Apply, PlayStates, Active
    <2> QED
      BY <1>9, <2>1 DEF Apply, Plays, Goto, Working, Ended, control, world
  <1>10. ASSUME NEW r \in Runs, HostFails(r) PROVE TypeOK'
    <2>1. play' \in [Runs -> Plays]
      BY <1>10, PlayType DEF HostFails, PlayStates, Active
    <2> QED
      BY <1>10, <2>1 DEF HostFails, Plays, control
  <1>11. ASSUME NEW r \in Runs, HostApply(r) PROVE TypeOK'
    <2>1. play' \in [Runs -> Plays]
      BY <1>11, PlayType DEF HostApply, PlayStates, Active
    <2>2. Inventory[play[r].at] \in Hosts
      BY InventoryType
    <2> QED
      BY <1>11, <2>1, <2>2 DEF HostApply, Plays, Current, control
  <1>12. ASSUME NEW r \in Runs, HostPass(r) PROVE TypeOK'
    <2>1. play' \in [Runs -> Plays]
      <3>1. CASE play[r].at = Len(Inventory)
        BY <1>12, <3>1, PlayType DEF HostPass, PlayStates, Active
      <3>2. CASE play[r].at # Len(Inventory)
        <4>1. play[r].at + 1 \in DOMAIN Inventory
          BY <3>2, InventoryType
        <4> QED
          BY <1>12, <3>2, <4>1, PlayType DEF HostPass, PlayStates, Active
      <3> QED
        BY <3>1, <3>2
    <2>2. Inventory[play[r].at] \in Hosts
      BY InventoryType
    <2> QED
      BY <1>12, <2>1, <2>2 DEF HostPass, Plays, Current, control
  <1>13. ASSUME NEW r \in Runs, Timeout(r) PROVE TypeOK'
    <2>1. play' \in [Runs -> Plays]
      BY <1>13, PlayType DEF Timeout, PlayStates, Active
    <2> QED
      BY <1>13, <2>1 DEF Timeout, Plays, Goto, Working, Ended, control, world,
         Result
  <1>14. ASSUME NEW r \in Runs, Abort(r) PROVE TypeOK'
    <2>1. play' \in [Runs -> Plays]
      BY <1>14, PlayType DEF Abort, PlayStates, Active, Plays
    <2> QED
      BY <1>14, <2>1 DEF Abort, Plays, Goto, Working, Ended, control, world
  <1>15. ASSUME NEW r \in Runs, PlayDies(r) PROVE TypeOK'
    <2>1. play' \in [Runs -> Plays]
      BY <1>15, PlayType DEF PlayDies, PlayStates, Active
    <2> QED
      BY <1>15, <2>1 DEF PlayDies, Plays, control
  <1>16. ASSUME NEW r \in Runs, Recommend(r) PROVE TypeOK'
    BY <1>16, LogType DEF Recommend, Goto, Working, Ended, control, world, Event
  <1>17. ASSUME NEW r \in Runs, Reject(r) PROVE TypeOK'
    BY <1>17, LogType DEF Reject, Goto, Working, Ended, control, world, Event
  <1>18. ASSUME NEW r \in Runs, LogApply(r) PROVE TypeOK'
    BY <1>18, LogType DEF LogApply, Goto, Working, Ended, control, world, Event
  <1>19. ASSUME NEW r \in Runs, LogFailure(r) PROVE TypeOK'
    BY <1>19, LogType DEF LogFailure, Goto, Working, Ended, control, world, Event
  <1>20. ASSUME NEW r \in Runs, LogSuccess(r) PROVE TypeOK'
    BY <1>20, LogType DEF LogSuccess, Goto, Working, Ended, control, world, Event
  <1>21. ASSUME NEW r \in Runs, LogDryRun(r) PROVE TypeOK'
    BY <1>21, LogType DEF LogDryRun, Goto, Working, Ended, control, world,
       LogResult, Event
  <1>22. ASSUME NEW r \in Runs, LogSnapshot(r) PROVE TypeOK'
    BY <1>22, LogType DEF LogSnapshot, Goto, Working, Ended, control, world,
       LogResult, Event
  <1>23. ASSUME NEW r \in Runs, LogDecision(r) PROVE TypeOK'
    BY <1>23, LogType DEF LogDecision, Goto, Working, Ended, control, world,
       LogResult, Event
  <1>24. ASSUME NEW r \in Runs, Snapshot(r) PROVE TypeOK'
    <2>1. plan[r].procedure \in DOMAIN Registry
      BY <1>24 DEF Snapshot, Vouched, Vetted, Known, Working
    <2>2. PICK stamp \in Stamps, result, created \in BOOLEAN :
            LET name == RestorePointName(plan[r].procedure, stamp)
            IN  /\ point' = [point EXCEPT ![r] = name]
                /\ points' = [points EXCEPT ![target[r]] =
                     @ \cup (IF created THEN {[name |-> name, by |-> r]} ELSE {})]
                /\ Result(r, result)
      BY <1>24 DEF Snapshot
    <2> DEFINE name == RestorePointName(plan[r].procedure, stamp)
    <2>3. name \in Names
      BY <2>1, NameType
    <2> HIDE DEF name
    <2>4. points' \in [Hosts -> SUBSET [name : Names, by : Runs]]
      BY <2>2, <2>3 DEF name
    <2>5. point' \in [Runs -> Names \cup {<<>>}]
      BY <2>2, <2>3 DEF name
    <2>6. ok' \in [Runs -> BOOLEAN]
      BY <2>2 DEF Result
    <2> QED
      BY <1>24, <2>4, <2>5, <2>6 DEF Snapshot, Goto, Working
  <1>25. ASSUME NEW r \in Runs, NEW h \in Hosts, RemoteEnd(r, h) PROVE TypeOK'
    <2>1. remote' \in [Hosts -> SUBSET Runs]
      BY <1>25 DEF RemoteEnd
    <2>2. \A state \in DbStates, effect \in Effects : After(state, effect) \in DbStates
      BY DEF After, Effects, DbStates
    <2>3. PICK effect \in Effects, success \in BOOLEAN :
            /\ db' = [db EXCEPT ![h] = After(@, effect)]
            /\ IF play[r].state = "change" /\ Current(r) = h
                 THEN Turn(r, IF success THEN "verify" ELSE "failed")
                 ELSE UNCHANGED play
      BY <1>25 DEF RemoteEnd
    <2>4. db' \in [Hosts -> DbStates]
      BY <2>2, <2>3
    <2>5. play' \in [Runs -> Plays]
      BY <2>3, PlayType DEF PlayStates, Active, Plays
    <2> QED
      BY <1>25, <2>1, <2>4, <2>5 DEF RemoteEnd, control, Plays
  <1> QED
    BY <1>1, <1>2, <1>3, <1>4, <1>5, <1>6, <1>7, <1>8, <1>9, <1>10, <1>11,
       <1>12, <1>13, <1>14, <1>15, <1>16, <1>17, <1>18, <1>19, <1>20, <1>21,
       <1>22, <1>23, <1>24, <1>25 DEF Next, Proceed

LEMMA NextVouched == TypeInv /\ [Next]_vars => Vouched'
  <1> SUFFICES ASSUME TypeInv, [Next]_vars PROVE Vouched'
    OBVIOUS
  <1>0. TypeInv
    OBVIOUS
  <1> USE DEF TypeInv, TypeOK, Vouched, Vetted, Known, Supported, Working
  <1>1. CASE UNCHANGED vars
    BY <1>1 DEF vars, control, world
  <1>2. ASSUME NEW r \in Runs, Enter(r) PROVE Vouched'
    BY <1>2 DEF Enter, Goto
  <1>3. ASSUME NEW r \in Runs, Recommend(r) PROVE Vouched'
    BY <1>3 DEF Recommend, Goto
  <1>4. ASSUME NEW r \in Runs, Vet(r) PROVE Vouched'
    BY <1>4 DEF Vet, Goto
  <1>5. ASSUME NEW r \in Runs, Reject(r) PROVE Vouched'
    BY <1>5 DEF Reject, Goto
  <1>6. ASSUME NEW r \in Runs, Precheck(r) PROVE Vouched'
    BY <1>6 DEF Precheck, Goto
  <1>7. ASSUME NEW r \in Runs, Snapshot(r) PROVE Vouched'
    BY <1>7 DEF Snapshot, Goto
  <1>8. ASSUME NEW r \in Runs, Confirm(r) PROVE Vouched'
    BY <1>8 DEF Confirm, Goto
  <1>9. ASSUME NEW r \in Runs, Apply(r) PROVE Vouched'
    BY <1>9 DEF Apply, Goto
  <1>10. ASSUME NEW r \in Runs, PlayEnd(r) PROVE Vouched'
    BY <1>10 DEF PlayEnd, Goto
  <1>11. ASSUME NEW r \in Runs, Timeout(r) PROVE Vouched'
    BY <1>11 DEF Timeout, Goto
  <1>12. ASSUME NEW r \in Runs, LogApply(r) PROVE Vouched'
    BY <1>12 DEF LogApply, Goto
  <1>13. ASSUME NEW r \in Runs, RollbackInfo(r) PROVE Vouched'
    BY <1>13 DEF RollbackInfo, Goto
  <1>14. ASSUME NEW r \in Runs, LogFailure(r) PROVE Vouched'
    BY <1>14 DEF LogFailure, Goto
  <1>15. ASSUME NEW r \in Runs, LogSuccess(r) PROVE Vouched'
    BY <1>15 DEF LogSuccess, Goto
  <1>16. ASSUME NEW r \in Runs, Abort(r) PROVE Vouched'
    BY <1>16 DEF Abort, Goto
  <1>17. ASSUME NEW r \in Runs, Kill(r) PROVE Vouched'
    BY <1>17 DEF Kill, Goto
  <1>18. ASSUME NEW r \in Runs, LogDryRun(r) PROVE Vouched'
    BY <1>18 DEF LogDryRun, LogResult, Goto
  <1>19. ASSUME NEW r \in Runs, LogSnapshot(r) PROVE Vouched'
    BY <1>19 DEF LogSnapshot, LogResult, Goto
  <1>20. ASSUME NEW r \in Runs, LogDecision(r) PROVE Vouched'
    BY <1>20 DEF LogDecision, LogResult, Goto
  <1>21. ASSUME NEW r \in Runs, HostFails(r) PROVE Vouched'
    BY <1>21 DEF HostFails, control
  <1>22. ASSUME NEW r \in Runs, HostApply(r) PROVE Vouched'
    BY <1>22 DEF HostApply, control
  <1>23. ASSUME NEW r \in Runs, HostPass(r) PROVE Vouched'
    BY <1>23 DEF HostPass, control
  <1>24. ASSUME NEW r \in Runs, PlayDies(r) PROVE Vouched'
    BY <1>24 DEF PlayDies, control
  <1>25. ASSUME NEW r \in Runs, NEW h \in Hosts, RemoteEnd(r, h) PROVE Vouched'
    BY <1>25 DEF RemoteEnd, control
  <1> QED
    BY <1>1, <1>2, <1>3, <1>4, <1>5, <1>6, <1>7, <1>8, <1>9, <1>10, <1>11,
       <1>12, <1>13, <1>14, <1>15, <1>16, <1>17, <1>18, <1>19, <1>20, <1>21,
       <1>22, <1>23, <1>24, <1>25 DEF Next, Proceed
LEMMA TypeInvariant == Spec => []TypeInv
  <1>1. TypeInv /\ [Next]_vars => TypeInv'
    BY NextTypeOK, NextVouched DEF TypeInv
  <1> QED
    BY InitTypeInv, <1>1, PTL DEF Spec

\* Every variable of the workflow keeps its type, for any number of runs, hosts
\* and plans (executor/executor.py:73-192).
THEOREM TypeCorrect == Spec => []TypeOK
  <1>1. TypeInv => TypeOK
    BY DEF TypeInv
  <1> QED
    BY TypeInvariant, <1>1, PTL

-----------------------------------------------------------------------------
(* The trail says how far a run has come *)

Through(r, k) ==
  /\ Len(trail[r]) >= k
  /\ \A i \in 1 .. k : trail[r][i] = GateEntries[i]

Logged(r, k) == Len(trail[r]) = k /\ Through(r, k)

Passed(r) == Through(r, 4)

\* Up to the apply play, the good entries of the gate and nothing else; after
\* it, those and more.
Trailed ==
  \A r \in Runs :
    /\ pc[r] \in {"idle", "recommend"} => Logged(r, 0)
    /\ pc[r] \in {"vet", "precheck", "log_dry_run"} => Logged(r, 1)
    /\ pc[r] \in {"snapshot", "log_snapshot"} => Logged(r, 2)
    /\ pc[r] \in {"confirm", "log_decision"} => Logged(r, 3)
    /\ pc[r] \in {"apply", "applying", "log_apply"} => Logged(r, 4)
    /\ pc[r] \in {"rollback_info", "log_failure", "log_success"} => Passed(r)

\* An audit entry leaves every earlier one where it is.
LEMMA LogEffect ==
  ASSUME TypeOK, NEW r \in Runs, NEW event, NEW result, Log(r, event, result)
  PROVE  /\ \A s \in Runs \ {r} : trail'[s] = trail[s]
         /\ Len(trail[r]) \in Nat
         /\ Len(trail'[r]) = Len(trail[r]) + 1
         /\ \A i \in 1 .. Len(trail[r]) : trail'[r][i] = trail[r][i]
         /\ trail'[r][Len(trail[r]) + 1] = [event |-> event, ok |-> result]
  <1> DEFINE entry == [event |-> event, ok |-> result]
  <1>1. trail' = [trail EXCEPT ![r] = Append(trail[r], entry)]
    BY DEF Log
  <1>2. trail[r] \in Seq(TrailEntry) /\ DOMAIN trail = Runs
    BY DEF TypeOK, TrailEntry
  <1>3. trail'[r] = Append(trail[r], entry) /\ \A s \in Runs \ {r} : trail'[s] = trail[s]
    BY <1>1, <1>2
  <1> HIDE DEF entry
  <1>4. /\ Len(trail[r]) \in Nat
        /\ Len(Append(trail[r], entry)) = Len(trail[r]) + 1
        /\ \A i \in 1 .. Len(trail[r]) : Append(trail[r], entry)[i] = trail[r][i]
        /\ Append(trail[r], entry)[Len(trail[r]) + 1] = entry
    BY <1>2
  <1> QED
    BY <1>3, <1>4 DEF entry

\* The next entry of the gate brings the run one entry further; any entry leaves
\* a run that has passed where it is.
LEMMA LogAdvances ==
  ASSUME TypeOK, NEW r \in Runs, NEW event, NEW result, Log(r, event, result)
  PROVE  /\ \A k \in 0 .. 3, n \in 1 .. 4 :
              /\ n = k + 1
              /\ Logged(r, k)
              /\ GateEntries[n] = [event |-> event, ok |-> result]
              => Logged(r, n)'
         /\ Passed(r) => Passed(r)'
         /\ \A s \in Runs \ {r} : /\ \A k \in 0 .. 4 : Logged(s, k) => Logged(s, k)'
                                  /\ Passed(s) => Passed(s)'
  <1>1. /\ \A s \in Runs \ {r} : trail'[s] = trail[s]
        /\ Len(trail[r]) \in Nat
        /\ Len(trail'[r]) = Len(trail[r]) + 1
        /\ \A i \in 1 .. Len(trail[r]) : trail'[r][i] = trail[r][i]
        /\ trail'[r][Len(trail[r]) + 1] = [event |-> event, ok |-> result]
    BY LogEffect
  <1>2. ASSUME NEW k \in 0 .. 3, NEW n \in 1 .. 4, n = k + 1, Logged(r, k),
               GateEntries[n] = [event |-> event, ok |-> result]
        PROVE  Logged(r, n)'
    <2>1. Len(trail'[r]) = k + 1
      BY <1>1, <1>2 DEF Logged
    <2>2. \A i \in 1 .. k : trail'[r][i] = GateEntries[i]
      BY <1>1, <1>2 DEF Logged, Through
    <2>3. trail'[r][n] = GateEntries[n]
      BY <1>1, <1>2 DEF Logged
    <2>4. \A i \in 1 .. n : i \in 1 .. k \/ i = n
      BY <1>2
    <2> QED
      BY <1>2, <2>1, <2>2, <2>3, <2>4 DEF Logged, Through
  <1>3. Passed(r) => Passed(r)'
    BY <1>1 DEF Passed, Through
  <1>4. \A s \in Runs \ {r} : /\ \A k \in 0 .. 4 : Logged(s, k) => Logged(s, k)'
                              /\ Passed(s) => Passed(s)'
    BY <1>1 DEF Logged, Passed, Through
  <1> QED
    BY <1>2, <1>3, <1>4

LEMMA GateEntriesAre ==
  /\ GateEntries[1] = [event |-> "recommendation", ok |-> TRUE]
  /\ GateEntries[2] = [event |-> "dry_run_result", ok |-> TRUE]
  /\ GateEntries[3] = [event |-> "snapshot", ok |-> TRUE]
  /\ GateEntries[4] = [event |-> "approval_decision", ok |-> TRUE]
  BY DEF GateEntries, Good

\* A run that is through the gate has passed it.
LEMMA LoggedPassed == \A r \in Runs : Logged(r, 4) => Passed(r)
  BY DEF Logged, Passed

\* A step that writes no entry keeps the trails.
LEMMA Unlogged ==
  ASSUME trail' = trail
  PROVE  \A r \in Runs : /\ \A k \in 0 .. 4 : Logged(r, k) => Logged(r, k)'
                         /\ Passed(r) => Passed(r)'
  BY DEF Logged, Passed, Through

LEMMA InitTrailed == Init => Trailed
  BY DEF Init, Trailed, Logged, Through

LEMMA NextTrailed == TypeInv /\ Trailed /\ [Next]_vars => Trailed'
  <1> SUFFICES ASSUME TypeInv, Trailed, [Next]_vars PROVE Trailed'
    OBVIOUS
  <1>0. TypeOK /\ pc \in [Runs -> {"idle"} \cup Working \cup Ended] /\ ok \in [Runs -> BOOLEAN]
    BY DEF TypeInv, TypeOK
  <1>1. CASE UNCHANGED vars
    BY <1>1, Unlogged DEF vars, control, Trailed
  <1>2. ASSUME NEW r \in Runs, Enter(r) PROVE Trailed'
    BY <1>0, <1>2, Unlogged, LoggedPassed DEF Enter, Goto, Trailed
  <1>3. ASSUME NEW r \in Runs, Vet(r) PROVE Trailed'
    BY <1>0, <1>3, Unlogged, LoggedPassed DEF Vet, Goto, Trailed
  <1>4. ASSUME NEW r \in Runs, Precheck(r) PROVE Trailed'
    BY <1>0, <1>4, Unlogged, LoggedPassed DEF Precheck, Goto, Trailed
  <1>5. ASSUME NEW r \in Runs, Snapshot(r) PROVE Trailed'
    BY <1>0, <1>5, Unlogged, LoggedPassed DEF Snapshot, Goto, Trailed
  <1>6. ASSUME NEW r \in Runs, Confirm(r) PROVE Trailed'
    BY <1>0, <1>6, Unlogged, LoggedPassed DEF Confirm, Goto, Trailed
  <1>7. ASSUME NEW r \in Runs, Apply(r) PROVE Trailed'
    BY <1>0, <1>7, Unlogged, LoggedPassed DEF Apply, Goto, Trailed
  <1>8. ASSUME NEW r \in Runs, PlayEnd(r) PROVE Trailed'
    BY <1>0, <1>8, Unlogged, LoggedPassed DEF PlayEnd, Goto, Trailed
  <1>9. ASSUME NEW r \in Runs, Timeout(r) PROVE Trailed'
    BY <1>0, <1>9, Unlogged, LoggedPassed DEF Timeout, Goto, Trailed
  <1>10. ASSUME NEW r \in Runs, RollbackInfo(r) PROVE Trailed'
    BY <1>0, <1>10, Unlogged, LoggedPassed DEF RollbackInfo, Goto, Trailed
  <1>11. ASSUME NEW r \in Runs, Abort(r) PROVE Trailed'
    BY <1>0, <1>11, Unlogged, LoggedPassed DEF Abort, Goto, Trailed
  <1>12. ASSUME NEW r \in Runs, Kill(r) PROVE Trailed'
    BY <1>0, <1>12, Unlogged, LoggedPassed DEF Kill, Goto, Trailed
  <1>13. ASSUME NEW r \in Runs, Recommend(r) PROVE Trailed'
    <2>1. Log(r, "recommendation", TRUE)
      BY <1>13 DEF Recommend
    <2>2. \A s \in Runs \ {r} : /\ \A k \in 0 .. 4 : Logged(s, k) => Logged(s, k)'
                                /\ Passed(s) => Passed(s)'
      BY <1>0, <2>1, LogAdvances
    <2>3. Logged(r, 0) => Logged(r, 1)'
      <3>1. 0 \in 0 .. 3 /\ 1 \in 1 .. 4 /\ 1 = 0 + 1
        OBVIOUS
      <3> QED
        BY <1>0, <2>1, <3>1, LogAdvances, GateEntriesAre, Zenon
    <2> QED
      BY <1>0, <1>13, <2>1, <2>2, <2>3 DEF Recommend, Goto, Trailed
  <1>14. ASSUME NEW r \in Runs, Reject(r) PROVE Trailed'
    <2>1. Log(r, "validation_result", FALSE)
      BY <1>14 DEF Reject
    <2>2. \A s \in Runs \ {r} : /\ \A k \in 0 .. 4 : Logged(s, k) => Logged(s, k)'
                                /\ Passed(s) => Passed(s)'
      BY <1>0, <2>1, LogAdvances
    <2> QED
      BY <1>0, <1>14, <2>1, <2>2 DEF Reject, Goto, Trailed
  <1>15. ASSUME NEW r \in Runs, LogApply(r) PROVE Trailed'
    <2>1. Log(r, "execution_output", ok[r])
      BY <1>15 DEF LogApply
    <2>2. \A s \in Runs \ {r} : /\ \A k \in 0 .. 4 : Logged(s, k) => Logged(s, k)'
                                /\ Passed(s) => Passed(s)'
      BY <1>0, <2>1, LogAdvances
    <2>3. Passed(r) => Passed(r)'
      BY <1>0, <2>1, LogAdvances
    <2> QED
      BY <1>0, <1>15, <2>1, <2>2, <2>3, LoggedPassed DEF LogApply, Goto, Trailed
  <1>16. ASSUME NEW r \in Runs, LogFailure(r) PROVE Trailed'
    <2>1. Log(r, "validation_result", FALSE)
      BY <1>16 DEF LogFailure
    <2>2. \A s \in Runs \ {r} : /\ \A k \in 0 .. 4 : Logged(s, k) => Logged(s, k)'
                                /\ Passed(s) => Passed(s)'
      BY <1>0, <2>1, LogAdvances
    <2> QED
      BY <1>0, <1>16, <2>1, <2>2 DEF LogFailure, Goto, Trailed
  <1>17. ASSUME NEW r \in Runs, LogSuccess(r) PROVE Trailed'
    <2>1. Log(r, "validation_result", TRUE)
      BY <1>17 DEF LogSuccess
    <2>2. \A s \in Runs \ {r} : /\ \A k \in 0 .. 4 : Logged(s, k) => Logged(s, k)'
                                /\ Passed(s) => Passed(s)'
      BY <1>0, <2>1, LogAdvances
    <2> QED
      BY <1>0, <1>17, <2>1, <2>2 DEF LogSuccess, Goto, Trailed
  <1>18. ASSUME NEW r \in Runs, LogDryRun(r) PROVE Trailed'
    <2>1. Log(r, "dry_run_result", ok[r])
      BY <1>18 DEF LogDryRun, LogResult
    <2>2. \A s \in Runs \ {r} : /\ \A k \in 0 .. 4 : Logged(s, k) => Logged(s, k)'
                                /\ Passed(s) => Passed(s)'
      BY <1>0, <2>1, LogAdvances
    <2>3. ok[r] /\ Logged(r, 1) => Logged(r, 2)'
      <3> SUFFICES ASSUME ok[r], Logged(r, 1) PROVE Logged(r, 2)'
        OBVIOUS
      <3>1. GateEntries[2] = [event |-> "dry_run_result", ok |-> ok[r]]
        BY <1>0, GateEntriesAre
      <3>2. 1 \in 0 .. 3 /\ 2 \in 1 .. 4 /\ 2 = 1 + 1
        OBVIOUS
      <3> QED
        BY <1>0, <2>1, <3>1, <3>2, LogAdvances, Zenon
    <2> QED
      BY <1>0, <1>18, <2>1, <2>2, <2>3 DEF LogDryRun, LogResult, Goto, Trailed
  <1>19. ASSUME NEW r \in Runs, LogSnapshot(r) PROVE Trailed'
    <2>1. Log(r, "snapshot", ok[r])
      BY <1>19 DEF LogSnapshot, LogResult
    <2>2. \A s \in Runs \ {r} : /\ \A k \in 0 .. 4 : Logged(s, k) => Logged(s, k)'
                                /\ Passed(s) => Passed(s)'
      BY <1>0, <2>1, LogAdvances
    <2>3. ok[r] /\ Logged(r, 2) => Logged(r, 3)'
      <3> SUFFICES ASSUME ok[r], Logged(r, 2) PROVE Logged(r, 3)'
        OBVIOUS
      <3>1. GateEntries[3] = [event |-> "snapshot", ok |-> ok[r]]
        BY <1>0, GateEntriesAre
      <3>2. 2 \in 0 .. 3 /\ 3 \in 1 .. 4 /\ 3 = 2 + 1
        OBVIOUS
      <3> QED
        BY <1>0, <2>1, <3>1, <3>2, LogAdvances, Zenon
    <2> QED
      BY <1>0, <1>19, <2>1, <2>2, <2>3 DEF LogSnapshot, LogResult, Goto, Trailed
  <1>20. ASSUME NEW r \in Runs, LogDecision(r) PROVE Trailed'
    <2>1. Log(r, "approval_decision", ok[r])
      BY <1>20 DEF LogDecision, LogResult
    <2>2. \A s \in Runs \ {r} : /\ \A k \in 0 .. 4 : Logged(s, k) => Logged(s, k)'
                                /\ Passed(s) => Passed(s)'
      BY <1>0, <2>1, LogAdvances
    <2>3. ok[r] /\ Logged(r, 3) => Logged(r, 4)'
      <3> SUFFICES ASSUME ok[r], Logged(r, 3) PROVE Logged(r, 4)'
        OBVIOUS
      <3>1. GateEntries[4] = [event |-> "approval_decision", ok |-> ok[r]]
        BY <1>0, GateEntriesAre
      <3>2. 3 \in 0 .. 3 /\ 4 \in 1 .. 4 /\ 4 = 3 + 1
        OBVIOUS
      <3> QED
        BY <1>0, <2>1, <3>1, <3>2, LogAdvances, Zenon
    <2> QED
      BY <1>0, <1>20, <2>1, <2>2, <2>3 DEF LogDecision, LogResult, Goto, Trailed
  <1>21. ASSUME NEW r \in Runs, HostFails(r) PROVE Trailed'
    BY <1>21, Unlogged DEF HostFails, control, Trailed
  <1>22. ASSUME NEW r \in Runs, HostApply(r) PROVE Trailed'
    BY <1>22, Unlogged DEF HostApply, control, Trailed
  <1>23. ASSUME NEW r \in Runs, HostPass(r) PROVE Trailed'
    BY <1>23, Unlogged DEF HostPass, control, Trailed
  <1>24. ASSUME NEW r \in Runs, PlayDies(r) PROVE Trailed'
    BY <1>24, Unlogged DEF PlayDies, control, Trailed
  <1>25. ASSUME NEW r \in Runs, NEW h \in Hosts, RemoteEnd(r, h) PROVE Trailed'
    BY <1>25, Unlogged DEF RemoteEnd, control, Trailed
  <1> QED
    BY <1>1, <1>2, <1>3, <1>4, <1>5, <1>6, <1>7, <1>8, <1>9, <1>10, <1>11,
       <1>12, <1>13, <1>14, <1>15, <1>16, <1>17, <1>18, <1>19, <1>20, <1>21,
       <1>22, <1>23, <1>24, <1>25 DEF Next, Proceed

-----------------------------------------------------------------------------
(* The play belongs to a run that has passed the gate *)

\* A play exists only once its run has gone past "apply", touches hosts only
\* while it exists, and is active only while its run waits for it or has been
\* killed.
Begun ==
  \A r \in Runs :
    /\ play[r].state # "none" =>
         pc[r] \in {"applying", "log_apply", "rollback_info", "log_failure",
                    "log_success"} \cup Ended
    /\ touched[r] # {} => play[r].state # "none"
    /\ play[r].state \in Active => pc[r] \in {"applying", "killed"}
    /\ pc[r] = "applying" => play[r].state # "none"

LEMMA InitBegun == Init => Begun
  BY DEF Init, Begun, Idle, Active

LEMMA NextBegun == TypeInv /\ Begun /\ [Next]_vars => Begun'
  <1> SUFFICES ASSUME TypeInv, Begun, [Next]_vars PROVE Begun'
    OBVIOUS
  <1>0. /\ pc \in [Runs -> {"idle"} \cup Working \cup Ended]
        /\ play \in [Runs -> Plays]
        /\ touched \in [Runs -> SUBSET Hosts]
        /\ verified \in [Runs -> SUBSET Hosts]
    BY DEF TypeInv, TypeOK, Plays
  <1>1. CASE UNCHANGED vars
    BY <1>0, <1>1 DEF vars, control, world, Begun, Active, Ended, Plays
  <1>2. ASSUME NEW r \in Runs, Enter(r) PROVE Begun'
    BY <1>0, <1>2 DEF Enter, Goto, world, Begun, Active, Ended, Plays
  <1>3. ASSUME NEW r \in Runs, Vet(r) PROVE Begun'
    BY <1>0, <1>3 DEF Vet, Goto, world, Begun, Active, Ended, Plays
  <1>4. ASSUME NEW r \in Runs, Precheck(r) PROVE Begun'
    BY <1>0, <1>4 DEF Precheck, Goto, world, Begun, Active, Ended, Plays
  <1>5. ASSUME NEW r \in Runs, Snapshot(r) PROVE Begun'
    BY <1>0, <1>5 DEF Snapshot, Goto, Begun, Active, Ended, Plays
  <1>6. ASSUME NEW r \in Runs, Confirm(r) PROVE Begun'
    BY <1>0, <1>6 DEF Confirm, Goto, world, Begun, Active, Ended, Plays
  <1>7. ASSUME NEW r \in Runs, Apply(r) PROVE Begun'
    BY <1>0, <1>7 DEF Apply, Goto, Begun, Active, Ended, Plays
  <1>8. ASSUME NEW r \in Runs, PlayEnd(r) PROVE Begun'
    BY <1>0, <1>8 DEF PlayEnd, Goto, world, Begun, Active, Ended, Plays
  <1>9. ASSUME NEW r \in Runs, Timeout(r) PROVE Begun'
    BY <1>0, <1>9 DEF Timeout, Goto, Turn, Begun, Active, Ended, Plays
  <1>10. ASSUME NEW r \in Runs, RollbackInfo(r) PROVE Begun'
    BY <1>0, <1>10 DEF RollbackInfo, Goto, world, Begun, Active, Ended, Plays
  <1>11. ASSUME NEW r \in Runs, Abort(r) PROVE Begun'
    BY <1>0, <1>11 DEF Abort, Goto, Turn, Begun, Active, Ended, Plays
  <1>12. ASSUME NEW r \in Runs, Kill(r) PROVE Begun'
    BY <1>0, <1>12 DEF Kill, Goto, world, Begun, Active, Ended, Plays
  <1>13. ASSUME NEW r \in Runs, Recommend(r) PROVE Begun'
    BY <1>0, <1>13 DEF Recommend, Goto, world, Begun, Active, Ended, Plays
  <1>14. ASSUME NEW r \in Runs, Reject(r) PROVE Begun'
    BY <1>0, <1>14 DEF Reject, Goto, world, Begun, Active, Ended, Plays
  <1>15. ASSUME NEW r \in Runs, LogApply(r) PROVE Begun'
    BY <1>0, <1>15 DEF LogApply, Goto, world, Begun, Active, Ended, Plays
  <1>16. ASSUME NEW r \in Runs, LogFailure(r) PROVE Begun'
    BY <1>0, <1>16 DEF LogFailure, Goto, world, Begun, Active, Ended, Plays
  <1>17. ASSUME NEW r \in Runs, LogSuccess(r) PROVE Begun'
    BY <1>0, <1>17 DEF LogSuccess, Goto, world, Begun, Active, Ended, Plays
  <1>18. ASSUME NEW r \in Runs, LogDryRun(r) PROVE Begun'
    BY <1>0, <1>18 DEF LogDryRun, LogResult, Goto, world, Begun, Active, Ended,
       Plays
  <1>19. ASSUME NEW r \in Runs, LogSnapshot(r) PROVE Begun'
    BY <1>0, <1>19 DEF LogSnapshot, LogResult, Goto, world, Begun, Active,
       Ended, Plays
  <1>20. ASSUME NEW r \in Runs, LogDecision(r) PROVE Begun'
    BY <1>0, <1>20 DEF LogDecision, LogResult, Goto, world, Begun, Active,
       Ended, Plays
  <1>21. ASSUME NEW r \in Runs, HostFails(r) PROVE Begun'
    BY <1>0, <1>21 DEF HostFails, control, Turn, Begun, Active, Ended, Plays
  <1>22. ASSUME NEW r \in Runs, HostApply(r) PROVE Begun'
    BY <1>0, <1>22 DEF HostApply, control, Turn, Begun, Active, Ended, Plays
  <1>23. ASSUME NEW r \in Runs, HostPass(r) PROVE Begun'
    BY <1>0, <1>23 DEF HostPass, control, Begun, Active, Ended, Plays
  <1>24. ASSUME NEW r \in Runs, PlayDies(r) PROVE Begun'
    BY <1>0, <1>24 DEF PlayDies, control, Turn, Begun, Active, Ended, Plays
  <1>25. ASSUME NEW r \in Runs, NEW h \in Hosts, RemoteEnd(r, h) PROVE Begun'
    BY <1>0, <1>25 DEF RemoteEnd, Turn, control, Begun, Active, Ended, Plays
  <1> QED
    BY <1>1, <1>2, <1>3, <1>4, <1>5, <1>6, <1>7, <1>8, <1>9, <1>10, <1>11,
       <1>12, <1>13, <1>14, <1>15, <1>16, <1>17, <1>18, <1>19, <1>20, <1>21,
       <1>22, <1>23, <1>24, <1>25 DEF Next, Proceed

-----------------------------------------------------------------------------
(* No change without the gate *)

\* A step writes at most one audit entry, and never another plan.
LEMMA StepLogs ==
  [Next]_vars => /\ plan' = plan
                 /\ \/ trail' = trail
                    \/ \E r \in Runs : \E event, result : Log(r, event, result)
  <1> SUFFICES ASSUME [Next]_vars
               PROVE  /\ plan' = plan
                      /\ \/ trail' = trail
                         \/ \E r \in Runs : \E event, result : Log(r, event, result)
    OBVIOUS
  <1> DEFINE Goal == /\ plan' = plan
                     /\ \/ trail' = trail
                        \/ \E r \in Runs : \E event, result : Log(r, event, result)
  <1>1. CASE UNCHANGED vars
    BY <1>1 DEF vars, control
  <1>2. ASSUME NEW r \in Runs, Enter(r) PROVE Goal
    BY <1>2 DEF Enter
  <1>3. ASSUME NEW r \in Runs, Vet(r) PROVE Goal
    BY <1>3 DEF Vet
  <1>4. ASSUME NEW r \in Runs, Precheck(r) PROVE Goal
    BY <1>4 DEF Precheck
  <1>5. ASSUME NEW r \in Runs, Snapshot(r) PROVE Goal
    BY <1>5 DEF Snapshot
  <1>6. ASSUME NEW r \in Runs, Confirm(r) PROVE Goal
    BY <1>6 DEF Confirm
  <1>7. ASSUME NEW r \in Runs, Apply(r) PROVE Goal
    BY <1>7 DEF Apply
  <1>8. ASSUME NEW r \in Runs, PlayEnd(r) PROVE Goal
    BY <1>8 DEF PlayEnd
  <1>9. ASSUME NEW r \in Runs, Timeout(r) PROVE Goal
    BY <1>9 DEF Timeout
  <1>10. ASSUME NEW r \in Runs, RollbackInfo(r) PROVE Goal
    BY <1>10 DEF RollbackInfo
  <1>11. ASSUME NEW r \in Runs, Abort(r) PROVE Goal
    BY <1>11 DEF Abort
  <1>12. ASSUME NEW r \in Runs, Kill(r) PROVE Goal
    BY <1>12 DEF Kill
  <1>13. ASSUME NEW r \in Runs, Recommend(r) PROVE Goal
    BY <1>13 DEF Recommend
  <1>14. ASSUME NEW r \in Runs, Reject(r) PROVE Goal
    BY <1>14 DEF Reject
  <1>15. ASSUME NEW r \in Runs, LogApply(r) PROVE Goal
    BY <1>15 DEF LogApply
  <1>16. ASSUME NEW r \in Runs, LogFailure(r) PROVE Goal
    BY <1>16 DEF LogFailure
  <1>17. ASSUME NEW r \in Runs, LogSuccess(r) PROVE Goal
    BY <1>17 DEF LogSuccess
  <1>18. ASSUME NEW r \in Runs, LogDryRun(r) PROVE Goal
    BY <1>18 DEF LogDryRun, LogResult
  <1>19. ASSUME NEW r \in Runs, LogSnapshot(r) PROVE Goal
    BY <1>19 DEF LogSnapshot, LogResult
  <1>20. ASSUME NEW r \in Runs, LogDecision(r) PROVE Goal
    BY <1>20 DEF LogDecision, LogResult
  <1>21. ASSUME NEW r \in Runs, HostFails(r) PROVE Goal
    BY <1>21 DEF HostFails, control
  <1>22. ASSUME NEW r \in Runs, HostApply(r) PROVE Goal
    BY <1>22 DEF HostApply, control
  <1>23. ASSUME NEW r \in Runs, HostPass(r) PROVE Goal
    BY <1>23 DEF HostPass, control
  <1>24. ASSUME NEW r \in Runs, PlayDies(r) PROVE Goal
    BY <1>24 DEF PlayDies, control
  <1>25. ASSUME NEW r \in Runs, NEW h \in Hosts, RemoteEnd(r, h) PROVE Goal
    BY <1>25 DEF RemoteEnd, control
  <1> QED
    BY <1>1, <1>2, <1>3, <1>4, <1>5, <1>6, <1>7, <1>8, <1>9, <1>10, <1>11,
       <1>12, <1>13, <1>14, <1>15, <1>16, <1>17, <1>18, <1>19, <1>20, <1>21,
       <1>22, <1>23, <1>24, <1>25 DEF Next, Proceed

\* The audit trail of a run only grows: what it holds stays where it is.
LEMMA TrailsGrow ==
  TypeOK /\ [Next]_vars =>
    \A r \in Runs : /\ Len(trail'[r]) >= Len(trail[r])
                    /\ \A i \in 1 .. Len(trail[r]) : trail'[r][i] = trail[r][i]
  <1> SUFFICES ASSUME TypeOK, [Next]_vars, NEW r \in Runs
               PROVE  /\ Len(trail'[r]) >= Len(trail[r])
                      /\ \A i \in 1 .. Len(trail[r]) : trail'[r][i] = trail[r][i]
    OBVIOUS
  <1>1. Len(trail[r]) \in Nat
    BY DEF TypeOK
  <1>2. CASE trail' = trail
    BY <1>1, <1>2
  <1>3. ASSUME NEW s \in Runs, NEW event, NEW result, Log(s, event, result)
        PROVE  /\ Len(trail'[r]) >= Len(trail[r])
               /\ \A i \in 1 .. Len(trail[r]) : trail'[r][i] = trail[r][i]
    <2>1. CASE r = s
      <3>1. /\ Len(trail'[s]) = Len(trail[s]) + 1
            /\ \A i \in 1 .. Len(trail[s]) : trail'[s][i] = trail[s][i]
        BY <1>3, LogEffect
      <3> QED
        BY <1>1, <2>1, <3>1
    <2>2. CASE r # s
      <3>1. trail'[r] = trail[r]
        BY <1>3, <2>2, LogEffect
      <3> QED
        BY <1>1, <3>1
    <2> QED
      BY <2>1, <2>2
  <1> QED
    BY <1>2, <1>3, StepLogs

\* Only run_apply() starts a play.
LEMMA StartsByApply ==
  \A r \in Runs :
    TypeOK /\ [Next]_vars /\ play[r].state = "none" /\ play'[r].state # "none" => Apply(r)
  <1> SUFFICES ASSUME TypeOK, [Next]_vars, NEW r \in Runs,
                      play[r].state = "none", play'[r].state # "none"
               PROVE  Apply(r)
    OBVIOUS
  <1>0. play \in [Runs -> Plays]
    BY DEF TypeOK, Plays
  <1>1. CASE UNCHANGED vars
    BY <1>1 DEF vars, world
  <1>2. ASSUME NEW s \in Runs, Enter(s) PROVE Apply(r)
    BY <1>0, <1>2 DEF Enter, world, Active, Plays
  <1>3. ASSUME NEW s \in Runs, Vet(s) PROVE Apply(r)
    BY <1>0, <1>3 DEF Vet, world, Active, Plays
  <1>4. ASSUME NEW s \in Runs, Precheck(s) PROVE Apply(r)
    BY <1>0, <1>4 DEF Precheck, world, Active, Plays
  <1>5. ASSUME NEW s \in Runs, Snapshot(s) PROVE Apply(r)
    BY <1>0, <1>5 DEF Snapshot, Active, Plays
  <1>6. ASSUME NEW s \in Runs, Confirm(s) PROVE Apply(r)
    BY <1>0, <1>6 DEF Confirm, world, Active, Plays
  <1>7. ASSUME NEW s \in Runs, Apply(s) PROVE Apply(r)
    BY <1>0, <1>7 DEF Apply
  <1>8. ASSUME NEW s \in Runs, PlayEnd(s) PROVE Apply(r)
    BY <1>0, <1>8 DEF PlayEnd, world, Active, Plays
  <1>9. ASSUME NEW s \in Runs, Timeout(s) PROVE Apply(r)
    BY <1>0, <1>9 DEF Timeout, Turn, Active, Plays
  <1>10. ASSUME NEW s \in Runs, RollbackInfo(s) PROVE Apply(r)
    BY <1>0, <1>10 DEF RollbackInfo, world, Active, Plays
  <1>11. ASSUME NEW s \in Runs, Abort(s) PROVE Apply(r)
    BY <1>0, <1>11 DEF Abort, Turn, Active, Plays
  <1>12. ASSUME NEW s \in Runs, Kill(s) PROVE Apply(r)
    BY <1>0, <1>12 DEF Kill, world, Active, Plays
  <1>13. ASSUME NEW s \in Runs, Recommend(s) PROVE Apply(r)
    BY <1>0, <1>13 DEF Recommend, world, Active, Plays
  <1>14. ASSUME NEW s \in Runs, Reject(s) PROVE Apply(r)
    BY <1>0, <1>14 DEF Reject, world, Active, Plays
  <1>15. ASSUME NEW s \in Runs, LogApply(s) PROVE Apply(r)
    BY <1>0, <1>15 DEF LogApply, world, Active, Plays
  <1>16. ASSUME NEW s \in Runs, LogFailure(s) PROVE Apply(r)
    BY <1>0, <1>16 DEF LogFailure, world, Active, Plays
  <1>17. ASSUME NEW s \in Runs, LogSuccess(s) PROVE Apply(r)
    BY <1>0, <1>17 DEF LogSuccess, world, Active, Plays
  <1>18. ASSUME NEW s \in Runs, LogDryRun(s) PROVE Apply(r)
    BY <1>0, <1>18 DEF LogDryRun, LogResult, world, Active, Plays
  <1>19. ASSUME NEW s \in Runs, LogSnapshot(s) PROVE Apply(r)
    BY <1>0, <1>19 DEF LogSnapshot, LogResult, world, Active, Plays
  <1>20. ASSUME NEW s \in Runs, LogDecision(s) PROVE Apply(r)
    BY <1>0, <1>20 DEF LogDecision, LogResult, world, Active, Plays
  <1>21. ASSUME NEW s \in Runs, HostFails(s) PROVE Apply(r)
    BY <1>0, <1>21 DEF HostFails, Turn, Active, Plays
  <1>22. ASSUME NEW s \in Runs, HostApply(s) PROVE Apply(r)
    BY <1>0, <1>22 DEF HostApply, Turn, Active, Plays
  <1>23. ASSUME NEW s \in Runs, HostPass(s) PROVE Apply(r)
    BY <1>0, <1>23 DEF HostPass, Active, Plays
  <1>24. ASSUME NEW s \in Runs, PlayDies(s) PROVE Apply(r)
    BY <1>0, <1>24 DEF PlayDies, Turn, Active, Plays
  <1>25. ASSUME NEW s \in Runs, NEW h \in Hosts, RemoteEnd(s, h) PROVE Apply(r)
    BY <1>0, <1>25 DEF RemoteEnd, Turn, Plays
  <1> QED
    BY <1>1, <1>2, <1>3, <1>4, <1>5, <1>6, <1>7, <1>8, <1>9, <1>10, <1>11,
       <1>12, <1>13, <1>14, <1>15, <1>16, <1>17, <1>18, <1>19, <1>20, <1>21,
       <1>22, <1>23, <1>24, <1>25 DEF Next, Proceed

\* A run whose play exists has passed the gate, with a plan the registry vouches
\* for.
GatePassed ==
  \A r \in Runs : play[r].state # "none" => Passed(r) /\ Vetted(plan[r])

LEMMA NextGatePassed ==
  TypeInv /\ Trailed /\ GatePassed /\ [Next]_vars => GatePassed'
  <1> SUFFICES ASSUME TypeInv, Trailed, GatePassed, [Next]_vars,
                      NEW r \in Runs, play'[r].state # "none"
               PROVE  Passed(r)' /\ Vetted(plan[r])'
    BY DEF GatePassed
  <1>1. Passed(r) => Passed(r)'
    <2>1. /\ Len(trail'[r]) >= Len(trail[r])
          /\ \A i \in 1 .. Len(trail[r]) : trail'[r][i] = trail[r][i]
      BY TrailsGrow DEF TypeInv
    <2>2. Len(trail[r]) \in Nat
      BY DEF TypeInv, TypeOK
    <2>3. Len(trail'[r]) \in Nat
      BY NextTypeOK DEF TypeOK
    <2> QED
      BY <2>1, <2>2, <2>3 DEF Passed, Through
  <1>2. Vetted(plan[r]) => Vetted(plan[r])'
    BY StepLogs DEF Vetted, Known, Supported
  <1>3. CASE play[r].state # "none"
    BY <1>1, <1>2, <1>3 DEF GatePassed
  <1>4. CASE play[r].state = "none"
    <2>1. Apply(r)
      BY <1>4, StartsByApply DEF TypeInv
    <2>2. Passed(r)
      BY <2>1, LoggedPassed DEF Apply, Trailed
    <2>3. Vetted(plan[r])
      BY <2>1 DEF Apply, TypeInv, Vouched, Working
    <2> QED
      BY <1>1, <1>2, <2>2, <2>3
  <1> QED
    BY <1>3, <1>4

GateInv == TypeInv /\ Trailed /\ Begun /\ GatePassed

LEMMA GateInvariant == Spec => []GateInv
  <1>1. Init => GateInv
    <2>1. Init => GatePassed
      BY DEF Init, GatePassed, Idle
    <2> QED
      BY <2>1, InitTypeInv, InitTrailed, InitBegun DEF GateInv
  <1>2. GateInv /\ [Next]_vars => GateInv'
    BY NextTypeOK, NextVouched, NextTrailed, NextBegun, NextGatePassed DEF
       GateInv, TypeInv
  <1> QED
    BY <1>1, <1>2, PTL DEF Spec

\* No change command is ever started for a run, by its process or by a play that
\* outlived it, unless the audit log already holds the whole gate: recommendation,
\* good dry run, restore point, approval (executor/executor.py:79-152).
THEOREM ChangeIsGated == Spec => []GatedChange
  <1>1. GateInv => GatedChange
    BY DEF GateInv, Begun, GatePassed, Passed, Through, GatedChange
  <1> QED
    BY GateInvariant, <1>1, PTL

-----------------------------------------------------------------------------
(* The trail and the registry *)

\* What the workflow vouches for is what the registry says in Python's order.
LEMMA VettedIsInRegistry ==
  ASSUME NEW p \in Plans
  PROVE  Vetted(p) <=> InRegistry(p)
  <1>1. CASE p.procedure \in DOMAIN Registry
    <2> DEFINE range == Registry[p.procedure]
    <2>1. p.version \in Version /\ range.min \in Version /\ range.max \in Version
      BY <1>1, PlansAssumption, RegistryAssumption
    <2>2. /\ TupleLeq(range.min, p.version) = PythonLeq[<<range.min, p.version>>]
          /\ TupleLeq(p.version, range.max) = PythonLeq[<<p.version, range.max>>]
      <3> HIDE DEF range
      <3> QED
        BY <2>1, TupleLeqIsPythons, Zenon
    <2> QED
      BY <1>1, <2>2 DEF Vetted, Known, Supported, InRange, InRegistry
  <1>2. CASE p.procedure \notin DOMAIN Registry
    BY <1>2 DEF Vetted, Known, InRegistry
  <1> QED
    BY <1>1, <1>2

\* The results of the dry run and of the validation are written by these steps:
\* the dry run of a plan that has been vetted, and the validation of one that has
\* not or of a run that is through the gate.
LEMMA StepRecords ==
  TypeInv /\ Trailed /\ [Next]_vars =>
    \/ trail' = trail
    \/ \E r \in Runs : \E event, result :
         /\ Log(r, event, result)
         /\ event = "dry_run_result" => Vetted(plan[r])
         /\ event = "validation_result" => Passed(r) \/ ~Vetted(plan[r])
  <1> SUFFICES ASSUME TypeInv, Trailed, [Next]_vars, trail' # trail
               PROVE  \E r \in Runs : \E event, result :
                        /\ Log(r, event, result)
                        /\ event = "dry_run_result" => Vetted(plan[r])
                        /\ event = "validation_result" => Passed(r) \/ ~Vetted(plan[r])
    OBVIOUS
  <1>1. PICK r \in Runs :
          \/ Recommend(r) \/ Reject(r) \/ LogDryRun(r) \/ LogSnapshot(r)
          \/ LogDecision(r) \/ LogApply(r) \/ LogFailure(r) \/ LogSuccess(r)
    BY DEF Next, Proceed, vars, control, Enter, Vet, Precheck, Snapshot, Confirm,
           Apply, HostFails, HostApply, HostPass, RemoteEnd, PlayEnd, Timeout,
           RollbackInfo, Abort, Kill, PlayDies
  <1>2. CASE Recommend(r)
    <2>1. Log(r, "recommendation", TRUE)
      BY <1>2 DEF Recommend
    <2>2. "recommendation" # "dry_run_result" /\ "recommendation" # "validation_result"
      OBVIOUS
    <2> QED
      BY <2>1, <2>2, Zenon
  <1>3. CASE Reject(r)
    BY <1>3, Zenon DEF Reject
  <1>4. CASE LogDryRun(r)
    <2>1. Vetted(plan[r])
      BY <1>4 DEF LogDryRun, TypeInv, Vouched, Working
    <2> QED
      BY <1>4, <2>1 DEF LogDryRun, LogResult
  <1>5. CASE LogSnapshot(r)
    BY <1>5 DEF LogSnapshot, LogResult
  <1>6. CASE LogDecision(r)
    BY <1>6 DEF LogDecision, LogResult
  <1>7. CASE LogApply(r)
    BY <1>7 DEF LogApply
  <1>8. CASE LogFailure(r)
    <2>1. Passed(r)
      BY <1>8 DEF LogFailure, Trailed
    <2> QED
      BY <1>8, <2>1, Zenon DEF LogFailure
  <1>9. CASE LogSuccess(r)
    <2>1. Passed(r)
      BY <1>9 DEF LogSuccess, Trailed
    <2> QED
      BY <1>9, <2>1, Zenon DEF LogSuccess
  <1> QED
    BY <1>1, <1>2, <1>3, <1>4, <1>5, <1>6, <1>7, <1>8, <1>9

\* What the registry says of a plan, on record.
PlanRecorded ==
  \A r \in Runs :
    /\ OnRecord(r, "dry_run_result") => Vetted(plan[r])
    /\ OnRecord(r, "validation_result") /\ ~OnRecord(r, "dry_run_result")
         => ~Vetted(plan[r])

\* An audit entry puts its own event on record and no other.
LEMMA LogRecords ==
  ASSUME TypeOK, NEW r \in Runs, NEW event, NEW result, Log(r, event, result),
         NEW s \in Runs, NEW e
  PROVE  OnRecord(s, e)' <=> OnRecord(s, e) \/ (s = r /\ e = event)
  <1>1. /\ \A t \in Runs \ {r} : trail'[t] = trail[t]
        /\ Len(trail[r]) \in Nat
        /\ Len(trail'[r]) = Len(trail[r]) + 1
        /\ \A i \in 1 .. Len(trail[r]) : trail'[r][i] = trail[r][i]
        /\ trail'[r][Len(trail[r]) + 1] = [event |-> event, ok |-> result]
    BY LogEffect
  <1>2. CASE s # r
    BY <1>1, <1>2 DEF OnRecord
  <1>3. CASE s = r
    <2>1. DOMAIN trail[r] = 1 .. Len(trail[r])
      BY DEF TypeOK
    <2>2. DOMAIN trail'[r] = 1 .. Len(trail'[r])
      <3>1. trail'[r] = Append(trail[r], [event |-> event, ok |-> result])
            /\ trail[r] \in Seq(TrailEntry)
        BY DEF Log, TypeOK, TrailEntry
      <3> QED
        BY <3>1
    <2>3. \A i : i \in DOMAIN trail'[r] <=>
                   i \in DOMAIN trail[r] \/ i = Len(trail[r]) + 1
      BY <1>1, <2>1, <2>2
    <2>4. trail'[r][Len(trail[r]) + 1].event = event
      BY <1>1
    <2>5. \A i \in DOMAIN trail[r] : trail'[r][i].event = trail[r][i].event
      BY <1>1, <2>1
    <2> QED
      BY <1>3, <2>3, <2>4, <2>5, Zenon DEF OnRecord
  <1> QED
    BY <1>2, <1>3

LEMMA NextPlanRecorded ==
  TypeInv /\ Trailed /\ PlanRecorded /\ [Next]_vars => PlanRecorded'
  <1> SUFFICES ASSUME TypeInv, Trailed, PlanRecorded, [Next]_vars PROVE PlanRecorded'
    OBVIOUS
  <1>0. TypeOK /\ plan' = plan /\ \A s \in Runs : Vetted(plan[s])' <=> Vetted(plan[s])
    BY StepLogs DEF TypeInv, Vetted, Known, Supported
  <1>1. CASE trail' = trail
    BY <1>0, <1>1 DEF PlanRecorded, OnRecord
  <1>2. ASSUME NEW r \in Runs, NEW event, NEW result,
               Log(r, event, result),
               event = "dry_run_result" => Vetted(plan[r]),
               event = "validation_result" => Passed(r) \/ ~Vetted(plan[r])
        PROVE  PlanRecorded'
    <2>1. Passed(r) => OnRecord(r, "dry_run_result")
      <3> SUFFICES ASSUME Passed(r) PROVE OnRecord(r, "dry_run_result")
        OBVIOUS
      <3>1. 2 \in DOMAIN trail[r] /\ trail[r][2] = GateEntries[2]
        BY <1>0 DEF TypeOK, Passed, Through
      <3> QED
        BY <3>1, GateEntriesAre DEF OnRecord
    <2>2. \A s \in Runs : \A e :
            OnRecord(s, e)' <=> OnRecord(s, e) \/ (s = r /\ e = event)
      BY <1>0, <1>2, LogRecords
    <2> QED
      BY <1>0, <1>2, <2>1, <2>2 DEF PlanRecorded
  <1> QED
    BY <1>1, <1>2, StepRecords

\* The audit trail never says of a plan what the registry denies: a host is
\* prechecked only for a plan whose version the registry supports, by Python's
\* order, and only a plan it does not support is rejected
\* (executor/executor.py:80-101).
THEOREM TrailAgrees == Spec => []TrailAgreesWithRegistry
  <1>1. Init => PlanRecorded
    BY DEF Init, PlanRecorded, OnRecord
  <1>2. TypeInv /\ PlanRecorded => TrailAgreesWithRegistry
    <2>1. TypeInv => \A r \in Runs : Vetted(plan[r]) <=> InRegistry(plan[r])
      BY VettedIsInRegistry DEF TypeInv, TypeOK
    <2> QED
      BY <2>1 DEF PlanRecorded, TrailAgreesWithRegistry
  <1>3. GateInv => TypeInv /\ Trailed
    BY DEF GateInv
  <1> QED
    BY <1>1, <1>2, <1>3, NextPlanRecorded, GateInvariant, PTL DEF Spec

-----------------------------------------------------------------------------
(* No new host after the end *)

\* Once the workflow is over, except by SIGKILL, no further host is touched
\* (executor/ansible_runner.py:59-69).
THEOREM NothingStarts == Spec => NothingStartsAfterEnd
  <1> DEFINE Kept == \A r \in Runs :
               pc[r] \in {"halted", "returned", "raised"} => touched'[r] = touched[r]
  <1>1. GateInv /\ [Next]_vars => Kept
    <2> SUFFICES ASSUME GateInv, [Next]_vars, NEW r \in Runs,
                        pc[r] \in {"halted", "returned", "raised"}
                 PROVE  touched'[r] = touched[r]
      OBVIOUS
    <2>1. play[r].state # "gate" /\ touched \in [Runs -> SUBSET Hosts]
      BY DEF GateInv, Begun, Active, TypeInv, TypeOK
    <2>2. ASSUME NEW s \in Runs, Enter(s) \/ Proceed(s) \/ Confirm(s)
          PROVE  touched' = touched
      <3>1. CASE Enter(s) \/ Confirm(s)
        BY <3>1 DEF Enter, Confirm, world
      <3>2. CASE Recommend(s) \/ Vet(s) \/ Reject(s) \/ Precheck(s) \/ LogDryRun(s)
        BY <3>2 DEF Recommend, Vet, Reject, Precheck, LogDryRun, LogResult, world
      <3>3. CASE Snapshot(s) \/ LogSnapshot(s) \/ LogDecision(s) \/ Apply(s)
        BY <3>3 DEF Snapshot, LogSnapshot, LogDecision, LogResult, Apply, world
      <3>4. CASE PlayEnd(s) \/ Timeout(s) \/ LogApply(s) \/ RollbackInfo(s)
        BY <3>4 DEF PlayEnd, Timeout, LogApply, RollbackInfo, LogResult, world
      <3>5. CASE LogFailure(s) \/ LogSuccess(s)
        BY <3>5 DEF LogFailure, LogSuccess, LogResult, world
      <3> QED
        BY <2>2, <3>1, <3>2, <3>3, <3>4, <3>5 DEF Proceed
    <2>3. ASSUME NEW s \in Runs, HostFails(s) \/ HostPass(s) \/ (\E h \in Hosts : RemoteEnd(s, h))
          PROVE  touched' = touched
      BY <2>3 DEF HostFails, HostPass, RemoteEnd
    <2>4. ASSUME NEW s \in Runs, Abort(s) \/ Kill(s) \/ PlayDies(s)
          PROVE  touched' = touched
      BY <2>4 DEF Abort, Kill, PlayDies, world
    <2>5. CASE UNCHANGED vars
      BY <2>5 DEF vars, world
    <2>6. ASSUME NEW s \in Runs, HostApply(s) PROVE touched'[r] = touched[r]
      BY <2>1, <2>6 DEF HostApply
    <2> QED
      BY <2>2, <2>3, <2>4, <2>5, <2>6 DEF Next
  <1> HIDE DEF Kept
  <1>2. Spec => [][Kept]_vars
    BY GateInvariant, <1>1, PTL DEF Spec
  <1> QED
    BY <1>2 DEF NothingStartsAfterEnd, Kept

=============================================================================
