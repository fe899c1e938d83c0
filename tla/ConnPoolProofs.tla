--------------------------- MODULE ConnPoolProofs ----------------------------
(***************************************************************************)
(* Theorems about ConnPool: for any number of clients, any pool sizes and   *)
(* any number of streams per connection.                                   *)
(***************************************************************************)
EXTENDS ConnPool, FiniteSetTheorems, TLAPS

------------------------------------------------------------------------------
(* The inductive invariant.                                                  *)

\* The slots, apart from the others, whose proofs need not look into them.
SlotTypes == conns \in [Slots -> SlotStates]

\* The types, where ref may still be negative.
Types ==
  /\ reuse \in BOOLEAN
  /\ ref \in Int /\ leaked \in Nat
  /\ current \in 1 .. MaxActive
  /\ SlotTypes
  /\ mutex \in Clients \cup {None}
  /\ pc \in [Clients -> PCs]
  /\ nextRef \in [Clients -> Nat]
  /\ cur \in [Clients -> 0 .. MaxActive]
  /\ limit \in [Clients -> 0 .. MaxActive]
  /\ slot \in [Clients -> Slots]
  /\ hold \in [Clients -> Holds]
  /\ gets \in [Clients -> 0 .. MaxGets]

Locked == {"grow", "loadRef", "delete"}

\* Who is between Lock and Unlock has the lock, and nobody else.
LockInv ==
  /\ mutex # None => pc[mutex] \in Locked
  /\ \A c \in Clients : pc[c] \in Locked => mutex = c

\* The slots below size have open connections, and no others have.
OpenBelow(size) == \A i \in Slots : conns[i] = "open" <=> i < size

\* The slots in use are those below current, or below how far a Get has come
\* in growing the pool.
SlotInv ==
  /\ MaxIdle <= current
  /\ (\A c \in Clients : pc[c] # "grow") => OpenBelow(current)
  /\ \A c \in Clients : pc[c] = "grow" =>
       current <= cur[c] /\ cur[c] <= limit[c] /\ OpenBelow(cur[c])

\* The clients whose reference is counted.
CountedClients == {c \in Clients : Counted(c)}

Uncounted == {"out", "check", "shrinkLock", "loadRef", "delete"}

RefInv == ref = Cardinality(CountedClients) + leaked

\* Nothing that a Get has read or picked lies above current; and when a shrink
\* has found no reference, whoever comes waits for its lock.
PickInv ==
  /\ \A c \in Clients : pc[c] = "decide" => cur[c] <= current
  /\ \A c \in Clients : pc[c] = "take" => slot[c] < current
  /\ \A c \in Clients : pc[c] = "held" => hold[c] \in {"pooled", "once"}
  /\ \A c \in Clients : pc[c] = "held" /\ hold[c] = "pooled" => slot[c] < current
  /\ \A c, d \in Clients : pc[d] = "delete" /\ pc[c] \notin Uncounted => pc[c] = "read"

\* A pool above its idle size has references, or somebody is about to shrink it.
ShrinkInv ==
  \/ current = MaxIdle \/ ref # 0
  \/ \E c \in Clients : pc[c] \in {"check", "shrinkLock", "loadRef", "delete"}

IInv == Types /\ LockInv /\ SlotInv /\ RefInv /\ PickInv /\ ShrinkInv

------------------------------------------------------------------------------
(* The steps.                                                                *)

\* A counted client is a reference.
LEMMA CountedHasRef ==
  ASSUME Types, RefInv
  PROVE  /\ IsFiniteSet(CountedClients) /\ Cardinality(CountedClients) \in Nat
         /\ ref \in Nat
         /\ \A c \in Clients : Counted(c) => ref > 0
<1>1. IsFiniteSet(CountedClients)
  BY PoolAssumption, FS_Subset DEF CountedClients
<1>2. /\ Cardinality(CountedClients) \in Nat
      /\ Cardinality(CountedClients) = 0 <=> CountedClients = {}
  BY <1>1, FS_CardinalityType, FS_EmptySet
<1>3. ref \in Nat
  BY <1>2 DEF RefInv, Types
<1>4. ASSUME NEW c \in Clients, Counted(c) PROVE ref > 0
  <2>1. CountedClients # {}
    BY <1>4 DEF CountedClients
  <2> QED
    BY <1>2, <2>1 DEF RefInv, Types
<1> QED
  BY <1>1, <1>2, <1>3, <1>4

\* At the start no client has come.
LEMMA InvInit == Init => IInv
<1> SUFFICES ASSUME Init PROVE IInv
  OBVIOUS
<1>1. MaxIdle \in Nat \ {0} /\ MaxActive \in Nat \ {0} /\ MaxIdle <= MaxActive /\ MaxGets \in Nat
  BY PoolAssumption
<1>2. Types
  BY <1>1 DEF Init, Types, SlotTypes, Slots, SlotStates, PCs, Holds
<1>3. LockInv /\ SlotInv /\ PickInv /\ ShrinkInv
  BY <1>1 DEF Init, LockInv, SlotInv, OpenBelow, Slots, PickInv, ShrinkInv, Locked, Counted
<1>4. CountedClients = {}
  BY DEF Init, CountedClients, Counted
<1>5. RefInv
  BY <1>4, FS_EmptySet DEF Init, RefInv
<1> QED
  BY <1>2, <1>3, <1>5 DEF IInv

\* Every step keeps the types.
LEMMA TypesStep == ASSUME Types, SlotInv, RefInv, [Next]_vars PROVE Types'
<1> USE PoolAssumption DEF Types
<1>0. conns' = conns => SlotTypes'
  BY DEF SlotTypes
<1>1. ASSUME NEW c \in Clients, IncrRef(c) PROVE Types'
  <2>1. ref + 1 \in Nat /\ gets[c] + 1 \in 0 .. MaxGets
    BY <1>1, CountedHasRef DEF IncrRef
  <2> QED
    BY <1>1, <1>0, <2>1 DEF Goto, IncrRef, PCs, Holds
<1>2. ASSUME NEW c \in Clients, ReadCurrent(c) PROVE Types'
  BY <1>2, <1>0 DEF Goto, ReadCurrent, poolVars, localVars, PCs, Slots, Holds
<1>3. ASSUME NEW c \in Clients, PickCreated(c) PROVE Types'
  BY <1>3, <1>0 DEF Goto, PickCreated, Pick, poolVars, localVars, PCs, Slots, Holds
<1>4. ASSUME NEW c \in Clients, ChooseOnce(c) PROVE Types'
  BY <1>4, <1>0 DEF Goto, ChooseOnce, FitsStreams, poolVars, localVars, PCs, Slots, Holds
<1>5. ASSUME NEW c \in Clients, DialOnce(c) PROVE Types'
  BY <1>5, <1>0 DEF Goto, DialOnce, Forget, Fail, poolVars, localVars, PCs, Slots, Holds
<1>6. ASSUME NEW c \in Clients, ChooseGrow(c) PROVE Types'
  BY <1>6, <1>0 DEF Goto, ChooseGrow, FitsStreams, poolVars, localVars, PCs, Slots, Holds
<1>7. ASSUME NEW c \in Clients, Lock(c) PROVE Types'
  BY <1>7, <1>0 DEF Goto, Lock, Pick, FitsStreams, poolVars, localVars, PCs, Slots, Holds
<1>8. ASSUME NEW c \in Clients, GrowDial(c) PROVE Types'
  <2>1. cur[c] \in Slots /\ cur[c] + 1 \in 0 .. MaxActive
    BY <1>8 DEF Goto, GrowDial, Slots
  <2>2. SlotTypes'
    BY <1>8 DEF GrowDial, SlotTypes, SlotStates
  <2> QED
    BY <1>8, <2>1, <2>2 DEF Goto, GrowDial, Reset, PCs, Holds
<1>9. ASSUME NEW c \in Clients, GrowError(c) PROVE Types'
  <2>1. cur[c] \in 1 .. MaxActive
    BY <1>9, <1>0, SlotInv DEF Goto, GrowError, Fail, SlotInv
  <2> QED
    BY <1>9, <1>0, <2>1 DEF Goto, GrowError, Fail, Forget, PCs, Slots
<1>10. ASSUME NEW c \in Clients, GrowDone(c) PROVE Types'
  BY <1>10, <1>0 DEF Goto, GrowDone, Pick, poolVars, localVars, PCs, Slots, Holds
<1>11. ASSUME NEW c \in Clients, Take(c) PROVE Types'
  BY <1>11, <1>0 DEF Goto, Take, Forget, poolVars, localVars, PCs, Slots, Holds
<1>12. ASSUME NEW c \in Clients, StartClose(c) PROVE Types'
  BY <1>12, <1>0 DEF Goto, StartClose, poolVars, localVars, PCs, Slots, Holds
<1>13. ASSUME NEW c \in Clients, DecrRef(c) PROVE Types'
  BY <1>13, <1>0 DEF Goto, DecrRef, poolVars, localVars, PCs, Slots, Holds
<1>14. ASSUME NEW c \in Clients, CheckCurrent(c) PROVE Types'
  BY <1>14, <1>0 DEF Goto, CheckCurrent, poolVars, localVars, PCs, Slots, Holds
<1>15. ASSUME NEW c \in Clients, ShrinkLock(c) PROVE Types'
  BY <1>15, <1>0 DEF Goto, ShrinkLock, poolVars, localVars, PCs, Slots, Holds
<1>16. ASSUME NEW c \in Clients, LoadRef(c) PROVE Types'
  BY <1>16, <1>0 DEF Goto, LoadRef, poolVars, localVars, PCs, Slots, Holds
<1>17. ASSUME NEW c \in Clients, Delete(c) PROVE Types'
  <2>1. MaxIdle \in 1 .. MaxActive /\ SlotTypes'
    BY <1>17 DEF Delete, SlotTypes, SlotStates
  <2>2. hold' \in [Clients -> Holds]
    BY <1>17 DEF Delete, Reset, Holds
  <2> QED
    BY <1>17, <2>1, <2>2 DEF Goto, Delete, PCs, localVars
<1>18. CASE UNCHANGED vars
  BY <1>18, <1>0 DEF vars, poolVars, localVars, PCs, Slots, Holds
<1> QED
  BY <1>1, <1>2, <1>3, <1>4, <1>5, <1>6, <1>7, <1>8, <1>9, <1>10, <1>11, <1>12,
     <1>13, <1>14, <1>15, <1>16, <1>17, <1>18 DEF Next, Get, Close

\* Every step keeps the lock with who is between Lock and Unlock.
LEMMA LockStep == ASSUME Types, LockInv, [Next]_vars PROVE LockInv'
<1> USE PoolAssumption DEF Types, LockInv, Locked
<1>1. ASSUME NEW c \in Clients, IncrRef(c) PROVE LockInv'
  BY <1>1, PoolAssumption DEF Goto, IncrRef, poolVars, localVars
<1>2. ASSUME NEW c \in Clients, ReadCurrent(c) PROVE LockInv'
  BY <1>2, PoolAssumption DEF Goto, ReadCurrent, poolVars, localVars
<1>3. ASSUME NEW c \in Clients, PickCreated(c) PROVE LockInv'
  BY <1>3, PoolAssumption DEF Goto, PickCreated, Pick, poolVars, localVars
<1>4. ASSUME NEW c \in Clients, ChooseOnce(c) PROVE LockInv'
  BY <1>4, PoolAssumption DEF Goto, ChooseOnce, FitsStreams, poolVars, localVars
<1>5. ASSUME NEW c \in Clients, DialOnce(c) PROVE LockInv'
  BY <1>5, PoolAssumption DEF Goto, DialOnce, Forget, Fail, poolVars, localVars
<1>6. ASSUME NEW c \in Clients, ChooseGrow(c) PROVE LockInv'
  BY <1>6, PoolAssumption DEF Goto, ChooseGrow, FitsStreams, poolVars, localVars
<1>7. ASSUME NEW c \in Clients, Lock(c) PROVE LockInv'
  BY <1>7, PoolAssumption DEF Goto, Lock, Pick, FitsStreams, poolVars, localVars
<1>8. ASSUME NEW c \in Clients, GrowDial(c) PROVE LockInv'
  BY <1>8, PoolAssumption DEF Goto, GrowDial, Reset, poolVars, localVars
<1>9. ASSUME NEW c \in Clients, GrowError(c) PROVE LockInv'
  BY <1>9, PoolAssumption DEF Goto, GrowError, Fail, Forget, poolVars, localVars
<1>10. ASSUME NEW c \in Clients, GrowDone(c) PROVE LockInv'
  BY <1>10, PoolAssumption DEF Goto, GrowDone, Pick, poolVars, localVars
<1>11. ASSUME NEW c \in Clients, Take(c) PROVE LockInv'
  BY <1>11, PoolAssumption DEF Goto, Take, Forget, poolVars, localVars
<1>12. ASSUME NEW c \in Clients, StartClose(c) PROVE LockInv'
  BY <1>12, PoolAssumption DEF Goto, StartClose, poolVars, localVars
<1>13. ASSUME NEW c \in Clients, DecrRef(c) PROVE LockInv'
  BY <1>13, PoolAssumption DEF Goto, DecrRef, poolVars, localVars
<1>14. ASSUME NEW c \in Clients, CheckCurrent(c) PROVE LockInv'
  BY <1>14, PoolAssumption DEF Goto, CheckCurrent, poolVars, localVars
<1>15. ASSUME NEW c \in Clients, ShrinkLock(c) PROVE LockInv'
  BY <1>15, PoolAssumption DEF Goto, ShrinkLock, poolVars, localVars
<1>16. ASSUME NEW c \in Clients, LoadRef(c) PROVE LockInv'
  BY <1>16, PoolAssumption DEF Goto, LoadRef, poolVars, localVars
<1>17. ASSUME NEW c \in Clients, Delete(c) PROVE LockInv'
  BY <1>17, PoolAssumption DEF Goto, Delete, Reset, poolVars, localVars
<1>18. CASE UNCHANGED vars
  BY <1>18 DEF vars, poolVars, localVars
<1> QED
  BY <1>1, <1>2, <1>3, <1>4, <1>5, <1>6, <1>7, <1>8, <1>9, <1>10, <1>11, <1>12,
     <1>13, <1>14, <1>15, <1>16, <1>17, <1>18 DEF Next, Get, Close

\* Every step keeps the slots below current filled.
LEMMA SlotStep == ASSUME Types, LockInv, SlotInv, [Next]_vars PROVE SlotInv'
<1> USE PoolAssumption DEF Types, SlotInv, OpenBelow, Locked
<1>1. ASSUME NEW c \in Clients, IncrRef(c) PROVE SlotInv'
  BY <1>1, LockInv DEF Goto, IncrRef, poolVars, localVars, LockInv
<1>2. ASSUME NEW c \in Clients, ReadCurrent(c) PROVE SlotInv'
  BY <1>2, LockInv DEF Goto, ReadCurrent, poolVars, localVars, LockInv
<1>3. ASSUME NEW c \in Clients, PickCreated(c) PROVE SlotInv'
  BY <1>3, LockInv DEF Goto, PickCreated, Pick, poolVars, localVars, LockInv
<1>4. ASSUME NEW c \in Clients, ChooseOnce(c) PROVE SlotInv'
  BY <1>4, LockInv DEF Goto, ChooseOnce, FitsStreams, poolVars, localVars, LockInv
<1>5. ASSUME NEW c \in Clients, DialOnce(c) PROVE SlotInv'
  BY <1>5, LockInv DEF Goto, DialOnce, Forget, Fail, poolVars, localVars, LockInv
<1>6. ASSUME NEW c \in Clients, ChooseGrow(c) PROVE SlotInv'
  BY <1>6, LockInv DEF Goto, ChooseGrow, FitsStreams, poolVars, localVars, LockInv
<1>7. ASSUME NEW c \in Clients, Lock(c) PROVE SlotInv'
  BY <1>7, LockInv DEF Goto, Lock, Pick, FitsStreams, poolVars, localVars, LockInv
<1>8. ASSUME NEW c \in Clients, GrowDial(c) PROVE SlotInv'
  <2>1. /\ pc[c] = "grow" /\ pc' = pc /\ cur' = [cur EXCEPT ![c] = cur[c] + 1] /\ cur[c] < limit[c]
        /\ conns' = [conns EXCEPT ![cur[c]] = "open"] /\ UNCHANGED <<current, limit>>
    BY <1>8 DEF Goto, GrowDial
  <2>2. \A d \in Clients : pc[d] = "grow" => d = c
    BY <2>1, LockInv DEF LockInv
  <2>3. \A i \in Slots : conns'[i] = "open" <=> i < cur'[c]
    BY <2>1 DEF SlotTypes, Slots
  <2> QED
    BY <2>1, <2>2, <2>3
<1>9. ASSUME NEW c \in Clients, GrowError(c) PROVE SlotInv'
  BY <1>9, LockInv DEF Goto, GrowError, Fail, Forget, poolVars, localVars, LockInv
<1>10. ASSUME NEW c \in Clients, GrowDone(c) PROVE SlotInv'
  BY <1>10, LockInv DEF Goto, GrowDone, Pick, poolVars, localVars, LockInv
<1>11. ASSUME NEW c \in Clients, Take(c) PROVE SlotInv'
  BY <1>11, LockInv DEF Goto, Take, Forget, poolVars, localVars, LockInv
<1>12. ASSUME NEW c \in Clients, StartClose(c) PROVE SlotInv'
  BY <1>12, LockInv DEF Goto, StartClose, poolVars, localVars, LockInv
<1>13. ASSUME NEW c \in Clients, DecrRef(c) PROVE SlotInv'
  BY <1>13, LockInv DEF Goto, DecrRef, poolVars, localVars, LockInv
<1>14. ASSUME NEW c \in Clients, CheckCurrent(c) PROVE SlotInv'
  BY <1>14, LockInv DEF Goto, CheckCurrent, poolVars, localVars, LockInv
<1>15. ASSUME NEW c \in Clients, ShrinkLock(c) PROVE SlotInv'
  BY <1>15, LockInv DEF Goto, ShrinkLock, poolVars, localVars, LockInv
<1>16. ASSUME NEW c \in Clients, LoadRef(c) PROVE SlotInv'
  BY <1>16, LockInv DEF Goto, LoadRef, poolVars, localVars, LockInv
<1>17. ASSUME NEW c \in Clients, Delete(c) PROVE SlotInv'
  <2>1. pc[c] = "delete" /\ pc' = [pc EXCEPT ![c] = "out"] /\ current' = MaxIdle
    BY <1>17 DEF Goto, Delete
  <2>2. \A d \in Clients : pc[d] # "grow"
    BY <2>1, LockInv DEF LockInv
  <2>3. \A i \in Slots : conns[i] = "open" <=> i < current
    BY <2>2
  <2>4. \A i \in Slots : conns'[i] = "open" <=> i < MaxIdle
    BY <1>17, <2>3 DEF Delete, Slots
  <2> QED
    BY <2>1, <2>2, <2>4
<1>18. CASE UNCHANGED vars
  BY <1>18 DEF vars, poolVars, localVars, LockInv
<1> QED
  BY <1>1, <1>2, <1>3, <1>4, <1>5, <1>6, <1>7, <1>8, <1>9, <1>10, <1>11, <1>12,
     <1>13, <1>14, <1>15, <1>16, <1>17, <1>18 DEF Next, Get, Close

\* A client that goes on moves into or out of the counted part, or neither.
LEMMA CountStep ==
  ASSUME Types, RefInv, NEW c \in Clients, NEW from \in PCs, NEW to \in PCs, Goto(c, from, to)
  PROVE  LET before == Cardinality(CountedClients)
             after == Cardinality(CountedClients')
         IN  /\ from \in Uncounted /\ to \in Uncounted => after = before
             /\ from \notin Uncounted /\ to \notin Uncounted => after = before
             /\ from \in Uncounted /\ to \notin Uncounted => after = before + 1
             /\ from \notin Uncounted /\ to \in Uncounted => after = before - 1
<1> DEFINE S == CountedClients
<1>1. IsFiniteSet(S) /\ Cardinality(S) \in Nat
  BY CountedHasRef
<1>2. pc[c] = from /\ pc'[c] = to /\ \A d \in Clients : d # c => pc'[d] = pc[d]
  BY DEF Goto, Types
<1>3. S = {d \in Clients : pc[d] \notin Uncounted} /\ S' = {d \in Clients : pc'[d] \notin Uncounted}
  BY DEF CountedClients, Counted, Uncounted
<1>4. CASE from \in Uncounted <=> to \in Uncounted
  <2>1. S' = S
    BY <1>2, <1>3, <1>4
  <2> QED
    BY <1>4, <2>1
<1>5. CASE from \in Uncounted /\ to \notin Uncounted
  <2>1. S' = S \cup {c} /\ c \notin S
    BY <1>2, <1>3, <1>5
  <2>2. Cardinality(S \cup {c}) = Cardinality(S) + 1
    BY <1>1, <2>1, FS_AddElement
  <2> QED
    BY <1>5, <2>1, <2>2
<1>6. CASE from \notin Uncounted /\ to \in Uncounted
  <2>1. S' = S \ {c} /\ c \in S
    BY <1>2, <1>3, <1>6
  <2>2. Cardinality(S \ {c}) = Cardinality(S) - 1
    BY <1>1, <2>1, FS_RemoveElement
  <2> QED
    BY <1>6, <2>1, <2>2
<1> QED
  BY <1>4, <1>5, <1>6

\* Every step counts as it should.
LEMMA RefStep == ASSUME Types, RefInv, [Next]_vars PROVE RefInv'
<1>0. Cardinality(CountedClients) \in Nat /\ ref \in Int /\ leaked \in Nat
  BY CountedHasRef DEF Types
<1>1. ASSUME NEW c \in Clients, NEW from \in PCs, NEW to \in PCs, Goto(c, from, to),
             from \in Uncounted <=> to \in Uncounted, UNCHANGED <<ref, leaked>>
      PROVE  RefInv'
  BY <1>1, CountStep DEF RefInv
<1>2. ASSUME NEW c \in Clients, NEW from \in PCs \ Uncounted, Fail(c, from), UNCHANGED ref
      PROVE  RefInv'
  <2>1. Goto(c, from, "out") /\ leaked' = leaked + 1 /\ "out" \in PCs \cap Uncounted
    BY <1>2 DEF Fail, PCs, Uncounted
  <2>2. Cardinality(CountedClients') = Cardinality(CountedClients) - 1
    BY <2>1, CountStep
  <2> QED
    BY <1>0, <1>2, <2>1, <2>2 DEF RefInv
<1>3. ASSUME NEW c \in Clients, IncrRef(c) PROVE RefInv'
  <2>1. Goto(c, "out", "read") /\ ref' = ref + 1 /\ UNCHANGED leaked
    BY <1>3 DEF IncrRef
  <2>2. "out" \in PCs \cap Uncounted /\ "read" \in PCs \ Uncounted
    BY DEF PCs, Uncounted
  <2>3. Cardinality(CountedClients') = Cardinality(CountedClients) + 1
    BY <2>1, <2>2, CountStep
  <2> QED
    BY <1>0, <2>1, <2>3 DEF RefInv
<1>4. ASSUME NEW c \in Clients, DecrRef(c) PROVE RefInv'
  <2>1. PICK to \in {"check", "out"} : Goto(c, "decr", to)
    BY <1>4 DEF DecrRef
  <2>2. ref' = ref - 1 /\ UNCHANGED leaked
    BY <1>4 DEF DecrRef
  <2>3. "decr" \in PCs \ Uncounted /\ to \in PCs \cap Uncounted
    BY DEF PCs, Uncounted
  <2>4. Cardinality(CountedClients') = Cardinality(CountedClients) - 1
    BY <2>1, <2>3, CountStep
  <2> QED
    BY <1>0, <2>2, <2>4 DEF RefInv
<1>5. ASSUME NEW c \in Clients, DialOnce(c) PROVE RefInv'
  <2>1. CASE Fail(c, "dial")
    BY <1>2, <1>5, <2>1 DEF DialOnce, poolVars, PCs, Uncounted
  <2>2. CASE Goto(c, "dial", "held") /\ UNCHANGED leaked
    BY <1>1, <1>5, <2>2 DEF DialOnce, poolVars, PCs, Uncounted
  <2> QED
    BY <1>5, <2>1, <2>2 DEF DialOnce
<1>6. ASSUME NEW c \in Clients, GrowError(c) PROVE RefInv'
  BY <1>2, <1>6 DEF GrowError, PCs, Uncounted
<1>7. ASSUME NEW c \in Clients, Lock(c) PROVE RefInv'
  <2>1. PICK to \in {"grow", "take"} : Goto(c, "lock", to)
    BY <1>7 DEF Lock
  <2> QED
    BY <1>1, <1>7, <2>1 DEF Lock, PCs, Uncounted
<1>8. ASSUME NEW c \in Clients, ReadCurrent(c) PROVE RefInv'
  <2>1. Goto(c, "read", "decide") /\ UNCHANGED <<ref, leaked>>
    BY <1>8 DEF ReadCurrent, poolVars
  <2> QED
    BY <1>1, <2>1 DEF PCs, Uncounted
<1>9. ASSUME NEW c \in Clients, PickCreated(c) PROVE RefInv'
  <2>1. Goto(c, "decide", "take") /\ UNCHANGED <<ref, leaked>>
    BY <1>9 DEF PickCreated, poolVars
  <2> QED
    BY <1>1, <2>1 DEF PCs, Uncounted
<1>10. ASSUME NEW c \in Clients, ChooseOnce(c) PROVE RefInv'
  <2>1. Goto(c, "decide", "dial") /\ UNCHANGED <<ref, leaked>>
    BY <1>10 DEF ChooseOnce, poolVars
  <2> QED
    BY <1>1, <2>1 DEF PCs, Uncounted
<1>11. ASSUME NEW c \in Clients, ChooseGrow(c) PROVE RefInv'
  <2>1. Goto(c, "decide", "lock") /\ UNCHANGED <<ref, leaked>>
    BY <1>11 DEF ChooseGrow, poolVars
  <2> QED
    BY <1>1, <2>1 DEF PCs, Uncounted
<1>12. ASSUME NEW c \in Clients, GrowDial(c) PROVE RefInv'
  <2>1. Goto(c, "grow", "grow") /\ UNCHANGED <<ref, leaked>>
    BY <1>12 DEF GrowDial, poolVars
  <2> QED
    BY <1>1, <2>1 DEF PCs, Uncounted
<1>13. ASSUME NEW c \in Clients, GrowDone(c) PROVE RefInv'
  <2>1. Goto(c, "grow", "take") /\ UNCHANGED <<ref, leaked>>
    BY <1>13 DEF GrowDone, poolVars
  <2> QED
    BY <1>1, <2>1 DEF PCs, Uncounted
<1>14. ASSUME NEW c \in Clients, Take(c) PROVE RefInv'
  <2>1. Goto(c, "take", "held") /\ UNCHANGED <<ref, leaked>>
    BY <1>14 DEF Take, poolVars
  <2> QED
    BY <1>1, <2>1 DEF PCs, Uncounted
<1>15. ASSUME NEW c \in Clients, StartClose(c) PROVE RefInv'
  <2>1. Goto(c, "held", "decr") /\ UNCHANGED <<ref, leaked>>
    BY <1>15 DEF StartClose, poolVars
  <2> QED
    BY <1>1, <2>1 DEF PCs, Uncounted
<1>16. ASSUME NEW c \in Clients, ShrinkLock(c) PROVE RefInv'
  <2>1. Goto(c, "shrinkLock", "loadRef") /\ UNCHANGED <<ref, leaked>>
    BY <1>16 DEF ShrinkLock, poolVars
  <2> QED
    BY <1>1, <2>1 DEF PCs, Uncounted
<1>17. ASSUME NEW c \in Clients, Delete(c) PROVE RefInv'
  <2>1. Goto(c, "delete", "out") /\ UNCHANGED <<ref, leaked>>
    BY <1>17 DEF Delete, poolVars
  <2> QED
    BY <1>1, <2>1 DEF PCs, Uncounted
<1>18. ASSUME NEW c \in Clients, CheckCurrent(c) PROVE RefInv'
  <2>1. PICK to \in {"shrinkLock", "out"} : Goto(c, "check", to)
    BY <1>18 DEF CheckCurrent
  <2> QED
    BY <1>1, <1>18, <2>1 DEF CheckCurrent, poolVars, PCs, Uncounted
<1>19. ASSUME NEW c \in Clients, LoadRef(c) PROVE RefInv'
  <2>1. PICK to \in {"delete", "out"} : Goto(c, "loadRef", to)
    BY <1>19 DEF LoadRef
  <2> QED
    BY <1>1, <1>19, <2>1 DEF LoadRef, poolVars, PCs, Uncounted
<1>20. CASE UNCHANGED vars
  BY <1>20 DEF vars, poolVars, RefInv, CountedClients, Counted
<1> QED
  BY <1>3, <1>4, <1>5, <1>6, <1>7, <1>8, <1>9, <1>10, <1>11, <1>12, <1>13, <1>14,
     <1>15, <1>16, <1>17, <1>18, <1>19, <1>20 DEF Next, Get, Close

\* Every step keeps what a Get has picked below current.
LEMMA PickStep == ASSUME Types, LockInv, SlotInv, RefInv, PickInv, [Next]_vars PROVE PickInv'
<1>0. ref \in Nat /\ \A c \in Clients : pc[c] \notin Uncounted => ref > 0
  BY CountedHasRef DEF Counted, Uncounted
<1> USE PoolAssumption DEF Types, PickInv, Locked, Uncounted
<1>1. ASSUME NEW c \in Clients, IncrRef(c) PROVE PickInv'
  BY <1>1, <1>0 DEF Goto, IncrRef, poolVars, localVars, LockInv, SlotInv
<1>2. ASSUME NEW c \in Clients, ReadCurrent(c) PROVE PickInv'
  BY <1>2, <1>0 DEF Goto, ReadCurrent, poolVars, localVars, LockInv, SlotInv
<1>3. ASSUME NEW c \in Clients, PickCreated(c) PROVE PickInv'
  <2>1. PICK i \in 0 .. (cur[c] - 1) : slot' = [slot EXCEPT ![c] = i]
    BY <1>3 DEF PickCreated, Pick
  <2>2. slot'[c] < current /\ \A d \in Clients : d # c => slot'[d] = slot[d]
    BY <1>3, <2>1 DEF PickCreated, Goto
  <2> QED
    BY <1>3, <2>2 DEF PickCreated, Goto, poolVars
<1>4. ASSUME NEW c \in Clients, ChooseOnce(c) PROVE PickInv'
  BY <1>4, <1>0 DEF Goto, ChooseOnce, FitsStreams, poolVars, localVars, LockInv, SlotInv
<1>5. ASSUME NEW c \in Clients, DialOnce(c) PROVE PickInv'
  <2>1. PICK to \in {"held", "out"} : pc' = [pc EXCEPT ![c] = to] /\ pc[c] = "dial"
    BY <1>5 DEF DialOnce, Goto, Fail
  <2>2. cur' = [cur EXCEPT ![c] = 0] /\ UNCHANGED <<current, slot>>
    BY <1>5 DEF DialOnce, Fail, Forget, poolVars
  <2>3. /\ \A d \in Clients : d # c => hold'[d] = hold[d]
        /\ to = "held" => hold'[c] = "once"
    BY <1>5, <2>1 DEF DialOnce, Goto, Fail
  <2> QED
    BY <2>1, <2>2, <2>3
<1>6. ASSUME NEW c \in Clients, ChooseGrow(c) PROVE PickInv'
  BY <1>6, <1>0 DEF Goto, ChooseGrow, FitsStreams, poolVars, localVars, LockInv, SlotInv
<1>7. ASSUME NEW c \in Clients, Lock(c) PROVE PickInv'
  <2>1. UNCHANGED <<current, hold>> /\ \A d \in Clients : d # c => cur'[d] = cur[d]
    BY <1>7 DEF Lock
  <2>2. CASE Goto(c, "lock", "grow") /\ UNCHANGED slot
    BY <2>1, <2>2 DEF Goto
  <2>3. CASE Goto(c, "lock", "take") /\ Pick(c, current)
    <3>1. slot'[c] < current /\ \A d \in Clients : d # c => slot'[d] = slot[d]
      BY <2>3 DEF Pick
    <3> QED
      BY <2>1, <2>3, <3>1 DEF Goto
  <2> QED
    BY <1>7, <2>2, <2>3 DEF Lock
<1>8. ASSUME NEW c \in Clients, GrowDial(c) PROVE PickInv'
  BY <1>8, <1>0 DEF Goto, GrowDial, Reset, poolVars, localVars, LockInv, SlotInv
<1>9. ASSUME NEW c \in Clients, GrowError(c) PROVE PickInv'
  <2>1. pc' = [pc EXCEPT ![c] = "out"] /\ cur' = [cur EXCEPT ![c] = 0] /\ UNCHANGED <<slot, hold>>
    BY <1>9 DEF GrowError, Fail, Forget, Goto
  <2>2. current <= current' /\ current' \in Int
    BY <1>9 DEF GrowError, Fail, Goto, SlotInv
  <2>3. ASSUME NEW d \in Clients PROVE slot[d] < current => slot'[d] < current'
    BY <2>1, <2>2 DEF Slots
  <2>4. ASSUME NEW d \in Clients, cur[d] <= current PROVE cur'[d] <= current'
    BY <2>1, <2>2, <2>4
  <2>5. pc'[c] = "out" /\ \A d \in Clients : d # c => pc'[d] = pc[d]
    BY <2>1
  <2> QED
    BY <2>1, <2>3, <2>4, <2>5
<1>10. ASSUME NEW c \in Clients, GrowDone(c) PROVE PickInv'
  <2>1. pc[c] = "grow" /\ pc' = [pc EXCEPT ![c] = "take"] /\ UNCHANGED <<cur, hold>>
    BY <1>10 DEF GrowDone, Goto
  <2>2. current <= current' /\ current' = cur[c]
    BY <1>10, <2>1 DEF GrowDone, SlotInv
  <2>3. slot'[c] < current' /\ \A d \in Clients : d # c => slot'[d] = slot[d]
    BY <1>10, <2>2 DEF GrowDone, Pick
  <2>4. \A d \in Clients : pc[d] # "delete"
    BY <2>1 DEF LockInv
  <2>5. ASSUME NEW d \in Clients, slot[d] < current, d # c PROVE slot'[d] < current'
    BY <2>2, <2>3, <2>5 DEF Slots
  <2>6. ASSUME NEW d \in Clients, cur[d] <= current PROVE cur'[d] <= current'
    BY <2>1, <2>2, <2>6
  <2>7. pc'[c] = "take" /\ \A d \in Clients : d # c => pc'[d] = pc[d]
    BY <2>1
  <2> QED
    BY <2>1, <2>3, <2>4, <2>5, <2>6, <2>7
<1>11. ASSUME NEW c \in Clients, Take(c) PROVE PickInv'
  <2>1. pc[c] = "take" /\ pc' = [pc EXCEPT ![c] = "held"] /\ UNCHANGED <<current, slot>>
    BY <1>11 DEF Take, Goto, poolVars
  <2>2. conns[slot[c]] = "open"
    BY <2>1 DEF SlotInv, OpenBelow, Slots
  <2>3. hold' = [hold EXCEPT ![c] = "pooled"] /\ cur' = [cur EXCEPT ![c] = 0]
    BY <1>11, <2>2 DEF Take, Forget
  <2> QED
    BY <2>1, <2>3
<1>12. ASSUME NEW c \in Clients, StartClose(c) PROVE PickInv'
  BY <1>12, <1>0 DEF Goto, StartClose, poolVars, localVars, LockInv, SlotInv
<1>13. ASSUME NEW c \in Clients, DecrRef(c) PROVE PickInv'
  BY <1>13, <1>0 DEF Goto, DecrRef, poolVars, localVars, LockInv, SlotInv
<1>14. ASSUME NEW c \in Clients, CheckCurrent(c) PROVE PickInv'
  BY <1>14, <1>0 DEF Goto, CheckCurrent, poolVars, localVars, LockInv, SlotInv
<1>15. ASSUME NEW c \in Clients, ShrinkLock(c) PROVE PickInv'
  BY <1>15, <1>0 DEF Goto, ShrinkLock, poolVars, localVars, LockInv, SlotInv
<1>16. ASSUME NEW c \in Clients, LoadRef(c) PROVE PickInv'
  BY <1>16, <1>0 DEF Goto, LoadRef, poolVars, localVars, LockInv, SlotInv
<1>17. ASSUME NEW c \in Clients, Delete(c) PROVE PickInv'
  BY <1>17, <1>0 DEF Goto, Delete, Reset, poolVars, localVars, LockInv, SlotInv
<1>18. CASE UNCHANGED vars
  BY <1>18 DEF vars, poolVars, localVars, LockInv, SlotInv
<1> QED
  BY <1>1, <1>2, <1>3, <1>4, <1>5, <1>6, <1>7, <1>8, <1>9, <1>10, <1>11, <1>12,
     <1>13, <1>14, <1>15, <1>16, <1>17, <1>18 DEF Next, Get, Close

\* Every step leaves a pool above its idle size to somebody.
LEMMA ShrinkStep == ASSUME Types, LockInv, SlotInv, RefInv, ShrinkInv, [Next]_vars PROVE ShrinkInv'
<1>0. ref \in Nat /\ \A c \in Clients : Counted(c) => ref > 0
  BY CountedHasRef
<1> USE PoolAssumption DEF Types, ShrinkInv
<1>1. ASSUME NEW c \in Clients, IncrRef(c) PROVE ShrinkInv'
  BY <1>1, <1>0 DEF Goto, IncrRef, poolVars, localVars, SlotInv, Counted
<1>2. ASSUME NEW c \in Clients, ReadCurrent(c) PROVE ShrinkInv'
  BY <1>2, <1>0 DEF Goto, ReadCurrent, poolVars, localVars, SlotInv, Counted
<1>3. ASSUME NEW c \in Clients, PickCreated(c) PROVE ShrinkInv'
  BY <1>3, <1>0 DEF Goto, PickCreated, Pick, poolVars, localVars, SlotInv, Counted
<1>4. ASSUME NEW c \in Clients, ChooseOnce(c) PROVE ShrinkInv'
  BY <1>4, <1>0 DEF Goto, ChooseOnce, FitsStreams, poolVars, localVars, SlotInv, Counted
<1>5. ASSUME NEW c \in Clients, DialOnce(c) PROVE ShrinkInv'
  BY <1>5, <1>0 DEF Goto, DialOnce, Forget, Fail, poolVars, localVars, SlotInv, Counted
<1>6. ASSUME NEW c \in Clients, ChooseGrow(c) PROVE ShrinkInv'
  BY <1>6, <1>0 DEF Goto, ChooseGrow, FitsStreams, poolVars, localVars, SlotInv, Counted
<1>7. ASSUME NEW c \in Clients, Lock(c) PROVE ShrinkInv'
  BY <1>7, <1>0 DEF Goto, Lock, Pick, FitsStreams, poolVars, localVars, SlotInv, Counted
<1>8. ASSUME NEW c \in Clients, GrowDial(c) PROVE ShrinkInv'
  BY <1>8, <1>0 DEF Goto, GrowDial, Reset, poolVars, localVars, SlotInv, Counted
<1>9. ASSUME NEW c \in Clients, GrowError(c) PROVE ShrinkInv'
  <2>1. pc[c] = "grow" /\ UNCHANGED ref
    BY <1>9 DEF GrowError, Fail, Goto
  <2> QED
    BY <1>0, <2>1 DEF Counted
<1>10. ASSUME NEW c \in Clients, GrowDone(c) PROVE ShrinkInv'
  <2>1. pc[c] = "grow" /\ UNCHANGED ref
    BY <1>10 DEF GrowDone, Goto
  <2> QED
    BY <1>0, <2>1 DEF Counted
<1>11. ASSUME NEW c \in Clients, Take(c) PROVE ShrinkInv'
  BY <1>11, <1>0 DEF Goto, Take, Forget, poolVars, localVars, SlotInv, Counted
<1>12. ASSUME NEW c \in Clients, StartClose(c) PROVE ShrinkInv'
  BY <1>12, <1>0 DEF Goto, StartClose, poolVars, localVars, SlotInv, Counted
<1>13. ASSUME NEW c \in Clients, DecrRef(c) PROVE ShrinkInv'
  BY <1>13, <1>0 DEF Goto, DecrRef, poolVars, localVars, SlotInv, Counted
<1>14. ASSUME NEW c \in Clients, CheckCurrent(c) PROVE ShrinkInv'
  BY <1>14, <1>0 DEF Goto, CheckCurrent, poolVars, localVars, SlotInv, Counted
<1>15. ASSUME NEW c \in Clients, ShrinkLock(c) PROVE ShrinkInv'
  BY <1>15, <1>0 DEF Goto, ShrinkLock, poolVars, localVars, SlotInv, Counted
<1>16. ASSUME NEW c \in Clients, LoadRef(c) PROVE ShrinkInv'
  BY <1>16, <1>0 DEF Goto, LoadRef, poolVars, localVars, SlotInv, Counted
<1>17. ASSUME NEW c \in Clients, Delete(c) PROVE ShrinkInv'
  BY <1>17, <1>0 DEF Goto, Delete, Reset, poolVars, localVars, SlotInv, Counted
<1>18. CASE UNCHANGED vars
  BY <1>18 DEF vars, poolVars, localVars, SlotInv, Counted
<1> QED
  BY <1>1, <1>2, <1>3, <1>4, <1>5, <1>6, <1>7, <1>8, <1>9, <1>10, <1>11, <1>12,
     <1>13, <1>14, <1>15, <1>16, <1>17, <1>18 DEF Next, Get, Close

\* The invariant is inductive.
LEMMA InvStep == ASSUME IInv, [Next]_vars PROVE IInv'
BY TypesStep, LockStep, SlotStep, RefStep, PickStep, ShrinkStep DEF IInv

\* The invariant holds in every reachable state.
LEMMA Invariant == Spec => []IInv
<1>1. Init => IInv
  BY InvInit
<1>2. IInv /\ [Next]_vars => IInv'
  BY InvStep
<1> QED
  BY <1>1, <1>2, PTL DEF Spec

------------------------------------------------------------------------------
(* The theorems.                                                             *)

\* The references that are counted are those of the clients between incrRef
\* and decrRef and those that failed Gets have left; ref is never negative.
THEOREM ReferencesBalance == Spec => []RefBalance
<1>1. IInv => RefBalance
  BY DEF IInv, RefInv, RefBalance, CountedClients
<1> QED
  BY <1>1, Invariant, PTL

\* The pool is well typed; above all, ref, with which decrRef would panic below
\* zero, is a natural number, and growing stops at MaxActive.
THEOREM TypeCorrect == Spec => []TypeOK
<1>1. IInv => TypeOK
  BY CountedHasRef DEF IInv, Types, SlotTypes, TypeOK
<1> QED
  BY <1>1, Invariant, PTL

\* No shrink takes away a connection that a client holds.
THEOREM HeldStaysOpen == Spec => []HeldIsOpen
<1>1. IInv => HeldIsOpen
  BY DEF IInv, PickInv, HeldIsOpen
<1> QED
  BY <1>1, Invariant, PTL

\* Without the write lock, the slots below current and no others are filled.
THEOREM SlotsAreFilled == Spec => []SlotsMatch
<1>1. IInv => SlotsMatch
  BY PoolAssumption DEF IInv, LockInv, SlotInv, SlotsMatch, OpenBelow, Locked, Types, SlotTypes
<1> QED
  BY <1>1, Invariant, PTL

\* A pool that nobody uses or has leaked is at its idle size.
THEOREM PoolIsShrunk == Spec => []IdleIsShrunk
<1>1. IInv => IdleIsShrunk
  BY DEF IInv, ShrinkInv, IdleIsShrunk
<1> QED
  BY <1>1, Invariant, PTL

\* Whoever has the write lock is between Lock and Unlock.
THEOREM LockGoesBack == Spec => []LockIsReleased
<1>1. IInv => LockIsReleased
  BY DEF IInv, LockInv, LockIsReleased, Locked
<1> QED
  BY <1>1, Invariant, PTL
==============================================================================
