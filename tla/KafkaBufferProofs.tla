-------------------------- MODULE KafkaBufferProofs --------------------------
(***************************************************************************)
(* Theorems about KafkaBuffer, for any set of sensors, any number of       *)
(* frames, any size of the buffers and any times of the frames.            *)
(***************************************************************************)
EXTENDS KafkaBuffer, SequenceLemmas, TLAPS

------------------------------------------------------------------------------
(* The inductive invariant.                                                  *)

Working == {"flush", "lock", "send", "reset", "delete"}
At(f, k, g) == at[f].key = k /\ at[f].buf = g

\* A flusher at work has a buffer that was made.
Places ==
  /\ fpc["ticker"] # "delete"
  /\ \A f \in Flushers : fpc[f] \in Working =>
        at[f] \in [key : Keys, buf : Generations] /\ at[f].buf <= made[at[f].key]

\* A flusher has the mutex from its Lock to its Unlock.
MutexHeld ==
  \A f \in Flushers : \A k \in Keys : \A g \in Generations :
     mutex[k][g] = f <=> fpc[f] \in {"send", "reset"} /\ At(f, k, g)

\* Stop deletes the entry of a key once, and the next buffer stays.
OneDelete ==
  /\ client = "open" <=> fpc["stop"] = "idle"
  /\ client = "closed" <=> fpc["stop"] = "closed"
  /\ client = "open" => toVisit["stop"] = {}
  /\ \A k \in Keys :
        /\ entry[k] = None \/ (made[k] > 0 /\ entry[k] = made[k])
        /\ holding[k] # None => holding[k] <= made[k]
        /\ made[k] > 0 /\ client = "open" => entry[k] = 1
        /\ made[k] = 2 => entry[k] = 2
        /\ k \in toVisit["stop"] => entry[k] = 1
        /\ fpc["stop"] \in Working /\ at["stop"].key = k =>
              entry[k] = 1 /\ at["stop"].buf = 1 /\ k \notin toVisit["stop"]

Resetting(k, g) == \E f \in Flushers : fpc[f] = "reset" /\ At(f, k, g)

\* The last frame of k that append has dealt with.
Appended(k) == IF holding[k] = None THEN written[k] ELSE written[k] - 1

\* The buffers that a flusher may still send.
Sendable(k, g) == g = made[k] \/ (fpc["ticker"] \in Working /\ At("ticker", k, g))

\* Rows and messages are in the order of the frames, also over two buffers.
RowOrderOf(k) ==
  /\ holding[k] # None => written[k] > 0
  /\ holding[k] = 1 => rows[k][2] = <<>>
  /\ UpTo(sent[k], Appended(k)) /\ Ascending(sent[k])
  /\ Below(rows[k][1], rows[k][2])
  /\ \A g \in Generations :
       /\ UpTo(rows[k][g], Appended(k)) /\ Ascending(rows[k][g])
       /\ g > made[k] => rows[k][g] = <<>>
       /\ Sendable(k, g) /\ ~Resetting(k, g) => Below(sent[k], rows[k][g])

RowOrder == \A k \in Keys : RowOrderOf(k)

\* The rows that a flusher is about to drop have been sent.
ResetIsSent ==
  client # "closed" =>
    \A f \in Flushers : fpc[f] = "reset" =>
      \A n \in Frames : Contains(rows[at[f].key][at[f].buf], n) => Contains(sent[at[f].key], n)

\* What was there when Stop was called is before the flusher of Stop.
StopReaches ==
  client = "stopping" =>
    \A k \in Keys : \A n \in early[k] :
       \/ Contains(sent[k], n)
       \/ /\ Contains(rows[k][1], n)
          /\ \/ k \in toVisit["stop"]
             \/ fpc["stop"] \in {"flush", "lock", "send"} /\ at["stop"].key = k
IInv ==
  /\ TypeOK /\ Places /\ MutexHeld /\ OneDelete /\ RowOrder
  /\ NoRowLost /\ ResetIsSent /\ StopReaches /\ SentBeforeClose

------------------------------------------------------------------------------
(* The invariant holds initially.                                            *)

\* Nothing is buffered and nobody works at the start.
LEMMA InitIInv == Init => IInv
<1> SUFFICES ASSUME Init PROVE IInv
  OBVIOUS
<1> USE DEF Init
<1>1. TypeOK
  <2>1. rows \in [Keys -> [Generations -> Seq(Frames)]]
    OBVIOUS
  <2>2. \A k \in Keys : \A g \in Generations : Len(rows[k][g]) <= MaxRows
    BY KafkaAssumption
  <2>3. sent \in [Keys -> Seq(Frames)]
    OBVIOUS
  <2>4. lastTs \in [Keys -> [Generations -> Nat]] /\ mutex \in [Keys -> [Generations -> Flushers \cup {None}]]
    OBVIOUS
  <2>5. written \in [Keys -> 0 .. MaxFrames] /\ made \in [Keys -> 0 .. 2]
    BY KafkaAssumption
  <2>6. {kept, early} \subseteq [Keys -> SUBSET Frames] /\ {holding, entry} \subseteq [Keys -> Generations \cup {None}]
    OBVIOUS
  <2>7. /\ at \in [Flushers -> Buffers \cup {None}] /\ toVisit \in [Flushers -> SUBSET Keys]
        /\ client \in {"open", "stopping", "closed"}
        /\ fpc \in [Flushers -> {"idle", "range", "flush", "lock", "send", "reset", "delete", "closed"}]
    OBVIOUS
  <2> QED
    BY <2>1, <2>2, <2>3, <2>4, <2>5, <2>6, <2>7 DEF TypeOK
<1>2. Places
  BY DEF Places, Flushers, Working
<1>3. MutexHeld
  BY KafkaAssumption DEF MutexHeld
<1>4. OneDelete
  BY KafkaAssumption DEF OneDelete, Flushers, Working, Generations
<1>5. RowOrder
  BY DEF RowOrder, RowOrderOf, UpTo, Ascending, Below, Generations
<1>6. NoRowLost /\ ResetIsSent /\ StopReaches /\ SentBeforeClose
  BY DEF NoRowLost, ResetIsSent, StopReaches, SentBeforeClose, Flushers
<1> QED
  BY <1>1, <1>2, <1>3, <1>4, <1>5, <1>6 DEF IInv

------------------------------------------------------------------------------
(* Every action keeps the types.                                             *)

\* A step of a decoder keeps the types: LookUp makes no third buffer, since an entry
\* is missing at the start and after the one Delete, and AppendRow tests the size.
LEMMA TypeWriter ==
  ASSUME IInv, NEW k \in Keys, Writer(k)
  PROVE  TypeOK'
<1> USE DEF TypeOK, bufferVars, flusherVars, historyVars
<1>0. TypeOK /\ MaxFrames \in Nat /\ MaxRows \in Nat
  BY KafkaAssumption DEF IInv
<1>1. CASE LookUp(k)
  <2>1. written' \in [Keys -> 0 .. MaxFrames]
    BY <1>0, <1>1 DEF LookUp
  <2>2. CASE entry[k] # None
    <3>1. entry[k] \in Generations /\ UNCHANGED <<made, entry>> /\ holding' = [holding EXCEPT ![k] = entry[k]]
      BY <1>0, <1>1, <2>2 DEF LookUp
    <3>2. holding' \in [Keys -> Generations \cup {None}]
      BY <1>0, <3>1
    <3> QED
      BY <1>0, <1>1, <2>1, <3>1, <3>2 DEF LookUp
  <2>3. CASE entry[k] = None
    <3>1. made[k] \in {0, 1}
      BY <1>0, <2>3, KafkaAssumption DEF IInv, OneDelete, Generations
    <3>2. made' = [made EXCEPT ![k] = made[k] + 1] /\ made \in [Keys -> 0 .. 2]
      BY <1>0, <1>1, <2>3 DEF LookUp
    <3>3. made'[k] \in Generations /\ made' \in [Keys -> 0 .. 2]
      BY <3>1, <3>2 DEF Generations
    <3>4. holding' \in [Keys -> Generations \cup {None}] /\ entry' \in [Keys -> Generations \cup {None}]
      BY <1>0, <1>1, <2>3, <3>3 DEF LookUp
    <3> QED
      BY <1>0, <1>1, <2>1, <3>3, <3>4 DEF LookUp
  <2> QED
    BY <2>2, <2>3
<1>2. CASE AppendRow(k)
  <2> DEFINE g == holding[k]
             n == written[k]
  <2>1. g \in Generations /\ n \in Frames
    BY <1>0, <1>2, KafkaAssumption DEF AppendRow, IInv, RowOrder, RowOrderOf, Frames
  <2>2. holding' \in [Keys -> Generations \cup {None}]
    BY <1>0, <1>2 DEF AppendRow
  <2>3. CASE TsOf[n] # lastTs[k][g] /\ HasRoom(k, g)
    <3>1. /\ rows' = [rows EXCEPT ![k][g] = Append(@, n)]
          /\ lastTs' = [lastTs EXCEPT ![k][g] = TsOf[n]]
          /\ kept' = [kept EXCEPT ![k] = @ \cup {n}]
      BY <1>2, <2>3 DEF AppendRow
    <3>2. rows[k][g] \in Seq(Frames) /\ Len(rows[k][g]) < MaxRows
      BY <1>0, <2>1, <2>3 DEF HasRoom
    <3>3. Append(rows[k][g], n) \in Seq(Frames) /\ Len(Append(rows[k][g], n)) <= MaxRows
      BY <1>0, <2>1, <3>2
    <3>4. rows' \in [Keys -> [Generations -> Seq(Frames)]]
      BY <1>0, <2>1, <3>1, <3>3
    <3>5. \A j \in Keys : \A h \in Generations : Len(rows'[j][h]) <= MaxRows
      BY <1>0, <2>1, <3>1, <3>3
    <3>6. TsOf[n] \in Nat
      BY <2>1, KafkaAssumption DEF Frames
    <3>7. lastTs' \in [Keys -> [Generations -> Nat]]
      BY <1>0, <2>1, <3>1, <3>6
    <3>8. kept' \in [Keys -> SUBSET Frames]
      BY <1>0, <2>1, <3>1
    <3> QED
      BY <1>0, <1>2, <2>2, <3>4, <3>5, <3>7, <3>8 DEF AppendRow
  <2>4. CASE ~(TsOf[n] # lastTs[k][g] /\ HasRoom(k, g))
    BY <1>0, <1>2, <2>2, <2>4 DEF AppendRow
  <2> QED
    BY <2>3, <2>4
<1> QED
  BY <1>1, <1>2 DEF Writer

\* A step of a flusher keeps the types.
LEMMA TypeFlusher ==
  ASSUME IInv, NEW f \in Flushers, Flusher(f)
  PROVE  TypeOK'
<1> USE DEF TypeOK, writerVars, bufferVars, historyVars, FlusherGoto
<1>0. TypeOK
  BY DEF IInv
<1>1. ASSUME NEW k \in Keys, Visit(f, k) PROVE TypeOK'
  <2>1. [key |-> k, buf |-> entry[k]] \in Buffers
    BY <1>0 DEF Buffers
  <2>2. at' \in [Flushers -> Buffers \cup {None}] /\ toVisit' \in [Flushers -> SUBSET Keys]
    BY <1>0, <1>1, <2>1 DEF Visit
  <2> QED
    BY <1>0, <1>1, <2>2 DEF Visit
<1>2. CASE LoadCount(f)
  BY <1>0, <1>2 DEF LoadCount, AfterFlush
<1>3. ASSUME fpc[f] \in Working PROVE at[f].key \in Keys /\ at[f].buf \in Generations
  BY <1>3 DEF IInv, Places
<1>4. CASE InsertLock(f)
  <2>1. mutex' \in [Keys -> [Generations -> Flushers \cup {None}]]
    BY <1>0, <1>3, <1>4 DEF InsertLock, SetMutex, Working
  <2> QED
    BY <1>0, <1>4, <2>1 DEF InsertLock
<1>5. CASE Send(f)
  <2>1. sent[at[f].key] \o rows[at[f].key][at[f].buf] \in Seq(Frames)
    BY <1>0, <1>3, <1>5 DEF Send, Working
  <2>2. sent' \in [Keys -> Seq(Frames)]
    BY <1>0, <1>3, <1>5, <2>1 DEF Send, Working
  <2> QED
    BY <1>0, <1>5, <2>2 DEF Send
<1>6. CASE Reset(f)
  <2>1. at[f].key \in Keys /\ at[f].buf \in Generations
    BY <1>3, <1>6 DEF Reset, Working
  <2>2. mutex' \in [Keys -> [Generations -> Flushers \cup {None}]]
    BY <1>0, <1>6, <2>1 DEF Reset, SetMutex
  <2>3. rows' \in [Keys -> [Generations -> Seq(Frames)]]
    BY <1>0, <1>6, <2>1 DEF Reset
  <2>4. \A j \in Keys : \A h \in Generations : rows'[j][h] = rows[j][h] \/ rows'[j][h] = <<>>
    BY <1>0, <1>6, <2>1 DEF Reset
  <2>5. \A j \in Keys : \A h \in Generations : Len(rows'[j][h]) <= MaxRows
    BY <1>0, <2>4, KafkaAssumption
  <2> QED
    BY <1>0, <1>6, <2>2, <2>3, <2>5 DEF Reset, AfterFlush
<1>7. CASE EndRange(f)
  BY <1>0, <1>7 DEF EndRange
<1> QED
  BY <1>1, <1>2, <1>4, <1>5, <1>6, <1>7 DEF Flusher

\* Ticks, the calls from outside and Delete keep the types.
LEMMA TypeOther ==
  ASSUME IInv, Tick \/ CtxDone \/ StopCalled \/ Delete \/ UNCHANGED vars
  PROVE  TypeOK'
<1> USE DEF TypeOK, writerVars, bufferVars, historyVars, flusherVars, FlusherGoto, StartRange
<1>0. TypeOK
  BY DEF IInv
<1>1. CASE Tick
  BY <1>0, <1>1 DEF Tick
<1>2. CASE CtxDone
  BY <1>0, <1>2 DEF CtxDone
<1>3. CASE StopCalled
  BY <1>0, <1>3 DEF StopCalled
<1>4. CASE Delete
  BY <1>0, <1>4 DEF Delete
<1>5. CASE UNCHANGED vars
  BY <1>0, <1>5 DEF vars
<1> QED
  BY <1>1, <1>2, <1>3, <1>4, <1>5

\* Every step keeps the types.
LEMMA TypeStep == IInv /\ [Next]_vars => TypeOK'
BY TypeWriter, TypeFlusher, TypeOther DEF Next

------------------------------------------------------------------------------
(* Where the flushers are: Places, MutexHeld and OneDelete.                  *)


\* Types of the values that these parts compare.
LEMMA PlaceTypes ==
  ASSUME TypeOK
  PROVE  /\ \A k \in Keys : /\ made[k] \in Nat /\ made[k] <= 2
                            /\ holding[k] = None \/ holding[k] \in Nat
         /\ \A g \in Generations : g \in Nat
<1>1. made \in [Keys -> 0 .. 2] /\ holding \in [Keys -> Generations \cup {None}]
  BY DEF TypeOK
<1>2. \A g \in Generations : g \in Nat
  BY DEF Generations
<1>3. \A k \in Keys : made[k] \in 0 .. 2 /\ holding[k] \in Generations \cup {None}
  BY <1>1
<1> QED
  BY <1>2, <1>3

\* Actions that leave every flusher where it is.
LEMMA PlacesWriter ==
  ASSUME IInv, NEW k \in Keys, Writer(k)
  PROVE  Places' /\ MutexHeld' /\ OneDelete'
<1>0. TypeOK /\ Places /\ MutexHeld /\ OneDelete
  BY DEF IInv
<1>t. /\ \A j \in Keys : /\ made[j] \in Nat /\ made[j] <= 2
                         /\ holding[j] = None \/ holding[j] \in Nat
      /\ \A g \in Generations : g \in Nat
  BY <1>0, PlaceTypes
<1>1. UNCHANGED <<mutex, fpc, at, toVisit, client>>
  BY DEF Writer, LookUp, AppendRow, bufferVars, flusherVars
<1>2. MutexHeld'
  BY <1>0, <1>1 DEF MutexHeld, At
<1>3. CASE UNCHANGED <<made, entry>>
  <2>1. holding'[k] \in {None, entry[k]} /\ \A j \in Keys \ {k} : holding'[j] = holding[j]
    BY <1>0, <1>3, KafkaAssumption DEF Writer, LookUp, AppendRow, TypeOK, OneDelete, Generations
  <2>2. \A j \in Keys : holding'[j] # None => holding'[j] <= made'[j]
    BY <1>0, <1>t, <1>3, <2>1 DEF OneDelete
  <2>3. OneDelete'
    BY <1>0, <1>1, <1>3, <2>2 DEF OneDelete
  <2> QED
    BY <1>0, <1>1, <1>2, <1>3, <2>3 DEF Places
<1>4. CASE entry[k] = None /\ LookUp(k)
  <2>1. made[k] \in {0, 1} /\ (client = "open" => made[k] = 0)
    BY <1>0, <1>4, KafkaAssumption DEF OneDelete, TypeOK, Generations
  <2>2. /\ made' = [made EXCEPT ![k] = made[k] + 1]
        /\ entry' = [entry EXCEPT ![k] = made[k] + 1]
        /\ holding' = [holding EXCEPT ![k] = made[k] + 1]
    BY <1>0, <1>4 DEF LookUp, TypeOK
  <2>3. \A j \in Keys : made'[j] = (IF j = k THEN made[j] + 1 ELSE made[j])
    BY <1>0, <2>2 DEF TypeOK
  <2>4. Places'
    <3>1. \A j \in Keys : made[j] <= made'[j] /\ made'[j] \in Nat
      BY <1>t, <2>3
    <3>2. ASSUME NEW f \in Flushers, fpc[f] \in Working
          PROVE  at[f] \in [key : Keys, buf : Generations] /\ at[f].buf <= made'[at[f].key]
      <4>1. at[f] \in [key : Keys, buf : Generations] /\ at[f].buf <= made[at[f].key]
        BY <1>0, <3>2 DEF Places
      <4>2. at[f].key \in Keys /\ at[f].buf \in Generations
        BY <4>1
      <4>3. made[at[f].key] \in Nat /\ at[f].buf \in Nat
        BY <1>t, <4>2
      <4> QED
        BY <3>1, <4>1, <4>2, <4>3
    <3> QED
      BY <1>0, <1>1, <3>2 DEF Places
  <2>5. k \notin toVisit["stop"] /\ ~(fpc["stop"] \in Working /\ at["stop"].key = k)
    BY <1>0, <1>4, KafkaAssumption DEF OneDelete, Generations
  <2>6. OneDelete'
    <3> SUFFICES ASSUME NEW j \in Keys
                 PROVE  /\ entry'[j] = None \/ (made'[j] > 0 /\ entry'[j] = made'[j])
                        /\ holding'[j] # None => holding'[j] <= made'[j]
                        /\ made'[j] > 0 /\ client = "open" => entry'[j] = 1
                        /\ made'[j] = 2 => entry'[j] = 2
                        /\ j \in toVisit["stop"] => entry'[j] = 1
                        /\ fpc["stop"] \in Working /\ at["stop"].key = j =>
                              entry'[j] = 1 /\ at["stop"].buf = 1 /\ j \notin toVisit["stop"]
      BY <1>0, <1>1 DEF OneDelete
    <3>1. CASE j = k
      BY <1>0, <2>1, <2>2, <2>5, <3>1 DEF TypeOK
    <3>2. CASE j # k
      <4>1. made'[j] = made[j] /\ entry'[j] = entry[j] /\ holding'[j] = holding[j]
        BY <1>0, <2>2, <3>2 DEF TypeOK
      <4> QED
        BY <1>0, <4>1 DEF OneDelete
    <3> QED
      BY <3>1, <3>2
  <2> QED
    BY <1>2, <2>4, <2>6
<1> QED
  BY <1>3, <1>4 DEF Writer, LookUp, AppendRow

\* A flusher that visits a key gets the buffer in the map.
LEMMA PlacesVisit ==
  ASSUME IInv, NEW f \in Flushers, NEW k \in Keys, Visit(f, k)
  PROVE  Places' /\ MutexHeld' /\ OneDelete'
<1> USE DEF FlusherGoto
<1>0. TypeOK /\ Places /\ MutexHeld /\ OneDelete
  BY DEF IInv
<1>1. UNCHANGED <<holding, made, entry, mutex, client>>
  BY DEF Visit, writerVars, bufferVars
<1>2. /\ k \in toVisit[f] /\ fpc[f] = "range"
      /\ fpc' = [fpc EXCEPT ![f] = IF entry[k] = None THEN "range" ELSE "flush"]
      /\ toVisit' = [toVisit EXCEPT ![f] = @ \ {k}]
      /\ at' = [at EXCEPT ![f] = [key |-> k, buf |-> entry[k]]]
  BY DEF Visit
<1>3. fpc'[f] = (IF entry[k] = None THEN "range" ELSE "flush") /\ at'[f] = [key |-> k, buf |-> entry[k]]
  BY <1>0, <1>2 DEF TypeOK
<1>4. \A e \in Flushers \ {f} : fpc'[e] = fpc[e] /\ at'[e] = at[e] /\ toVisit'[e] = toVisit[e]
  BY <1>0, <1>2 DEF TypeOK
<1>5. entry[k] # None => entry[k] \in Generations /\ entry[k] <= made[k]
  BY <1>0, PlaceTypes DEF OneDelete, TypeOK
<1>6. Places'
  <2>1. ASSUME fpc'[f] \in Working
        PROVE  at'[f] \in [key : Keys, buf : Generations] /\ at'[f].buf <= made[at'[f].key]
    BY <1>3, <1>5, <2>1 DEF Working
  <2>2. ASSUME NEW e \in Flushers, fpc'[e] \in Working, e # f
        PROVE  at'[e] \in [key : Keys, buf : Generations] /\ at'[e].buf <= made[at'[e].key]
    BY <1>0, <1>4, <2>2 DEF Places
  <2>3. fpc'["ticker"] # "delete"
    BY <1>0, <1>3, <1>4 DEF Places, Flushers
  <2> QED
    BY <1>1, <2>1, <2>2, <2>3 DEF Places
<1>7. MutexHeld'
  BY <1>0, <1>1, <1>2, <1>3, <1>4 DEF MutexHeld, At
<1>8. OneDelete'
  <2>1. CASE f = "ticker"
    BY <1>0, <1>1, <1>4, <2>1 DEF OneDelete, Flushers
  <2>2. CASE f = "stop"
    <3>1. entry[k] = 1 /\ fpc'["stop"] = "flush" /\ at'["stop"] = [key |-> k, buf |-> 1]
      BY <1>0, <1>2, <1>3, <2>2, KafkaAssumption DEF OneDelete, Generations
    <3>2. toVisit'["stop"] = toVisit["stop"] \ {k}
      BY <1>0, <1>2, <2>2 DEF TypeOK
    <3>3. client = "stopping"
      BY <1>0, <1>2, <2>2 DEF OneDelete, TypeOK
    <3> QED
      BY <1>0, <1>1, <3>1, <3>2, <3>3 DEF OneDelete
  <2> QED
    BY <2>1, <2>2 DEF Flushers
<1> QED
  BY <1>6, <1>7, <1>8

\* A flusher keeps its buffer until it is done, and takes the mutex only when it is free.
LEMMA PlacesFlusher ==
  ASSUME IInv, NEW f \in Flushers,
         LoadCount(f) \/ InsertLock(f) \/ Send(f) \/ Reset(f) \/ EndRange(f)
  PROVE  Places' /\ MutexHeld' /\ OneDelete'
<1> USE DEF FlusherGoto
<1>0. TypeOK /\ Places /\ MutexHeld /\ OneDelete
  BY DEF IInv
<1>1. UNCHANGED <<holding, made, entry, at, toVisit>> /\ \A e \in Flushers \ {f} : fpc'[e] = fpc[e]
  BY <1>0 DEF TypeOK, LoadCount, InsertLock, Send, Reset, EndRange, writerVars
<1>2. /\ fpc'[f] \in Working => fpc[f] \in Working
      /\ fpc'[f] = "delete" => f = "stop"
      /\ fpc[f] # "idle" /\ (fpc'[f] = "idle" => f = "ticker")
  BY <1>0 DEF TypeOK, LoadCount, InsertLock, Send, Reset, EndRange, AfterFlush, Working, Flushers
<1>3. Places'
  BY <1>0, <1>1, <1>2 DEF Places, Flushers
<1>4. OneDelete'
  <2>1. CASE EndRange(f)
    BY <1>0, <1>1, <2>1 DEF OneDelete, EndRange, TypeOK, Working, Flushers
  <2>2. CASE ~EndRange(f)
    <3>1. UNCHANGED client /\ fpc[f] \notin {"idle", "closed"} /\ fpc'[f] \notin {"idle", "closed"}
      BY <1>0, <2>2 DEF TypeOK, LoadCount, InsertLock, Send, Reset, AfterFlush
    <3> QED
      BY <1>0, <1>1, <1>2, <3>1 DEF OneDelete, Flushers
  <2> QED
    BY <2>1, <2>2
<1>5. MutexHeld'
  <2>1. CASE LoadCount(f) \/ Send(f) \/ EndRange(f)
    <3>1. UNCHANGED mutex /\ (fpc'[f] \in {"send", "reset"} <=> fpc[f] \in {"send", "reset"})
      BY <1>0, <2>1 DEF LoadCount, Send, EndRange, TypeOK, AfterFlush, bufferVars
    <3> QED
      BY <1>0, <1>1, <3>1 DEF MutexHeld, At
  <2> DEFINE k == at[f].key
             g == at[f].buf
  <2>2. ASSUME InsertLock(f) \/ Reset(f) PROVE k \in Keys /\ g \in Generations
    BY <1>0, <2>2 DEF InsertLock, Reset, Places, Working
  <2>3. CASE InsertLock(f)
    <3>1. mutex[k][g] = None /\ fpc[f] = "lock" /\ fpc'[f] = "send"
      BY <1>0, <2>3 DEF InsertLock, TypeOK
    <3>2. \A j \in Keys : \A h \in Generations : mutex'[j][h] = IF j = k /\ h = g THEN f ELSE mutex[j][h]
      BY <1>0, <2>2, <2>3 DEF InsertLock, SetMutex, TypeOK
    <3> SUFFICES ASSUME NEW e \in Flushers, NEW j \in Keys, NEW h \in Generations
                 PROVE  mutex'[j][h] = e <=> fpc'[e] \in {"send", "reset"} /\ At(e, j, h)
      BY <1>1 DEF MutexHeld, At
    <3>3. mutex[j][h] = e <=> fpc[e] \in {"send", "reset"} /\ At(e, j, h)
      BY <1>0 DEF MutexHeld
    <3>4. None # e
      BY KafkaAssumption
    <3>5. CASE e = f
      BY <3>1, <3>2, <3>3, <3>5 DEF At
    <3>6. CASE e # f
      BY <1>1, <3>1, <3>2, <3>3, <3>4, <3>6 DEF At
    <3> QED
      BY <3>5, <3>6
  <2>4. CASE Reset(f)
    <3>1. fpc[f] = "reset" /\ fpc'[f] \notin {"send", "reset"}
      BY <1>0, <2>4 DEF Reset, TypeOK, AfterFlush
    <3>2. \A j \in Keys : \A h \in Generations : mutex'[j][h] = IF j = k /\ h = g THEN None ELSE mutex[j][h]
      BY <1>0, <2>2, <2>4 DEF Reset, SetMutex, TypeOK
    <3> SUFFICES ASSUME NEW e \in Flushers, NEW j \in Keys, NEW h \in Generations
                 PROVE  mutex'[j][h] = e <=> fpc'[e] \in {"send", "reset"} /\ At(e, j, h)
      BY <1>1 DEF MutexHeld, At
    <3>3. mutex[j][h] = e <=> fpc[e] \in {"send", "reset"} /\ At(e, j, h)
      BY <1>0 DEF MutexHeld
    <3>4. mutex[k][g] = f
      BY <1>0, <2>2, <2>4, <3>1 DEF MutexHeld, At
    <3>5. CASE e = f
      BY <3>1, <3>2, <3>3, <3>5, KafkaAssumption DEF At
    <3>6. CASE e # f
      BY <1>1, <3>1, <3>2, <3>3, <3>4, <3>6, KafkaAssumption DEF At
    <3> QED
      BY <3>5, <3>6
  <2> QED
    BY <2>1, <2>3, <2>4
<1> QED
  BY <1>3, <1>4, <1>5

\* Stop begins with the buffers of the map and deletes each key after its flush.
LEMMA PlacesOther ==
  ASSUME IInv, Tick \/ CtxDone \/ StopCalled \/ Delete \/ UNCHANGED vars
  PROVE  Places' /\ MutexHeld' /\ OneDelete'
<1> USE DEF FlusherGoto
<1>0. TypeOK /\ Places /\ MutexHeld /\ OneDelete
  BY DEF IInv
<1>1. UNCHANGED <<holding, made, mutex, at>>
  BY DEF Tick, CtxDone, StopCalled, Delete, StartRange, vars, writerVars, bufferVars, flusherVars
<1>2. CASE Tick \/ CtxDone
  <2>1. /\ UNCHANGED <<entry, client>> /\ fpc'["stop"] = fpc["stop"] /\ toVisit'["stop"] = toVisit["stop"]
        /\ fpc["ticker"] = "idle" /\ fpc'["ticker"] \in {"range", "closed"}
    BY <1>0, <1>2 DEF Tick, CtxDone, StartRange, TypeOK, Flushers
  <2> QED
    BY <1>0, <1>1, <2>1 DEF Places, MutexHeld, OneDelete, At, Working, Flushers
<1>3. CASE StopCalled
  <2>1. /\ client = "open" /\ client' = "stopping" /\ UNCHANGED entry
        /\ fpc["stop"] = "idle" /\ fpc'["stop"] = "range" /\ fpc'["ticker"] = fpc["ticker"]
        /\ toVisit'["stop"] = {k \in Keys : entry[k] # None}
    BY <1>0, <1>3 DEF StopCalled, StartRange, TypeOK, Flushers
  <2>2. \A k \in Keys : entry[k] # None => entry[k] = 1
    BY <1>0, <2>1 DEF OneDelete
  <2> QED
    BY <1>0, <1>1, <2>1, <2>2 DEF Places, MutexHeld, OneDelete, At, Working, Flushers
<1>4. CASE Delete
  <2>1. /\ fpc["stop"] = "delete" /\ fpc'["stop"] = "range" /\ fpc'["ticker"] = fpc["ticker"]
        /\ UNCHANGED <<client, toVisit>>
    BY <1>0, <1>4 DEF Delete, TypeOK, Flushers
  <2>2. at["stop"].key \in Keys
    BY <1>0, <2>1 DEF Places, Working, Flushers
  <2>3. \A k \in Keys : entry'[k] = IF k = at["stop"].key THEN None ELSE entry[k]
    BY <1>0, <1>4, <2>2 DEF Delete, TypeOK
  <2>4. entry[at["stop"].key] = 1 /\ at["stop"].key \notin toVisit["stop"]
    BY <1>0, <2>1, <2>2 DEF OneDelete, Working
  <2>5. client = "stopping"
    BY <1>0, <2>1 DEF OneDelete, TypeOK
  <2>6. OneDelete'
    BY <1>0, <1>1, <2>1, <2>3, <2>4, <2>5 DEF OneDelete, Working
  <2> QED
    BY <1>0, <1>1, <2>1, <2>6 DEF Places, MutexHeld, At, Working, Flushers
<1>5. CASE UNCHANGED vars
  BY <1>0, <1>5 DEF vars, writerVars, bufferVars, flusherVars, Places, MutexHeld, OneDelete, At
<1> QED
  BY <1>2, <1>3, <1>4, <1>5

\* Every step keeps the three parts.
LEMMA PlacesStep == IInv /\ [Next]_vars => Places' /\ MutexHeld' /\ OneDelete'
BY PlacesWriter, PlacesVisit, PlacesFlusher, PlacesOther DEF Next, Flusher

------------------------------------------------------------------------------
(* The order of rows and messages.                                           *)

\* Types of the values of one sensor that the order compares.
LEMMA RowTypes ==
  ASSUME TypeOK, NEW k \in Keys
  PROVE  /\ written[k] \in Nat /\ made[k] \in Nat /\ sent[k] \in Seq(Nat) /\ sent[k] \in Seq(Frames)
         /\ \A g \in Generations : g \in Nat /\ rows[k][g] \in Seq(Nat) /\ rows[k][g] \in Seq(Frames)
<1>1. written[k] \in 0 .. MaxFrames /\ made[k] \in 0 .. 2
  BY DEF TypeOK
<1>2. sent[k] \in Seq(Frames) /\ \A g \in Generations : rows[k][g] \in Seq(Frames)
  BY DEF TypeOK
<1>3. Frames \subseteq Nat
  BY DEF Frames
<1>4. \A s \in Seq(Frames) : s \in Seq(Nat)
  BY <1>3, SeqWider
<1>5. \A g \in Generations : g \in Nat
  BY DEF Generations
<1> QED
  BY <1>1, <1>2, <1>4, <1>5

\* A sensor whose rows and messages stay as they are keeps their order, if no
\* buffer of it becomes one that may be sent and none is done with.
LEMMA OrderKept ==
  ASSUME IInv, NEW k \in Keys,
         UNCHANGED <<rows[k], sent[k], holding[k], written[k], made[k]>>,
         \A g \in Generations : Sendable(k, g)' => Sendable(k, g),
         \A g \in Generations : Resetting(k, g) => Resetting(k, g)'
  PROVE  RowOrderOf(k)'
<1>1. RowOrderOf(k)
  BY DEF IInv, RowOrder
<1>2. Appended(k)' = Appended(k)
  BY DEF Appended
<1> QED
  BY <1>1, <1>2 DEF RowOrderOf, UpTo, Ascending, Below

\* A new buffer is empty, and it is only made when the decoder has left the old one.
LEMMA OrderLookUp ==
  ASSUME IInv, NEW k \in Keys, LookUp(k)
  PROVE  RowOrder'
<1>0. TypeOK /\ OneDelete /\ RowOrderOf(k)
  BY DEF IInv, RowOrder
<1>t. /\ written[k] \in Nat /\ made[k] \in Nat /\ \A g \in Generations : g \in Nat
  BY <1>0, RowTypes
<1>1. UNCHANGED <<rows, sent, fpc, at>> /\ holding[k] = None
  BY DEF LookUp, bufferVars, flusherVars
<1>2. \A j \in Keys \ {k} : UNCHANGED <<holding[j], written[j], made[j]>>
  BY <1>0 DEF LookUp, TypeOK
<1>3. written'[k] = written[k] + 1
  BY <1>0 DEF LookUp, TypeOK
<1>4. \/ made'[k] = made[k] /\ holding'[k] = made[k] /\ made[k] > 0
      \/ made'[k] = made[k] + 1 /\ holding'[k] = made[k] + 1
  BY <1>0 DEF LookUp, TypeOK, OneDelete
<1>5. \A j \in Keys : \A g \in Generations : Resetting(j, g)' <=> Resetting(j, g)
  BY <1>1 DEF Resetting, At
<1>6. RowOrderOf(k)'
  <2>1. holding'[k] # None
    <3>1. TypeOK'
      BY TypeWriter DEF Writer
    <3>2. holding'[k] = made'[k] /\ made'[k] \in 1 .. 2
      BY <1>t, <1>4, <3>1 DEF TypeOK
    <3> QED
      BY <3>2, KafkaAssumption DEF Generations
  <2>2. Appended(k)' = Appended(k)
    BY <1>t, <1>1, <1>3, <2>1 DEF Appended
  <2>3. holding'[k] = 1 => rows[k][2] = <<>>
    BY <1>0, <1>t, <1>4 DEF RowOrderOf, Generations
  <2>4. ASSUME NEW g \in Generations, Sendable(k, g)', ~Resetting(k, g)'
        PROVE  Below(sent[k], rows[k][g])
    <3>1. CASE Sendable(k, g)
      BY <1>0, <1>5, <2>4, <3>1 DEF RowOrderOf
    <3>2. CASE g > made[k]
      BY <1>0, <3>2 DEF RowOrderOf, Below
    <3> QED
      BY <1>t, <1>1, <1>4, <2>4, <3>1, <3>2 DEF Sendable, At
  <2>5. \A g \in Generations : g > made'[k] => rows[k][g] = <<>>
    BY <1>0, <1>t, <1>4 DEF RowOrderOf
  <2> QED
    BY <1>0, <1>t, <1>1, <1>3, <2>2, <2>3, <2>4, <2>5 DEF RowOrderOf, UpTo, Ascending, Below
<1>7. ASSUME NEW j \in Keys, j # k PROVE RowOrderOf(j)'
  <2>1. \A g \in Generations : Sendable(j, g)' => Sendable(j, g)
    BY <1>1, <1>2, <1>7 DEF Sendable, At
  <2> QED
    BY <1>1, <1>2, <1>5, <1>7, <2>1, OrderKept
<1> QED
  BY <1>6, <1>7 DEF RowOrder

\* The frame that is appended is later than every row and message of its sensor.
LEMMA OrderAppendRow ==
  ASSUME IInv, NEW k \in Keys, AppendRow(k)
  PROVE  RowOrder'
<1>0. TypeOK /\ MutexHeld /\ OneDelete /\ RowOrderOf(k)
  BY DEF IInv, RowOrder
<1> DEFINE g == holding[k]
           n == written[k]
<1>1. UNCHANGED <<sent, written, made, fpc, at>> /\ g # None /\ mutex[k][g] = None
  BY DEF AppendRow, flusherVars
<1>t. /\ n \in Nat /\ made[k] \in Nat /\ sent[k] \in Seq(Nat)
      /\ \A h \in Generations : h \in Nat /\ rows[k][h] \in Seq(Nat)
      /\ g \in Generations
  BY <1>0, <1>1, RowTypes DEF TypeOK
<1>2. n > 0 /\ g <= made[k] /\ Appended(k) = n - 1
  BY <1>0, <1>1 DEF RowOrderOf, OneDelete, Appended
<1>3. holding'[k] = None /\ \A j \in Keys \ {k} : holding'[j] = holding[j] /\ rows'[j] = rows[j]
  BY <1>0 DEF AppendRow, TypeOK
<1>4. \A j \in Keys : \A h \in Generations :
         (Resetting(j, h)' <=> Resetting(j, h)) /\ (Sendable(j, h)' <=> Sendable(j, h))
  BY <1>1 DEF Resetting, Sendable, At
<1>5. Appended(k)' = n
  BY <1>1, <1>3 DEF Appended
<1>6. RowOrderOf(k)'
  <2>1. UpTo(sent[k], n) /\ \A h \in Generations : UpTo(rows[k][h], n) /\ UpTo(rows[k][h], n - 1)
    BY <1>0, <1>t, <1>2 DEF RowOrderOf, UpTo
  <2>2. CASE rows'[k] = rows[k]
    BY <1>0, <1>1, <1>3, <1>4, <1>5, <2>1, <2>2, KafkaAssumption DEF RowOrderOf, UpTo, Ascending, Below, Generations
  <2>3. CASE rows' = [rows EXCEPT ![k][g] = Append(@, n)]
    <3>1. rows'[k][g] = Append(rows[k][g], n) /\ \A h \in Generations \ {g} : rows'[k][h] = rows[k][h]
      BY <1>0, <1>t, <2>3 DEF TypeOK
    <3>2. Ascending(rows'[k][g]) /\ UpTo(rows'[k][g], n)
      BY <1>0, <1>t, <2>1, <3>1, AscendingAppend DEF RowOrderOf
    <3>3. ~Resetting(k, g)
      BY <1>0, <1>1, <1>t, KafkaAssumption DEF Resetting, MutexHeld
    <3>4. Sendable(k, g) => Below(sent[k], rows'[k][g])
      <4>1. UpTo(sent[k], n - 1)
        BY <1>0, <1>2 DEF RowOrderOf
      <4> QED
        BY <1>0, <1>t, <3>1, <3>3, <4>1, BelowAppend DEF RowOrderOf
    <3>5. Below(rows'[k][1], rows'[k][2])
      <4>1. CASE g = 1
        BY <1>0, <3>1, <4>1 DEF RowOrderOf, Below, Generations
      <4>2. CASE g = 2
        <5>1. rows'[k][1] = rows[k][1] /\ rows'[k][2] = Append(rows[k][2], n)
          BY <3>1, <4>2 DEF Generations
        <5>2. UpTo(rows[k][1], n - 1) /\ rows[k][1] \in Seq(Nat) /\ rows[k][2] \in Seq(Nat)
          BY <1>t, <2>1 DEF Generations
        <5> QED
          BY <1>0, <1>t, <5>1, <5>2, BelowAppend DEF RowOrderOf
      <4> QED
        BY <1>t, <4>1, <4>2 DEF Generations
    <3>6. holding'[k] # 1
      BY <1>3, KafkaAssumption DEF Generations
    <3>7. ASSUME NEW h \in Generations
          PROVE  /\ UpTo(rows'[k][h], n) /\ Ascending(rows'[k][h])
                 /\ h > made[k] => rows'[k][h] = <<>>
                 /\ Sendable(k, h) /\ ~Resetting(k, h) => Below(sent[k], rows'[k][h])
      <4>1. CASE h = g
        BY <1>t, <1>2, <3>2, <3>4, <4>1
      <4>2. CASE h # g
        BY <1>0, <2>1, <3>1, <4>2 DEF RowOrderOf
      <4> QED
        BY <4>1, <4>2
    <3> QED
      BY <1>0, <1>1, <1>3, <1>4, <1>5, <2>1, <3>5, <3>6, <3>7 DEF RowOrderOf, UpTo, Ascending, Below
  <2> QED
    BY <2>2, <2>3 DEF AppendRow
<1>7. ASSUME NEW j \in Keys, j # k PROVE RowOrderOf(j)'
  BY <1>1, <1>3, <1>4, <1>7, OrderKept
<1> QED
  BY <1>6, <1>7 DEF RowOrder

\* The rows sent are later than the messages; rows of a newer buffer are later still,
\* and those of an older one are not sent any more.
LEMMA OrderSend ==
  ASSUME IInv, NEW f \in Flushers, Send(f)
  PROVE  RowOrder'
<1>0. TypeOK /\ MutexHeld /\ OneDelete /\ Places
  BY DEF IInv
<1>1. /\ fpc[f] = "send" /\ fpc' = [fpc EXCEPT ![f] = "reset"]
      /\ UNCHANGED <<rows, written, holding, made, at>>
  BY DEF Send, FlusherGoto, bufferVars, writerVars
<1>2. PICK k \in Keys, g \in Generations : At(f, k, g) /\ g <= made[k]
  BY <1>0, <1>1 DEF Places, Working, At
<1>3. fpc'[f] = "reset" /\ \A e \in Flushers \ {f} : fpc'[e] = fpc[e]
  BY <1>0, <1>1 DEF TypeOK
<1>t. /\ sent[k] \in Seq(Nat) /\ written[k] \in Nat /\ made[k] \in Nat
      /\ \A h \in Generations : h \in Nat /\ rows[k][h] \in Seq(Nat)
  BY <1>0, <1>2, RowTypes
<1>4. \A j \in Keys : Appended(j)' = Appended(j)
  BY <1>1 DEF Appended
<1>5. \A j \in Keys : \A h \in Generations :
         (Sendable(j, h)' => Sendable(j, h)) /\ (Resetting(j, h) => Resetting(j, h)')
  BY <1>1, <1>3 DEF Sendable, Resetting, Working, At
<1>6. ASSUME NEW j \in Keys, sent'[j] = sent[j] PROVE RowOrderOf(j)'
  BY <1>1, <1>5, <1>6, OrderKept
<1>7. \A j \in Keys \ {k} : sent'[j] = sent[j]
  BY <1>0, <1>1, <1>2 DEF Send, TypeOK, At
<1>8. ASSUME sent'[k] = sent[k] \o rows[k][g] PROVE RowOrderOf(k)'
  <2>0. RowOrderOf(k)
    BY <1>2 DEF IInv, RowOrder
  <2>1. ~Resetting(k, g)
    BY <1>0, <1>1, <1>2 DEF Resetting, MutexHeld, At
  <2>2. Sendable(k, g)
    <3>1. CASE f = "ticker"
      BY <1>1, <1>2, <3>1 DEF Sendable, At, Working
    <3>2. CASE f = "stop"
      <4>1. entry[k] = 1 /\ g = 1
        BY <1>0, <1>1, <1>2, <3>2 DEF OneDelete, Working, At
      <4>2. made[k] = 1
        BY <1>0, <1>2, <4>1, KafkaAssumption DEF OneDelete, Generations
      <4> QED
        BY <4>1, <4>2 DEF Sendable
    <3> QED
      BY <3>1, <3>2 DEF Flushers
  <2>3. Below(sent[k], rows[k][g]) /\ Ascending(sent[k]) /\ Ascending(rows[k][g])
    BY <1>2, <2>0, <2>1, <2>2 DEF RowOrderOf
  <2>4. Ascending(sent'[k])
    BY <1>2, <1>8, <1>t, <2>3, AscendingConcat
  <2>5. UpTo(sent'[k], Appended(k))
    <3>1. Appended(k) \in Nat
      BY <1>t, <2>0 DEF Appended, RowOrderOf
    <3> QED
      BY <1>2, <1>8, <1>t, <2>0, <3>1, BoundConcat DEF RowOrderOf
  <2>6. ASSUME NEW h \in Generations, Sendable(k, h)', ~Resetting(k, h)'
        PROVE  Below(sent'[k], rows[k][h])
    <3>1. h # g
      BY <1>1, <1>2, <1>3, <2>6 DEF Resetting, At
    <3>2. Sendable(k, h) /\ ~Resetting(k, h)
      BY <1>2, <1>5, <2>6
    <3>3. Below(sent[k], rows[k][h])
      BY <2>0, <3>2 DEF RowOrderOf
    <3>4. CASE h = 2
      <4>1. g = 1
        BY <1>2, <3>1, <3>4 DEF Generations
      <4>2. Below(rows[k][g], rows[k][h])
        BY <2>0, <3>4, <4>1 DEF RowOrderOf
      <4> QED
        BY <1>2, <1>8, <1>t, <3>3, <4>2, BoundConcat
    <3>5. CASE h = 1
      <4>1. g = 2 /\ made[k] # 1
        BY <1>2, <1>t, <3>1, <3>5 DEF Generations
      <4>2. f # "ticker"
        BY <1>1, <1>2, <3>2, <3>5, <4>1 DEF Sendable, At
      <4>3. f # "stop"
        BY <1>0, <1>1, <1>2, <4>1 DEF OneDelete, Working, At
      <4> QED
        BY <4>2, <4>3 DEF Flushers
    <3> QED
      BY <3>4, <3>5 DEF Generations
  <2> QED
    BY <1>1, <1>2, <1>4, <2>0, <2>4, <2>5, <2>6 DEF RowOrderOf, UpTo, Ascending, Below
<1>9. sent'[k] = sent[k] \/ sent'[k] = sent[k] \o rows[k][g]
  BY <1>0, <1>2 DEF Send, TypeOK, At
<1>10. RowOrderOf(k)'
  BY <1>2, <1>6, <1>8, <1>9
<1>11. \A j \in Keys \ {k} : RowOrderOf(j)'
  BY <1>6, <1>7
<1> QED
  BY <1>10, <1>11 DEF RowOrder

\* An emptied buffer is in order.
LEMMA OrderReset ==
  ASSUME IInv, NEW f \in Flushers, Reset(f)
  PROVE  RowOrder'
<1>0. TypeOK /\ Places
  BY DEF IInv
<1>1. /\ fpc[f] = "reset" /\ fpc'[f] \in {"delete", "range"} /\ \A e \in Flushers \ {f} : fpc'[e] = fpc[e]
      /\ UNCHANGED <<sent, written, holding, made, at>>
  BY <1>0 DEF Reset, FlusherGoto, writerVars, AfterFlush, TypeOK
<1>2. PICK k \in Keys, g \in Generations : At(f, k, g)
  BY <1>0, <1>1 DEF Places, Working, At
<1>3. \A j \in Keys : \A h \in Generations :
         rows'[j][h] = IF j = k /\ h = g THEN <<>> ELSE rows[j][h]
  BY <1>0, <1>2 DEF Reset, TypeOK, At
<1>4. \A j \in Keys : Appended(j)' = Appended(j)
  BY <1>1 DEF Appended
<1>5. \A j \in Keys : \A h \in Generations :
         /\ Sendable(j, h)' => Sendable(j, h)
         /\ (j = k /\ h = g) \/ (Resetting(j, h) => Resetting(j, h)')
  <2> TAKE j \in Keys
  <2> TAKE h \in Generations
  <2>1. Sendable(j, h)' => Sendable(j, h)
    <3>1. fpc'["ticker"] \in Working => fpc["ticker"] \in Working
      BY <1>1 DEF Working, Flushers
    <3> QED
      BY <1>1, <3>1 DEF Sendable, At
  <2>2. ASSUME Resetting(j, h), ~(j = k /\ h = g) PROVE Resetting(j, h)'
    <3>1. PICK e \in Flushers : fpc[e] = "reset" /\ At(e, j, h)
      BY <2>2 DEF Resetting
    <3>2. e # f
      BY <1>2, <2>2, <3>1 DEF At
    <3>3. fpc'[e] = "reset" /\ At(e, j, h)'
      BY <1>1, <3>1, <3>2 DEF At
    <3> QED
      BY <3>3 DEF Resetting
  <2> QED
    BY <2>1, <2>2
<1> SUFFICES ASSUME NEW j \in Keys PROVE RowOrderOf(j)'
  BY DEF RowOrder
<1>6. RowOrderOf(j)
  BY DEF IInv, RowOrder
<1>7. ASSUME NEW h \in Generations
      PROVE  /\ UpTo(rows'[j][h], Appended(j)) /\ Ascending(rows'[j][h])
             /\ h > made[j] => rows'[j][h] = <<>>
             /\ Sendable(j, h)' /\ ~Resetting(j, h)' => Below(sent[j], rows'[j][h])
  <2>1. CASE j = k /\ h = g
    BY <1>3, <2>1 DEF UpTo, Ascending, Below
  <2>2. CASE ~(j = k /\ h = g)
    BY <1>3, <1>5, <1>6, <2>2 DEF RowOrderOf
  <2> QED
    BY <2>1, <2>2
<1>8. Below(rows'[j][1], rows'[j][2]) /\ (holding[j] = 1 => rows'[j][2] = <<>>)
  BY <1>3, <1>6 DEF RowOrderOf, Below, Generations
<1> QED
  BY <1>1, <1>4, <1>6, <1>7, <1>8 DEF RowOrderOf, UpTo, Ascending, Below

\* The other steps leave rows and messages alone.  A flusher that takes up a
\* buffer takes the one in the map, which is the last one made.
LEMMA OrderOther ==
  ASSUME IInv,
         \/ \E f \in Flushers : \/ \E k \in Keys : Visit(f, k)
                               \/ LoadCount(f) \/ InsertLock(f) \/ EndRange(f)
         \/ Tick \/ CtxDone \/ StopCalled \/ Delete \/ UNCHANGED vars
  PROVE  RowOrder'
<1>0. TypeOK /\ Places /\ OneDelete
  BY DEF IInv
<1>1. UNCHANGED <<rows, sent, holding, written, made>>
  BY DEF Visit, LoadCount, InsertLock, EndRange, Tick, CtxDone, StopCalled, Delete, vars, bufferVars, writerVars
<1>2. \A f \in Flushers : fpc[f] = "reset" => fpc'[f] = "reset" /\ at'[f] = at[f]
  BY <1>0 DEF Visit, LoadCount, InsertLock, EndRange, Tick, CtxDone, StopCalled, Delete, vars, flusherVars,
              FlusherGoto, StartRange, TypeOK
<1>3. \/ at'["ticker"] = at["ticker"] /\ (fpc'["ticker"] \in Working => fpc["ticker"] \in Working)
      \/ fpc'["ticker"] \notin Working
      \/ \E k \in Keys : at'["ticker"].key = k /\ at'["ticker"].buf = made[k]
  <2>1. ASSUME NEW f \in Flushers, NEW k \in Keys, Visit(f, k), f = "ticker", entry[k] # None
        PROVE  at'["ticker"].key = k /\ at'["ticker"].buf = made[k]
    BY <1>0, <2>1 DEF Visit, OneDelete, TypeOK
  <2>2. ASSUME NEW f \in Flushers, NEW k \in Keys, Visit(f, k), f = "ticker", entry[k] = None
        PROVE  fpc'["ticker"] \notin Working
    BY <1>0, <2>2 DEF Visit, FlusherGoto, TypeOK, Working
  <2>3. ASSUME NEW f \in Flushers, NEW k \in Keys, Visit(f, k), f = "stop"
        PROVE  at'["ticker"] = at["ticker"] /\ fpc'["ticker"] = fpc["ticker"]
    BY <1>0, <2>3 DEF Visit, FlusherGoto, TypeOK, Flushers
  <2>4. ASSUME NEW f \in Flushers, LoadCount(f) \/ InsertLock(f) \/ EndRange(f)
        PROVE  at'["ticker"] = at["ticker"] /\ (fpc'["ticker"] \in Working => fpc["ticker"] \in Working)
    BY <1>0, <2>4 DEF LoadCount, InsertLock, EndRange, FlusherGoto, TypeOK, Flushers, Working
  <2>5. CASE Tick \/ CtxDone \/ StopCalled \/ Delete \/ UNCHANGED vars
    BY <1>0, <2>5 DEF Tick, CtxDone, StopCalled, Delete, vars, flusherVars, FlusherGoto, StartRange, TypeOK, Flushers, Working
  <2> QED
    BY <2>1, <2>2, <2>3, <2>4, <2>5 DEF Flushers
<1>4. ASSUME NEW k \in Keys PROVE RowOrderOf(k)'
  <2>1. \A g \in Generations : Sendable(k, g)' => Sendable(k, g)
    BY <1>1, <1>3 DEF Sendable, At
  <2>2. \A g \in Generations : Resetting(k, g) => Resetting(k, g)'
    BY <1>2 DEF Resetting, At
  <2> QED
    BY <1>1, <2>1, <2>2, OrderKept
<1> QED
  BY <1>4 DEF RowOrder

\* Every step keeps the order.
LEMMA OrderStep == IInv /\ [Next]_vars => RowOrder'
BY OrderLookUp, OrderAppendRow, OrderSend, OrderReset, OrderOther DEF Next, Writer, Flusher

------------------------------------------------------------------------------
(* No row is lost.                                                           *)

\* Steps that touch neither rows nor messages nor flushers.
LEMMA LossKept ==
  ASSUME IInv, UNCHANGED <<rows, sent, kept, early, client, fpc, at, toVisit>>
  PROVE  NoRowLost' /\ ResetIsSent' /\ StopReaches' /\ SentBeforeClose'
BY DEF IInv, NoRowLost, ResetIsSent, StopReaches, SentBeforeClose, Working

\* A new row is in its buffer, which no flusher is about to reset.
LEMMA LossAppendRow ==
  ASSUME IInv, NEW k \in Keys, AppendRow(k)
  PROVE  NoRowLost' /\ ResetIsSent' /\ StopReaches' /\ SentBeforeClose'
<1>0. TypeOK /\ Places /\ MutexHeld /\ NoRowLost /\ ResetIsSent /\ StopReaches /\ SentBeforeClose
  BY DEF IInv
<1>1. UNCHANGED <<sent, early, client, fpc, at, toVisit>>
  BY DEF AppendRow, flusherVars
<1>2. CASE UNCHANGED <<rows, kept>>
  BY <1>1, <1>2, LossKept
<1>3. CASE ~UNCHANGED <<rows, kept>>
  <2> DEFINE g == holding[k]
             n == written[k]
  <2>1. /\ rows' = [rows EXCEPT ![k][g] = Append(@, n)]
        /\ kept' = [kept EXCEPT ![k] = @ \cup {n}]
        /\ g \in Generations /\ n \in Frames /\ mutex[k][g] = None
    BY <1>0, <1>3, KafkaAssumption DEF AppendRow, TypeOK, IInv, RowOrder, RowOrderOf, Frames
  <2>2. \A j \in Keys : \A h \in Generations : \A m \in Frames :
           Contains(rows'[j][h], m) <=> Contains(rows[j][h], m) \/ (j = k /\ h = g /\ m = n)
    <3> TAKE j \in Keys
    <3> TAKE h \in Generations
    <3> TAKE m \in Frames
    <3>1. CASE j = k /\ h = g
      <4>1. rows'[j][h] = Append(rows[j][h], n) /\ rows[j][h] \in Seq(Frames)
        BY <1>0, <2>1, <3>1 DEF TypeOK
      <4> QED
        BY <2>1, <3>1, <4>1, ContainsAppend
    <3>2. CASE ~(j = k /\ h = g)
      BY <1>0, <2>1, <3>2 DEF TypeOK
    <3> QED
      BY <3>1, <3>2
  <2>3. \A j \in Keys : kept[j] \subseteq Frames /\ early[j] \subseteq Frames
    BY <1>0 DEF TypeOK
  <2>4. \A j \in Keys : kept'[j] = IF j = k THEN kept[j] \cup {n} ELSE kept[j]
    BY <1>0, <2>1 DEF TypeOK
  <2>5. NoRowLost'
    BY <1>0, <1>1, <2>1, <2>2, <2>3, <2>4 DEF NoRowLost
  <2>6. ASSUME NEW f \in Flushers, fpc[f] = "reset"
        PROVE  /\ at[f].key \in Keys /\ at[f].buf \in Generations
               /\ ~(at[f].key = k /\ at[f].buf = g)
    BY <1>0, <2>1, <2>6, KafkaAssumption DEF Places, Working, MutexHeld, At
  <2>7. ResetIsSent'
    BY <1>0, <1>1, <2>2, <2>6 DEF ResetIsSent
  <2>8. StopReaches'
    BY <1>0, <1>1, <2>2, <2>3 DEF StopReaches, Generations
  <2>9. SentBeforeClose'
    BY <1>0, <1>1 DEF SentBeforeClose
  <2> QED
    BY <2>5, <2>7, <2>8, <2>9
<1> QED
  BY <1>2, <1>3

\* What a flusher is about to drop, and what Stop was to send, is sent now.
LEMMA LossSend ==
  ASSUME IInv, NEW f \in Flushers, Send(f)
  PROVE  NoRowLost' /\ ResetIsSent' /\ StopReaches' /\ SentBeforeClose'
<1>0. TypeOK /\ Places /\ OneDelete /\ NoRowLost /\ ResetIsSent /\ StopReaches /\ SentBeforeClose
  BY DEF IInv
<1>1. /\ fpc[f] = "send" /\ fpc'[f] = "reset" /\ \A e \in Flushers \ {f} : fpc'[e] = fpc[e]
      /\ UNCHANGED <<rows, kept, early, client, at, toVisit>>
  BY <1>0 DEF Send, FlusherGoto, bufferVars, historyVars, TypeOK
<1>2. PICK k \in Keys, g \in Generations : At(f, k, g)
  BY <1>0, <1>1 DEF Places, Working, At
<1>3. \A j \in Keys : \A n \in Frames : Contains(sent[j], n) => Contains(sent'[j], n)
  <2>1. \A n \in Frames : Contains(sent[k] \o rows[k][g], n) <=> Contains(sent[k], n) \/ Contains(rows[k][g], n)
    <3>1. sent[k] \in Seq(Frames) /\ rows[k][g] \in Seq(Frames)
      BY <1>0 DEF TypeOK
    <3> QED
      BY <3>1, ContainsConcat
  <2> QED
    BY <1>0, <1>2, <2>1 DEF Send, TypeOK, At
<1>4. client # "closed" => \A n \in Frames : Contains(rows[k][g], n) => Contains(sent'[k], n)
  <2>1. \A n \in Frames : Contains(sent[k] \o rows[k][g], n) <=> Contains(sent[k], n) \/ Contains(rows[k][g], n)
    <3>1. sent[k] \in Seq(Frames) /\ rows[k][g] \in Seq(Frames)
      BY <1>0 DEF TypeOK
    <3> QED
      BY <3>1, ContainsConcat
  <2> QED
    BY <1>0, <1>2, <2>1 DEF Send, TypeOK, At
<1>5. \A j \in Keys : kept[j] \subseteq Frames /\ early[j] \subseteq Frames
  BY <1>0 DEF TypeOK
<1>6. NoRowLost' /\ SentBeforeClose'
  BY <1>0, <1>1, <1>3, <1>5 DEF NoRowLost, SentBeforeClose
<1>7. ResetIsSent'
  <2> SUFFICES ASSUME client # "closed", NEW e \in Flushers, fpc'[e] = "reset", NEW n \in Frames,
                      Contains(rows[at[e].key][at[e].buf], n)
               PROVE  Contains(sent'[at[e].key], n)
    BY <1>1 DEF ResetIsSent
  <2>1. CASE e = f
    BY <1>2, <1>4, <2>1 DEF At
  <2>2. CASE e # f
    <3>1. fpc[e] = "reset" /\ at[e].key \in Keys
      BY <1>0, <1>1, <2>2 DEF Places, Working
    <3> QED
      BY <1>0, <1>3, <3>1 DEF ResetIsSent
  <2> QED
    BY <2>1, <2>2
<1>8. StopReaches'
  <2> SUFFICES ASSUME client = "stopping", NEW j \in Keys, NEW n \in early[j], ~Contains(sent'[j], n)
               PROVE  /\ Contains(rows[j][1], n)
                      /\ \/ j \in toVisit["stop"]
                         \/ fpc'["stop"] \in {"flush", "lock", "send"} /\ at["stop"].key = j
    BY <1>1 DEF StopReaches
  <2>1. /\ Contains(rows[j][1], n)
        /\ \/ j \in toVisit["stop"]
           \/ fpc["stop"] \in {"flush", "lock", "send"} /\ at["stop"].key = j
    BY <1>0, <1>3, <1>5 DEF StopReaches
  <2>2. CASE f = "stop" /\ at["stop"].key = j
    <3>1. k = j /\ g = 1
      BY <1>0, <1>1, <1>2, <2>2 DEF OneDelete, Working, At
    <3> QED
      BY <1>4, <1>5, <2>1, <3>1
  <2>3. CASE ~(f = "stop" /\ at["stop"].key = j)
    BY <1>1, <2>1, <2>3 DEF Flushers
  <2> QED
    BY <2>2, <2>3
<1> QED
  BY <1>6, <1>7, <1>8

\* The rows that are dropped have been sent.
LEMMA LossReset ==
  ASSUME IInv, NEW f \in Flushers, Reset(f)
  PROVE  NoRowLost' /\ ResetIsSent' /\ StopReaches' /\ SentBeforeClose'
<1>0. TypeOK /\ Places /\ NoRowLost /\ ResetIsSent /\ StopReaches /\ SentBeforeClose
  BY DEF IInv
<1>1. /\ fpc[f] = "reset" /\ fpc'[f] \in {"delete", "range"} /\ \A e \in Flushers \ {f} : fpc'[e] = fpc[e]
      /\ UNCHANGED <<sent, kept, early, client, at, toVisit>>
  BY <1>0 DEF Reset, FlusherGoto, historyVars, AfterFlush, TypeOK
<1>2. PICK k \in Keys, g \in Generations : At(f, k, g)
  BY <1>0, <1>1 DEF Places, Working, At
<1>3. \A j \in Keys : \A h \in Generations :
         rows'[j][h] = IF j = k /\ h = g THEN <<>> ELSE rows[j][h]
  BY <1>0, <1>2 DEF Reset, TypeOK, At
<1>4. client # "closed" => \A n \in Frames : Contains(rows[k][g], n) => Contains(sent[k], n)
  BY <1>0, <1>1, <1>2 DEF ResetIsSent, At
<1>5. \A j \in Keys : kept[j] \subseteq Frames /\ early[j] \subseteq Frames
  BY <1>0 DEF TypeOK
<1>6. \A n : ~Contains(<<>>, n)
  BY DEF Contains
<1>7. NoRowLost'
  BY <1>0, <1>1, <1>3, <1>4, <1>5 DEF NoRowLost
<1>8. ResetIsSent'
  <2> SUFFICES ASSUME client # "closed", NEW e \in Flushers, fpc'[e] = "reset", NEW n \in Frames,
                      Contains(rows'[at[e].key][at[e].buf], n)
               PROVE  Contains(sent[at[e].key], n)
    BY <1>1 DEF ResetIsSent
  <2>1. fpc[e] = "reset" /\ at[e].key \in Keys /\ at[e].buf \in Generations
    BY <1>0, <1>1 DEF Places, Working
  <2>2. Contains(rows[at[e].key][at[e].buf], n)
    BY <1>3, <1>6, <2>1
  <2> QED
    BY <1>0, <2>1, <2>2 DEF ResetIsSent
<1>9. StopReaches'
  <2> SUFFICES ASSUME client = "stopping", NEW j \in Keys, NEW n \in early[j], ~Contains(sent[j], n)
               PROVE  /\ Contains(rows'[j][1], n)
                      /\ \/ j \in toVisit["stop"]
                         \/ fpc'["stop"] \in {"flush", "lock", "send"} /\ at["stop"].key = j
    BY <1>1 DEF StopReaches
  <2>1. /\ Contains(rows[j][1], n)
        /\ \/ j \in toVisit["stop"]
           \/ fpc["stop"] \in {"flush", "lock", "send"} /\ at["stop"].key = j
    BY <1>0 DEF StopReaches
  <2>2. ~(j = k /\ g = 1)
    BY <1>4, <1>5, <2>1
  <2> QED
    BY <1>1, <1>3, <2>1, <2>2 DEF Flushers, Generations
<1>10. SentBeforeClose'
  BY <1>0, <1>1 DEF SentBeforeClose
<1> QED
  BY <1>7, <1>8, <1>9, <1>10

\* Stop's flusher finds the rows that it has to send on its way through the map.
LEMMA LossMoves ==
  ASSUME IInv, NEW f \in Flushers,
         (\E k \in Keys : Visit(f, k)) \/ LoadCount(f) \/ InsertLock(f)
  PROVE  NoRowLost' /\ ResetIsSent' /\ StopReaches' /\ SentBeforeClose'
<1>0. TypeOK /\ Places /\ OneDelete /\ NoRowLost /\ ResetIsSent /\ StopReaches /\ SentBeforeClose
  BY DEF IInv
<1>1. /\ UNCHANGED <<rows, sent, kept, early, client>> /\ fpc'[f] # "reset" /\ fpc[f] # "reset"
      /\ \A e \in Flushers \ {f} : fpc'[e] = fpc[e] /\ at'[e] = at[e] /\ toVisit'[e] = toVisit[e]
  BY <1>0 DEF Visit, LoadCount, InsertLock, FlusherGoto, bufferVars, historyVars, AfterFlush, TypeOK
<1>2. NoRowLost' /\ SentBeforeClose'
  BY <1>0, <1>1 DEF NoRowLost, SentBeforeClose
<1>3. ResetIsSent'
  BY <1>0, <1>1 DEF ResetIsSent
<1>4. StopReaches'
  <2> SUFFICES ASSUME client = "stopping", NEW j \in Keys, NEW n \in early[j], ~Contains(sent[j], n)
               PROVE  \/ j \in toVisit'["stop"]
                      \/ fpc'["stop"] \in {"flush", "lock", "send"} /\ at'["stop"].key = j
    BY <1>0, <1>1 DEF StopReaches
  <2>1. /\ Contains(rows[j][1], n)
        /\ \/ j \in toVisit["stop"]
           \/ fpc["stop"] \in {"flush", "lock", "send"} /\ at["stop"].key = j
    BY <1>0 DEF StopReaches
  <2>2. CASE f = "ticker"
    BY <1>1, <2>1, <2>2 DEF Flushers
  <2>3. ASSUME NEW k \in Keys, Visit(f, k), f = "stop"
        PROVE  \/ j \in toVisit'["stop"]
               \/ fpc'["stop"] \in {"flush", "lock", "send"} /\ at'["stop"].key = j
    <3>1. /\ k \in toVisit["stop"] /\ toVisit'["stop"] = toVisit["stop"] \ {k}
          /\ fpc["stop"] = "range" /\ at'["stop"].key = k
      BY <1>0, <2>3 DEF Visit, FlusherGoto, TypeOK
    <3>2. entry[k] # None
      BY <1>0, <3>1, KafkaAssumption DEF OneDelete, Generations
    <3>3. fpc'["stop"] = "flush"
      BY <1>0, <2>3, <3>2 DEF Visit, FlusherGoto, TypeOK
    <3> QED
      BY <2>1, <3>1, <3>3
  <2>4. CASE f = "stop" /\ LoadCount(f)
    <3>1. fpc["stop"] = "flush" /\ UNCHANGED <<at, toVisit>>
      BY <2>4 DEF LoadCount, FlusherGoto
    <3>2. CASE j \in toVisit["stop"]
      BY <3>1, <3>2
    <3>3. CASE at["stop"].key = j
      <4>1. at["stop"].buf = 1
        BY <1>0, <3>1, <3>3 DEF OneDelete, Working
      <4>2. Len(rows[j][1]) > 0
        <5>1. Len(rows[j][1]) \in Nat
          BY <1>0 DEF TypeOK, Generations
        <5> QED
          BY <2>1, <5>1 DEF Contains
      <4>3. fpc'["stop"] = "lock"
        BY <1>0, <2>4, <3>3, <4>1, <4>2 DEF LoadCount, FlusherGoto, WorthFlushing, TypeOK
      <4> QED
        BY <3>1, <3>3, <4>3
    <3> QED
      BY <2>1, <3>2, <3>3
  <2>5. CASE f = "stop" /\ InsertLock(f)
    <3>1. fpc["stop"] = "lock" /\ fpc'["stop"] = "send" /\ UNCHANGED <<at, toVisit>>
      BY <1>0, <2>5 DEF InsertLock, FlusherGoto, TypeOK
    <3> QED
      BY <2>1, <3>1
  <2> QED
    BY <2>2, <2>3, <2>4, <2>5 DEF Flushers
<1> QED
  BY <1>2, <1>3, <1>4

\* When Stop is called, what has been stored is in the first buffers, and
\* Range starts with all of them.
LEMMA LossStopCalled ==
  ASSUME IInv, StopCalled
  PROVE  NoRowLost' /\ ResetIsSent' /\ StopReaches' /\ SentBeforeClose'
<1>0. TypeOK /\ OneDelete /\ RowOrder /\ NoRowLost /\ ResetIsSent
  BY DEF IInv
<1>1. /\ client = "open" /\ client' = "stopping" /\ UNCHANGED <<rows, sent, kept, at>> /\ early' = kept
      /\ fpc["stop"] = "idle" /\ fpc' = [fpc EXCEPT !["stop"] = "range"]
      /\ toVisit'["stop"] = {k \in Keys : entry[k] # None}
  BY <1>0 DEF StopCalled, StartRange, FlusherGoto, bufferVars, TypeOK, Flushers
<1>2. NoRowLost' /\ SentBeforeClose'
  BY <1>0, <1>1 DEF NoRowLost, SentBeforeClose
<1>3. ResetIsSent'
  BY <1>0, <1>1 DEF ResetIsSent, TypeOK
<1>4. ASSUME NEW k \in Keys, NEW n \in kept[k], ~Contains(sent[k], n)
      PROVE  Contains(rows[k][1], n) /\ k \in toVisit'["stop"]
  <2>1. \A g \in Generations : g > made[k] => ~Contains(rows[k][g], n)
    BY <1>0 DEF RowOrder, RowOrderOf, Contains
  <2>2. made[k] # 2
    BY <1>0, <1>1, KafkaAssumption DEF OneDelete, Generations
  <2>3. made[k] \in 0 .. 2
    BY <1>0 DEF TypeOK
  <2>4. PICK g \in Generations : Contains(rows[k][g], n)
    BY <1>0, <1>1, <1>4 DEF NoRowLost
  <2>5. g = 1 /\ made[k] = 1
    BY <2>1, <2>2, <2>3, <2>4 DEF Generations
  <2>6. entry[k] # None
    BY <1>0, <1>1, <2>5, KafkaAssumption DEF OneDelete, Generations
  <2> QED
    BY <1>1, <2>4, <2>5, <2>6
<1>5. StopReaches'
  BY <1>1, <1>4 DEF StopReaches
<1> QED
  BY <1>2, <1>3, <1>5

\* Stop closes the client when its Range has met every key.
LEMMA LossEndRange ==
  ASSUME IInv, NEW f \in Flushers, EndRange(f)
  PROVE  NoRowLost' /\ ResetIsSent' /\ StopReaches' /\ SentBeforeClose'
<1>0. TypeOK /\ OneDelete /\ NoRowLost /\ ResetIsSent /\ StopReaches /\ SentBeforeClose
  BY DEF IInv
<1>1. /\ UNCHANGED <<rows, sent, kept, early, at, toVisit>>
      /\ fpc[f] = "range" /\ fpc'[f] \in {"idle", "closed"} /\ \A e \in Flushers \ {f} : fpc'[e] = fpc[e]
      /\ toVisit[f] = {} /\ client' = (IF f = "stop" THEN "closed" ELSE client)
  BY <1>0 DEF EndRange, FlusherGoto, bufferVars, historyVars, TypeOK
<1>2. CASE f = "ticker"
  BY <1>0, <1>1, <1>2 DEF NoRowLost, ResetIsSent, StopReaches, SentBeforeClose, Flushers
<1>3. CASE f = "stop"
  <2>1. client = "stopping"
    BY <1>0, <1>1, <1>3 DEF OneDelete, TypeOK
  <2>2. \A k \in Keys : \A n \in early[k] : Contains(sent[k], n)
    BY <1>0, <1>1, <1>3, <2>1 DEF StopReaches
  <2> QED
    BY <1>1, <1>3, <2>2 DEF NoRowLost, ResetIsSent, StopReaches, SentBeforeClose
<1> QED
  BY <1>2, <1>3 DEF Flushers

\* Ticks, the end of the context and Delete lose nothing.
LEMMA LossOther ==
  ASSUME IInv, Tick \/ CtxDone \/ Delete
  PROVE  NoRowLost' /\ ResetIsSent' /\ StopReaches' /\ SentBeforeClose'
<1>0. TypeOK /\ NoRowLost /\ ResetIsSent /\ StopReaches /\ SentBeforeClose
  BY DEF IInv
<1>1. /\ UNCHANGED <<rows, sent, kept, early, client, at>> /\ toVisit'["stop"] = toVisit["stop"]
      /\ \A f \in Flushers : fpc'[f] = "reset" => fpc[f] = "reset"
      /\ fpc["stop"] \in {"flush", "lock", "send"} => fpc'["stop"] = fpc["stop"]
  BY <1>0 DEF Tick, CtxDone, Delete, StartRange, FlusherGoto, bufferVars, historyVars, TypeOK, Flushers
<1> QED
  BY <1>0, <1>1 DEF NoRowLost, ResetIsSent, StopReaches, SentBeforeClose

\* Every step keeps the four parts.
LEMMA LossStep ==
  ASSUME IInv, [Next]_vars
  PROVE  NoRowLost' /\ ResetIsSent' /\ StopReaches' /\ SentBeforeClose'
<1>1. ASSUME NEW k \in Keys, LookUp(k)
      PROVE  NoRowLost' /\ ResetIsSent' /\ StopReaches' /\ SentBeforeClose'
  BY <1>1, LossKept DEF LookUp, bufferVars, flusherVars, historyVars
<1>2. CASE UNCHANGED vars
  BY <1>2, LossKept DEF vars, bufferVars, flusherVars, historyVars
<1> QED
  BY <1>1, <1>2, LossAppendRow, LossMoves, LossSend, LossReset, LossEndRange, LossStopCalled, LossOther
     DEF Next, Writer, Flusher

------------------------------------------------------------------------------
(* The theorems.                                                             *)

\* The invariant holds in every reachable state.
LEMMA Invariance == Spec => []IInv
<1>1. IInv /\ [Next]_vars => IInv'
  BY TypeStep, PlacesStep, OrderStep, LossStep DEF IInv
<1> QED
  BY InitIInv, <1>1, PTL DEF Spec

\* Every variable keeps its type: a key never has a third buffer, and a buffer
\* never holds more than MaxRows rows.
THEOREM TypeCorrect == Spec => []TypeOK
BY Invariance, PTL DEF IInv

\* The rows of a sensor reach Kafka in the order of its frames and at most once.
THEOREM RowsInOrder == Spec => []SentInOrder
<1>1. IInv => SentInOrder
  BY DEF IInv, RowOrder, RowOrderOf, Ascending, SentInOrder
<1> QED
  BY Invariance, <1>1, PTL

\* A row that append has stored is in a buffer or sent while the client is open.
THEOREM RowsAreKept == Spec => []NoRowLost
BY Invariance, PTL DEF IInv

\* What was stored when Stop was called is sent when the client is closed.
THEOREM StopSends == Spec => []SentBeforeClose
BY Invariance, PTL DEF IInv
==============================================================================
