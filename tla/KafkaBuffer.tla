----------------------------- MODULE KafkaBuffer -----------------------------
(***************************************************************************)
(* pkg/kafka/arc.go, kafka.go and server.go: the rows of a sensor wait in  *)
(* an ArcBuffer until a flusher sends them to Kafka.  The decoder of a     *)
(* sensor appends; two flushers, the ticker of Server.Start and            *)
(* Server.Stop, send.  They meet in the map numericalBuffer, in the mutex  *)
(* of a buffer, and in its count, which flush reads without the mutex.     *)
(* Frames of a sensor are numbered 1, 2, ...                               *)
(***************************************************************************)
EXTENDS Naturals, Sequences, SequencesExt, FiniteSets

CONSTANTS
  Keys,        \* firmware + id << 2: one per sensor
  MaxRows,     \* the rows of a buffer, 8192 in the code
  MaxFrames,   \* bound of the model: frames per sensor
  TsOf,        \* TsOf[n]: the millisecond of frame n
  None

\* A key has a second buffer when a frame comes after Stop has deleted the first.
Generations == {1, 2}
Flushers == {"ticker", "stop"}

ASSUME KafkaAssumption ==
  /\ {MaxRows, MaxFrames} \subseteq Nat \ {0}
  /\ TsOf \in [1 .. MaxFrames -> Nat \ {0}]
  /\ None \notin Keys /\ None \notin Generations /\ None \notin Flushers

Frames == 1 .. MaxFrames

VARIABLES
  written,   \* written[k]: frames whose Write has begun
  holding,   \* holding[k]: the buffer that the decoder of k has looked up, or None
  entry,     \* entry[k]: the buffer of k in numericalBuffer, or None
  made,      \* made[k]: the buffers made for k so far
  rows,      \* rows[k][g]: rows[0 .. count - 1] of a buffer
  lastTs,    \* lastTs[k][g]: lasttime of a buffer
  mutex,     \* mutex[k][g]: the flusher that has the mutex, or None
  fpc,       \* fpc[f]: where a flusher stands
  at,        \* at[f]: key and buffer that the flusher works on
  toVisit,   \* toVisit[f]: the keys that its Range has still to visit
  client,    \* "open", "stopping" or "closed"
  sent,      \* sent[k]: frames sent to Kafka, in order
  kept,      \* kept[k]: frames that append has stored, for the properties
  early      \* early[k]: those it had stored when Stop was called

writerVars == <<written, holding, made>>
bufferVars == <<rows, lastTs, mutex>>
flusherVars == <<fpc, at, toVisit>>
historyVars == <<kept, early>>
vars == <<writerVars, entry, bufferVars, flusherVars, client, sent, historyVars>>

Init ==
  /\ written = [k \in Keys |-> 0] /\ holding = [k \in Keys |-> None]
  /\ entry = [k \in Keys |-> None] /\ made = [k \in Keys |-> 0]
  /\ rows = [k \in Keys |-> [g \in Generations |-> <<>>]]
  /\ lastTs = [k \in Keys |-> [g \in Generations |-> 0]]
  /\ mutex = [k \in Keys |-> [g \in Generations |-> None]]
  /\ fpc = [f \in Flushers |-> "idle"] /\ at = [f \in Flushers |-> None]
  /\ toVisit = [f \in Flushers |-> {}]
  /\ client = "open"
  /\ sent = [k \in Keys |-> <<>>]
  /\ kept = [k \in Keys |-> {}] /\ early = [k \in Keys |-> {}]

------------------------------------------------------------------------------
(* Server.Write -> sendToKafka, in the decoder of the sensor.                *)

\* Load, or LoadOrStore of a new buffer.
LookUp(k) ==
  /\ holding[k] = None /\ written[k] < MaxFrames
  /\ written' = [written EXCEPT ![k] = @ + 1]
  /\ IF entry[k] # None
     THEN holding' = [holding EXCEPT ![k] = entry[k]] /\ UNCHANGED <<made, entry>>
     ELSE /\ made' = [made EXCEPT ![k] = @ + 1]
          /\ entry' = [entry EXCEPT ![k] = made'[k]]
          /\ holding' = [holding EXCEPT ![k] = made'[k]]
  /\ UNCHANGED <<bufferVars, flusherVars, client, sent, historyVars>>

\* Mutant: count may exceed the rows of the buffer.
Mutant_HasRoom(k, g) == TRUE

HasRoom(k, g) == Len(rows[k][g]) < MaxRows

\* append under the mutex: a row of the same millisecond as the last one kept
\* is skipped, and so is a row that finds the buffer full.
AppendRow(k) ==
  LET g == holding[k]
      n == written[k] IN
  /\ g # None /\ mutex[k][g] = None
  /\ holding' = [holding EXCEPT ![k] = None]
  /\ IF TsOf[n] # lastTs[k][g] /\ HasRoom(k, g)
     THEN /\ rows' = [rows EXCEPT ![k][g] = Append(@, n)]
          /\ lastTs' = [lastTs EXCEPT ![k][g] = TsOf[n]]
          /\ kept' = [kept EXCEPT ![k] = @ \cup {n}]
     ELSE UNCHANGED <<rows, lastTs, kept>>
  /\ UNCHANGED <<written, made, entry, mutex, flusherVars, client, sent, early>>

Writer(k) == LookUp(k) \/ AppendRow(k)

------------------------------------------------------------------------------
(* Range over numericalBuffer and flush, in both flushers.                   *)

FlusherGoto(f, from, to) == fpc[f] = from /\ fpc' = [fpc EXCEPT ![f] = to]

\* Range sees the entries of the moment at which it starts.
StartRange(f) ==
  /\ FlusherGoto(f, "idle", "range")
  /\ toVisit' = [toVisit EXCEPT ![f] = {k \in Keys : entry[k] # None}]
  /\ UNCHANGED at

\* case <-ticker.C
Tick ==
  /\ StartRange("ticker")
  /\ UNCHANGED <<writerVars, entry, bufferVars, client, sent, historyVars>>

\* case <-ctx.Done()
CtxDone ==
  /\ FlusherGoto("ticker", "idle", "closed")
  /\ UNCHANGED <<writerVars, entry, bufferVars, at, toVisit, client, sent, historyVars>>

StopCalled ==
  /\ client = "open" /\ client' = "stopping"
  /\ StartRange("stop")
  /\ early' = kept
  /\ UNCHANGED <<writerVars, entry, bufferVars, sent, kept>>

Visit(f, k) ==
  /\ k \in toVisit[f]
  /\ FlusherGoto(f, "range", IF entry[k] = None THEN "range" ELSE "flush")
  /\ toVisit' = [toVisit EXCEPT ![f] = @ \ {k}]
  /\ at' = [at EXCEPT ![f] = [key |-> k, buf |-> entry[k]]]
  /\ UNCHANGED <<writerVars, entry, bufferVars, client, sent, historyVars>>

\* What follows flush: Stop deletes the key.
AfterFlush(f) == IF f = "stop" THEN "delete" ELSE "range"

\* Mutant: a single row is not worth a message.
Mutant_WorthFlushing(k, g) == Len(rows[k][g]) > 1

\* if atomic.LoadInt32(&n.count) > 0; count > max never holds.
WorthFlushing(k, g) == Len(rows[k][g]) > 0

LoadCount(f) ==
  /\ FlusherGoto(f, "flush", IF WorthFlushing(at[f].key, at[f].buf) THEN "lock" ELSE AfterFlush(f))
  /\ UNCHANGED <<writerVars, entry, bufferVars, at, toVisit, client, sent, historyVars>>

SetMutex(f, holder) == mutex' = [mutex EXCEPT ![at[f].key][at[f].buf] = holder]

\* Mutant: a flusher that finds the mutex taken leaves the buffer to the other.
Mutant_InsertLock(f) ==
  LET taken == mutex[at[f].key][at[f].buf] # None IN
  /\ FlusherGoto(f, "lock", IF taken THEN AfterFlush(f) ELSE "send")
  /\ IF taken THEN UNCHANGED mutex ELSE SetMutex(f, f)
  /\ UNCHANGED <<writerVars, entry, rows, lastTs, at, toVisit, client, sent, historyVars>>

InsertLock(f) ==
  /\ FlusherGoto(f, "lock", "send")
  /\ mutex[at[f].key][at[f].buf] = None
  /\ SetMutex(f, f)
  /\ UNCHANGED <<writerVars, entry, rows, lastTs, at, toVisit, client, sent, historyVars>>

\* SendResultToKafka reads count again and sends that many rows, possibly
\* none.  A message produced after the client is closed goes nowhere.
Send(f) ==
  LET k == at[f].key IN
  /\ FlusherGoto(f, "send", "reset")
  /\ sent' = IF client = "closed" THEN sent
             ELSE [sent EXCEPT ![k] = @ \o rows[k][at[f].buf]]
  /\ UNCHANGED <<writerVars, entry, bufferVars, at, toVisit, client, historyVars>>

\* Mutants: insert does not reset count; or, the two defers in the other
\* order, it unlocks before, and the reset comes with the next step.
Mutant_KeepCount(f) ==
  /\ FlusherGoto(f, "reset", AfterFlush(f))
  /\ SetMutex(f, None)
  /\ UNCHANGED <<writerVars, entry, rows, lastTs, at, toVisit, client, sent, historyVars>>

Mutant_UnlockFirst(f) ==
  LET k == at[f].key
      g == at[f].buf IN
  /\ fpc[f] = "reset"
  /\ IF mutex[k][g] = f
     THEN SetMutex(f, None) /\ UNCHANGED <<rows, fpc>>
     ELSE /\ FlusherGoto(f, "reset", AfterFlush(f))
          /\ rows' = [rows EXCEPT ![k][g] = <<>>]
          /\ UNCHANGED mutex
  /\ UNCHANGED <<writerVars, entry, lastTs, at, toVisit, client, sent, historyVars>>

\* The deferred StoreInt32 and then the deferred Unlock, also after an error.
Reset(f) ==
  /\ FlusherGoto(f, "reset", AfterFlush(f))
  /\ rows' = [rows EXCEPT ![at[f].key][at[f].buf] = <<>>]
  /\ SetMutex(f, None)
  /\ UNCHANGED <<writerVars, entry, lastTs, at, toVisit, client, sent, historyVars>>

\* numericalBuffer.Delete(key) in Stop.
Delete ==
  /\ FlusherGoto("stop", "delete", "range")
  /\ entry' = [entry EXCEPT ![at["stop"].key] = None]
  /\ UNCHANGED <<writerVars, bufferVars, at, toVisit, client, sent, historyVars>>

EndRange(f) ==
  /\ toVisit[f] = {}
  /\ FlusherGoto(f, "range", IF f = "stop" THEN "closed" ELSE "idle")
  /\ client' = IF f = "stop" THEN "closed" ELSE client
  /\ UNCHANGED <<writerVars, entry, bufferVars, at, toVisit, sent, historyVars>>

Flusher(f) ==
  \/ \E k \in Keys : Visit(f, k)
  \/ LoadCount(f) \/ InsertLock(f) \/ Send(f) \/ Reset(f) \/ EndRange(f)

Next ==
  \/ \E k \in Keys : Writer(k)
  \/ \E f \in Flushers : Flusher(f)
  \/ Tick \/ CtxDone \/ StopCalled \/ Delete

Spec == Init /\ [][Next]_vars

\* The ticker ticks and every goroutine runs on.  The context may be cancelled
\* and Stop be called, or not.
Fairness ==
  /\ WF_vars(Tick) /\ WF_vars(Delete)
  /\ \A f \in Flushers : WF_vars(Flusher(f))
  /\ \A k \in Keys : WF_vars(AppendRow(k))

FairSpec == Spec /\ Fairness

------------------------------------------------------------------------------
(* Properties.                                                               *)

Buffers == [key : Keys, buf : Generations \cup {None}]

TypeOK ==
  /\ written \in [Keys -> 0 .. MaxFrames]
  /\ {holding, entry} \subseteq [Keys -> Generations \cup {None}]
  /\ made \in [Keys -> 0 .. 2]
  /\ rows \in [Keys -> [Generations -> Seq(Frames)]]
  /\ \A k \in Keys : \A g \in Generations : Len(rows[k][g]) <= MaxRows
  /\ lastTs \in [Keys -> [Generations -> Nat]]
  /\ mutex \in [Keys -> [Generations -> Flushers \cup {None}]]
  /\ fpc \in [Flushers -> {"idle", "range", "flush", "lock", "send", "reset", "delete", "closed"}]
  /\ at \in [Flushers -> Buffers \cup {None}]
  /\ toVisit \in [Flushers -> SUBSET Keys]
  /\ client \in {"open", "stopping", "closed"}
  /\ sent \in [Keys -> Seq(Frames)]
  /\ {kept, early} \subseteq [Keys -> SUBSET Frames]

\* The rows of a sensor reach Kafka in the order of its frames and each at most
\* once, although two flushers may work on one buffer.
SentInOrder ==
  \A k \in Keys : \A i, j \in DOMAIN sent[k] : i < j => sent[k][i] < sent[k][j]

\* While the client is not closed, a row that append has stored is in a buffer
\* or has been sent: no reset of count takes a row appended meanwhile.
NoRowLost ==
  client # "closed" =>
    \A k \in Keys : \A n \in kept[k] :
       Contains(sent[k], n) \/ \E g \in Generations : Contains(rows[k][g], n)

\* What was stored before Stop was called has been sent when Stop closes the
\* client, whatever the ticker is doing at that time.
SentBeforeClose ==
  client = "closed" => \A k \in Keys : \A n \in early[k] : Contains(sent[k], n)

\* A row is not left in its buffer: it is sent, or the service is told to end.
KeptIsSent ==
  \A k \in Keys : \A n \in Frames :
     n \in kept[k] ~> \/ Contains(sent[k], n)
                      \/ client # "open" \/ fpc["ticker"] = "closed"
==============================================================================
