------------------------------ MODULE ConnPool ------------------------------
(***************************************************************************)
(* pkg/arc_grpc/pool.go and conn.go: the pool of gRPC connections.  Get    *)
(* counts a reference and picks one of the first `current` connections; it *)
(* doubles the pool under the write lock when there are too many           *)
(* references, and conn.Close shrinks it, under the same lock, when the    *)
(* last reference goes.  A connection is handed out and used without a     *)
(* lock.  pool.Close, which callers may not run beside Get, is left out.   *)
(***************************************************************************)
EXTENDS Integers, FiniteSets

CONSTANTS
  Clients,
  MaxIdle, MaxActive, MaxConcurrentStreams,  \* options
  MaxGets,                                   \* bound of the model: Gets per client
  None

ASSUME PoolAssumption ==
  /\ {MaxIdle, MaxActive, MaxConcurrentStreams, MaxGets} \subseteq Nat \ {0}
  /\ MaxIdle <= MaxActive
  /\ None \notin Clients /\ IsFiniteSet(Clients)

VARIABLES
  reuse,     \* option Reuse
  ref,       \* references counted
  current,   \* size of the pool
  conns,     \* conns[i]: what slot i has
  mutex,     \* who holds the write lock, or None
  pc,        \* pc[c]: where client c stands in Get or Close
  nextRef,   \* nextRef[c]: Get's variable of that name
  cur,       \* cur[c]: Get's variable current
  limit,     \* limit[c]: the size to which Get is growing the pool
  slot,      \* slot[c]: the slot that Get has picked
  hold,      \* hold[c]: what Get has returned to c
  gets,      \* gets[c]: Gets of c so far
  leaked     \* references of Gets that returned an error

poolVars == <<ref, current, conns, mutex>>
localVars == <<nextRef, cur, limit, slot>>
vars == <<reuse, poolVars, localVars, pc, hold, gets, leaked>>

Slots == 0 .. (MaxActive - 1)

\* "none": no connection; "pooled" and "once": an open one; "nil": a nil *conn;
\* "reset": a conn whose Value() is nil.
Holds == {"none", "pooled", "once", "nil", "reset"}

\* A slot has no connection, an open one, or one that was closed with an error.
SlotStates == {"nil", "open", "closed"}

PCs == {"out", "read", "decide", "lock", "grow", "take", "dial", "held",
        "decr", "check", "shrinkLock", "loadRef", "delete"}

\* New, when every dial succeeds.
Init ==
  /\ reuse \in BOOLEAN
  /\ ref = 0 /\ current = MaxIdle /\ mutex = None
  /\ conns = [i \in Slots |-> IF i < MaxIdle THEN "open" ELSE "nil"]
  /\ pc = [c \in Clients |-> "out"]
  /\ nextRef = [c \in Clients |-> 0]
  /\ cur = [c \in Clients |-> 0]
  /\ limit = [c \in Clients |-> 0]
  /\ slot = [c \in Clients |-> 0]
  /\ hold = [c \in Clients |-> "none"]
  /\ gets = [c \in Clients |-> 0]
  /\ leaked = 0

Goto(c, from, to) == pc[c] = from /\ pc' = [pc EXCEPT ![c] = to]

\* Get is over: only the slot of the connection it returns matters.
Forget(c) ==
  /\ nextRef' = [nextRef EXCEPT ![c] = 0]
  /\ cur' = [cur EXCEPT ![c] = 0]
  /\ limit' = [limit EXCEPT ![c] = 0]

\* Get returns an error, and its caller has no connection to close.
Fail(c, from) ==
  /\ Goto(c, from, "out")
  /\ leaked' = leaked + 1
  /\ Forget(c)

\* conn.reset() for every slot of slots: a connection there loses its Value, also
\* for the clients that use it, whether or not Close of the connection fails.
Reset(slots) ==
  hold' = [d \in Clients |->
             IF hold[d] = "pooled" /\ slot[d] \in slots THEN "reset" ELSE hold[d]]

------------------------------------------------------------------------------
(* Get.                                                                      *)

IncrRef(c) ==
  /\ Goto(c, "out", "read")
  /\ gets[c] < MaxGets
  /\ gets' = [gets EXCEPT ![c] = @ + 1]
  /\ ref' = ref + 1
  /\ nextRef' = [nextRef EXCEPT ![c] = ref + 1]
  /\ hold' = [hold EXCEPT ![c] = "none"]
  /\ UNCHANGED <<reuse, current, conns, mutex, cur, limit, slot, leaked>>

\* The read lock waits for the holder of the write lock.
ReadCurrent(c) ==
  /\ Goto(c, "read", "decide")
  /\ mutex = None
  /\ cur' = [cur EXCEPT ![c] = current]
  /\ UNCHANGED <<reuse, poolVars, nextRef, limit, slot, hold, gets, leaked>>

\* index + 1 modulo the size: any slot below the size.
Pick(c, size) == \E i \in 0 .. (size - 1) : slot' = [slot EXCEPT ![c] = i]

FitsStreams(c, size) == nextRef[c] <= size * MaxConcurrentStreams

PickCreated(c) ==
  /\ Goto(c, "decide", "take")
  /\ FitsStreams(c, cur[c]) \/ (cur[c] = MaxActive /\ reuse)
  /\ Pick(c, cur[c])
  /\ UNCHANGED <<reuse, poolVars, nextRef, cur, limit, hold, gets, leaked>>

\* Mutant: a one-time connection gives its reference back at once, and its Close
\* does so again.
Mutant_ChooseOnce(c) ==
  /\ Goto(c, "decide", "dial")
  /\ ~FitsStreams(c, cur[c]) /\ cur[c] = MaxActive /\ ~reuse
  /\ ref' = ref - 1
  /\ UNCHANGED <<reuse, current, conns, mutex, localVars, hold, gets, leaked>>

ChooseOnce(c) ==
  /\ Goto(c, "decide", "dial")
  /\ ~FitsStreams(c, cur[c]) /\ cur[c] = MaxActive /\ ~reuse
  /\ UNCHANGED <<reuse, poolVars, localVars, hold, gets, leaked>>

\* p.wrapConn(c, true), err: a failed dial still makes a conn, which the
\* caller gets beside the error.
DialOnce(c) ==
  /\ \/ /\ Goto(c, "dial", "held") /\ Forget(c)
        /\ hold' = [hold EXCEPT ![c] = "once"] /\ UNCHANGED leaked
     \/ Fail(c, "dial") /\ hold' = [hold EXCEPT ![c] = "reset"]
  /\ UNCHANGED <<reuse, poolVars, slot, gets>>

ChooseGrow(c) ==
  /\ Goto(c, "decide", "lock")
  /\ ~FitsStreams(c, cur[c]) /\ cur[c] # MaxActive
  /\ UNCHANGED <<reuse, poolVars, localVars, hold, gets, leaked>>

\* Mutant: the pool doubles, whatever MaxActive is.
Mutant_Lock(c) ==
  /\ mutex = None
  /\ cur' = [cur EXCEPT ![c] = current]
  /\ IF current < MaxActive /\ ~FitsStreams(c, current)
     THEN /\ Goto(c, "lock", "grow")
          /\ mutex' = c
          /\ limit' = [limit EXCEPT ![c] = 2 * current]
          /\ UNCHANGED slot
     ELSE /\ Goto(c, "lock", "take")
          /\ Pick(c, current)
          /\ UNCHANGED <<mutex, limit>>
  /\ UNCHANGED <<reuse, ref, current, conns, nextRef, hold, gets, leaked>>

\* Another client may have grown the pool before this one has the lock.
Lock(c) ==
  /\ mutex = None
  /\ cur' = [cur EXCEPT ![c] = current]
  /\ IF current < MaxActive /\ ~FitsStreams(c, current)
     THEN /\ Goto(c, "lock", "grow")
          /\ mutex' = c
          /\ limit' = [limit EXCEPT ![c] = IF 2 * current > MaxActive THEN MaxActive ELSE 2 * current]
          /\ UNCHANGED slot
     ELSE /\ Goto(c, "lock", "take")
          /\ Pick(c, current)
          /\ UNCHANGED <<mutex, limit>>
  /\ UNCHANGED <<reuse, ref, current, conns, nextRef, hold, gets, leaked>>

\* One turn of the loop: a connection dialled replaces what the next slot has.
GrowDial(c) ==
  /\ Goto(c, "grow", "grow")
  /\ cur[c] < limit[c]
  /\ Reset({cur[c]})
  /\ conns' = [conns EXCEPT ![cur[c]] = "open"]
  /\ cur' = [cur EXCEPT ![c] = @ + 1]
  /\ UNCHANGED <<reuse, ref, current, mutex, nextRef, limit, slot, gets, leaked>>

\* Mutant: the early return forgets Unlock.
Mutant_KeepLock(c) ==
  /\ Fail(c, "grow")
  /\ cur[c] < limit[c]
  /\ current' = cur[c]
  /\ UNCHANGED <<reuse, ref, conns, mutex, slot, hold, gets>>

\* Mutant: the early return leaves current as it was.
Mutant_KeepCurrent(c) ==
  /\ Fail(c, "grow")
  /\ cur[c] < limit[c]
  /\ mutex' = None
  /\ UNCHANGED <<reuse, ref, current, conns, slot, hold, gets>>

\* The pool keeps what has been dialled.
GrowError(c) ==
  /\ Fail(c, "grow")
  /\ cur[c] < limit[c]
  /\ current' = cur[c] /\ mutex' = None
  /\ UNCHANGED <<reuse, ref, conns, slot, hold, gets>>

GrowDone(c) ==
  /\ Goto(c, "grow", "take")
  /\ cur[c] = limit[c]
  /\ current' = cur[c] /\ mutex' = None
  /\ Pick(c, cur[c])
  /\ UNCHANGED <<reuse, ref, conns, nextRef, cur, limit, hold, gets, leaked>>

\* return p.conns[next], nil
Take(c) ==
  /\ Goto(c, "take", "held")
  /\ hold' = [hold EXCEPT ![c] = CASE conns[slot[c]] = "open" -> "pooled"
                                  [] conns[slot[c]] = "closed" -> "reset"
                                  [] OTHER -> "nil"]
  /\ Forget(c)
  /\ UNCHANGED <<reuse, poolVars, slot, gets, leaked>>

Get(c) ==
  \/ IncrRef(c) \/ ReadCurrent(c) \/ PickCreated(c) \/ ChooseOnce(c) \/ DialOnce(c)
  \/ ChooseGrow(c) \/ Lock(c) \/ GrowDial(c) \/ GrowError(c) \/ GrowDone(c) \/ Take(c)

------------------------------------------------------------------------------
(* conn.Close: decrRef, and reset of a one-time connection.                  *)

\* The caller is done with its connection.
StartClose(c) ==
  /\ Goto(c, "held", "decr")
  /\ hold' = [hold EXCEPT ![c] = "none"]
  /\ slot' = [slot EXCEPT ![c] = 0]
  /\ UNCHANGED <<reuse, poolVars, nextRef, cur, limit, gets, leaked>>

\* Mutant: the decision to shrink looks at ref before it is decremented.
Mutant_DecrRef(c) ==
  /\ Goto(c, "decr", IF ref = 0 THEN "check" ELSE "out")
  /\ ref' = ref - 1
  /\ UNCHANGED <<reuse, current, conns, mutex, localVars, hold, gets, leaked>>

DecrRef(c) ==
  /\ Goto(c, "decr", IF ref = 1 THEN "check" ELSE "out")
  /\ ref' = ref - 1
  /\ UNCHANGED <<reuse, current, conns, mutex, localVars, hold, gets, leaked>>

CheckCurrent(c) ==
  /\ Goto(c, "check", IF current > MaxIdle THEN "shrinkLock" ELSE "out")
  /\ UNCHANGED <<reuse, poolVars, localVars, hold, gets, leaked>>

ShrinkLock(c) ==
  /\ Goto(c, "shrinkLock", "loadRef")
  /\ mutex = None /\ mutex' = c
  /\ UNCHANGED <<reuse, ref, current, conns, localVars, hold, gets, leaked>>

\* Mutant: ref is not read again under the lock.
Mutant_LoadRef(c) ==
  /\ Goto(c, "loadRef", "delete")
  /\ UNCHANGED <<reuse, poolVars, localVars, hold, gets, leaked>>

LoadRef(c) ==
  /\ Goto(c, "loadRef", IF ref = 0 THEN "delete" ELSE "out")
  /\ mutex' = IF ref = 0 THEN mutex ELSE None
  /\ UNCHANGED <<reuse, ref, current, conns, localVars, hold, gets, leaked>>

\* StoreInt32, deleteFrom(MaxIdle), Unlock.  A connection whose Close fails stays
\* in its slot, until the pool grows or shrinks again.
Delete(c) ==
  /\ Goto(c, "delete", "out")
  /\ current' = MaxIdle /\ mutex' = None
  /\ \E failed \in SUBSET {i \in Slots : i >= MaxIdle /\ conns[i] = "open"} :
       conns' = [i \in Slots |-> CASE i < MaxIdle -> conns[i]
                                   [] i \in failed -> "closed"
                                   [] OTHER -> "nil"]
  /\ Reset(MaxIdle .. (MaxActive - 1))
  /\ UNCHANGED <<reuse, ref, localVars, gets, leaked>>

Close(c) ==
  \/ StartClose(c) \/ DecrRef(c) \/ CheckCurrent(c) \/ ShrinkLock(c) \/ LoadRef(c) \/ Delete(c)

Next == \E c \in Clients : Get(c) \/ Close(c)

Spec == Init /\ [][Next]_vars

------------------------------------------------------------------------------
(* Properties.                                                               *)

TypeOK ==
  /\ reuse \in BOOLEAN
  /\ ref \in Nat /\ leaked \in Nat
  /\ current \in 1 .. MaxActive
  /\ conns \in [Slots -> SlotStates]
  /\ mutex \in Clients \cup {None}
  /\ pc \in [Clients -> PCs]
  /\ nextRef \in [Clients -> Nat]
  /\ cur \in [Clients -> 0 .. MaxActive]
  /\ limit \in [Clients -> 0 .. MaxActive]
  /\ slot \in [Clients -> Slots]
  /\ hold \in [Clients -> Holds]
  /\ gets \in [Clients -> 0 .. MaxGets]

\* A connection that Get returns without an error is open, and stays so until
\* its client closes it: no shrink takes it away, although it was picked by a
\* size read before and is used without a lock.
HeldIsOpen == \A c \in Clients : pc[c] = "held" => hold[c] \in {"pooled", "once"}

\* The clients whose reference is counted.
Counted(c) == pc[c] \notin {"out", "check", "shrinkLock", "loadRef", "delete"}

\* ref is the number of the clients between incrRef and decrRef and of the
\* Gets that failed; so it is never negative, where decrRef would panic.
RefBalance == ref = Cardinality({c \in Clients : Counted(c)}) + leaked

\* While nobody has the write lock, the slots below current have open connections
\* and no others have: none is lost by growing, also half-way, and a shrink leaves
\* nothing open behind, although its Close of a connection may fail.
SlotsMatch == mutex = None => \A i \in Slots : conns[i] = "open" <=> i < current

\* Once all clients have closed their connections and no reference leaked, the
\* pool is back to its idle size, whoever of them was last.
IdleIsShrunk == ref = 0 /\ (\A c \in Clients : pc[c] = "out") => current = MaxIdle

\* The write lock is held only by a client that is still between Lock and
\* Unlock: the return on a dial error in the middle of growing leaves no lock
\* behind on which every later Get would wait for ever.
LockIsReleased == mutex # None => pc[mutex] \in {"grow", "loadRef", "delete"}
==============================================================================
