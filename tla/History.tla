------------------------------- MODULE History -------------------------------
(***************************************************************************)
(* pkg/storage.go, getSensorLists, with the functions of pkg/util it calls:*)
(* a query for the files of one sensor walks the directories of the days   *)
(* of its range, takes from each the files whose names it can read, keyed  *)
(* by start, and replies with those that overlap the range.  Files may     *)
(* come into the directories while it walks.                               *)
(***************************************************************************)
EXTENDS Naturals, Sequences, SequencesExt, FiniteSets, Functions

CONSTANTS
  Files,      \* files that may be on disk: [dir, name, parts, start, end]
  DayLength,  \* units of time in a day
  MaxTime,    \* bound of the model: the times of queries
  None

ASSUME HistoryAssumption ==
  /\ DayLength \in Nat \ {0} /\ MaxTime \in Nat
  /\ IsFiniteSet(Files) /\ Files \subseteq [dir : Nat, name : Nat, parts : Nat, start : Nat, end : Nat]
  /\ \A f, g \in Files : f.dir = g.dir /\ f.name = g.name => f = g

\* name is the place of a file's name among the names of its directory, and
\* parts the number of parts between its underscores.
Times == 0 .. MaxTime

VARIABLES
  disk,           \* the files on disk
  pc,             \* "idle", "walk" or "done"
  from, to,       \* t1 and t2
  days,           \* days of the range not yet visited
  bigfilelists,   \* from start to file
  reply,          \* the status and the files of the reply
  before          \* disk when the query came, for the properties

queryVars == <<from, to>>
vars == <<disk, pc, queryVars, days, bigfilelists, reply, before>>

NoReply == [code |-> None, data |-> <<>>]

Init ==
  /\ disk \in SUBSET Files
  /\ pc = "idle"
  /\ from = 0 /\ to = 0
  /\ days = <<>>
  /\ bigfilelists = <<>>
  /\ reply = NoReply
  /\ before = {}

------------------------------------------------------------------------------
(* pkg/util.                                                                 *)

\* Format("20060102") of a time in UTC.
Day(t) == t \div DayLength

\* Mutants: one day too many; or the whole days between the two times.
Mutant_OneMoreDay(t1, t2) == [i \in 1 .. Day(t2) - Day(t1) + 2 |-> Day(t1) + i - 1]

Mutant_GetDaysDiffer(t1, t2) == [i \in 1 .. Day(t2 - t1) + 1 |-> Day(t1) + i - 1]

\* t1.Add(time.Hour * 24) until its day is that of t2.
GetDaysDiffer(t1, t2) ==
  LET daysFrom[t \in t1 .. t2 + DayLength] ==
        IF Day(t) < Day(t2) THEN <<Day(t)>> \o daysFrom[t + DayLength] ELSE <<Day(t)>>
  IN daysFrom[t1]

\* The shapes of names that GetTimeRangeFromFileName can read: with the start
\* and the end first, behind two other parts, and the same with a tenth part.
HasTimeRange(f) == f.parts \in {6, 9, 10}

\* GetBigFileLists takes the files of a directory in the order of their names,
\* up to the first name that it cannot read.
Listed(day) ==
  {f \in disk : /\ f.dir = day /\ HasTimeRange(f)
                /\ \A g \in disk : g.dir = day /\ g.name < f.name => HasTimeRange(g)}

\* arcfiles[startstr]: of two files with one start the later name stays.
Latest(fs, t) == CHOOSE f \in fs : f.start = t /\ \A g \in fs : g.start = t => g.name <= f.name

------------------------------------------------------------------------------
(* getSensorLists.                                                           *)

\* status codes: StatusBadRequest, StatusNotFound and StatusOK
BadRequest == 400
NotFound == 404
OK == 200

Request(t1, t2) ==
  /\ pc = "idle"
  /\ from' = t1 /\ to' = t2
  /\ before' = disk
  /\ IF t2 <= t1
     THEN /\ pc' = "done" /\ reply' = [code |-> BadRequest, data |-> <<>>]
          /\ UNCHANGED days
     ELSE /\ pc' = "walk" /\ days' = GetDaysDiffer(t1, t2)
          /\ UNCHANGED reply
  /\ UNCHANGED <<disk, bigfilelists>>

\* One turn of the loop over daysdiffer; an error of it is only logged.
ListDay ==
  /\ pc = "walk" /\ days # <<>>
  /\ LET fs == Listed(Head(days))
         starts == {f.start : f \in fs} IN
       bigfilelists' = [t \in DOMAIN bigfilelists \cup starts |->
                          IF t \in starts THEN Latest(fs, t) ELSE bigfilelists[t]]
  /\ days' = Tail(days)
  /\ UNCHANGED <<disk, pc, queryVars, reply, before>>

\* Mutant: only the begin of the range is compared.
Mutant_Overlaps(f) == from <= f.end

\* Neither end.Before(t1) nor t2.Before(begin).
Overlaps(f) == from <= f.end /\ f.start <= to

\* sort.Strings over the starts, one file for each.
Sorted(fs) ==
  CHOOSE list \in [1 .. Cardinality(fs) -> fs] :
    /\ Range(list) = fs
    /\ \A i, j \in DOMAIN list : i < j => list[i].start < list[j].start

Filter ==
  /\ pc = "walk" /\ days = <<>>
  /\ LET found == {f \in Range(bigfilelists) : Overlaps(f)} IN
       reply' = IF found = {} THEN [code |-> NotFound, data |-> <<>>]
                ELSE [code |-> OK, data |-> Sorted(found)]
  /\ pc' = "done"
  /\ UNCHANGED <<disk, queryVars, days, bigfilelists, before>>

------------------------------------------------------------------------------
\* The disk is shared: files come while a query walks it.
AddFile(f) ==
  /\ pc # "done" /\ f \notin disk
  /\ disk' = disk \cup {f}
  /\ UNCHANGED <<pc, queryVars, days, bigfilelists, reply, before>>

Next ==
  \/ \E t1, t2 \in Times : Request(t1, t2)
  \/ ListDay \/ Filter
  \/ \E f \in Files : AddFile(f)

Spec == Init /\ [][Next]_vars

------------------------------------------------------------------------------
(* Properties.                                                               *)

TypeOK ==
  /\ disk \subseteq Files /\ before \subseteq disk
  /\ pc \in {"idle", "walk", "done"}
  /\ {from, to} \subseteq Times
  /\ IsInjective(days) /\ Range(days) \subseteq Day(from) .. Day(to)
  /\ \A t \in DOMAIN bigfilelists : bigfilelists[t] \in disk /\ bigfilelists[t].start = t
  /\ reply.code \in {None, BadRequest, NotFound, OK}
  /\ Range(reply.data) \subseteq disk

\* Whatever the order of directories, names and map entries, the reply holds
\* files of the range only, in the order of time and no two of one start, and is
\* a 404 instead of an empty list.
ReplyHoldsRange ==
  LET list == reply.data IN
  /\ \A i \in DOMAIN list : list[i].start <= to /\ list[i].end >= from
  /\ \A i, j \in DOMAIN list : i < j => list[i].start < list[j].start
  /\ pc = "done" => (reply.code = OK <=> list # <<>>)

\* A file that was there when the query came, overlaps the range, began on a day of
\* the range and lies in a directory with no name that cannot be read is listed by
\* its start, unless a file of the same start that ends before the range hides it.
\* What else is in other directories or comes meanwhile makes no difference.
OverlapIsListed ==
  pc = "done" /\ from < to =>
    \A f \in before :
       /\ f.dir = Day(f.start) /\ Day(from) <= Day(f.start)
       /\ f.start <= to /\ from <= f.end
       /\ \A g \in disk : g.dir = f.dir => HasTimeRange(g)
       => \E g \in disk : g.start = f.start /\ (g \in Range(reply.data) \/ g.end < from)
==============================================================================
