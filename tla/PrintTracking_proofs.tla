------------------------ MODULE PrintTracking_proofs ------------------------
(***************************************************************************)
(* What the operations of PrintHistory preserve, for every table; and what *)
(* PrintTracking keeps, for every set of tasks and every bound: the history*)
(* has the right types, never two open rows of one task, never a           *)
(* completion the printer did not reach, and implements PrintLedger.       *)
(***************************************************************************)
EXTENDS PostgresHistory, SequenceTheorems, TLAPS

(* No task has two open rows: the predicate of OneOpenRowPerTask. *)
OneOpen(table) ==
  \A i, j \in OpenRows(table) : table[i].task = table[j].task => i = j

(* Rewriting the rows of a table in place gives a table of the same length. *)
LEMMA MapRows ==
  ASSUME NEW table \in Seq(Row), NEW image,
         DOMAIN image = DOMAIN table, image = [i \in DOMAIN image |-> image[i]],
         \A i \in DOMAIN table : image[i] \in Row
  PROVE  image \in Seq(Row) /\ Len(image) = Len(table)
<1>1. DOMAIN table = 1..Len(table) /\ Len(table) \in Nat
  OBVIOUS
<1>2. image \in [1..Len(table) -> Row]
  BY <1>1
<1>3. image \in Seq(Row)
  BY <1>1, <1>2, SeqDef
<1> QED
  BY <1>1, <1>2, <1>3, LenProperties

(* startPrint keeps the type, leaves every old row alone, and opens a row  *)
(* only for a task that has no open row.                                   *)
LEMMA StartPrintFacts ==
  ASSUME NEW table \in Seq(Row), NEW t \in Tasks
  PROVE  /\ StartPrint(table, t) \in Seq(Row)
         /\ OneOpen(table) => OneOpen(StartPrint(table, t))
         /\ DOMAIN table \subseteq DOMAIN StartPrint(table, t)
         /\ \A i \in DOMAIN table : StartPrint(table, t)[i] = table[i]
         /\ \A i \in DOMAIN StartPrint(table, t) \ DOMAIN table :
              StartPrint(table, t)[i].task = t /\ IsOpen(StartPrint(table, t)[i])
<1> DEFINE new == [task |-> t, outcome |-> "printing", started |-> TRUE, finished |-> FALSE]
           next == StartPrint(table, t)
<1>1. t # NoTask
  BY NoTaskAssumption
<1>2. CASE OpenRowFor(table, t)
  BY <1>1, <1>2 DEF StartPrint
<1>3. CASE ~OpenRowFor(table, t)
  <2>1. new \in Row
    BY DEF Row, TaskIds, Outcomes
  <2>2. next = Append(table, new)
    BY <1>3 DEF StartPrint
  <2>3. /\ next \in Seq(Row)
        /\ DOMAIN table = 1..Len(table)
        /\ DOMAIN next = 1..(Len(table) + 1)
        /\ \A i \in DOMAIN table : next[i] = table[i]
        /\ next[Len(table) + 1] = new
    BY <2>1, <2>2
  <2>4. IsOpen(new) /\ new.task = t
    BY DEF IsOpen
  <2>5. \A i \in DOMAIN table : IsOpen(table[i]) => table[i].task # t
    BY <1>3 DEF OpenRowFor, RowsOf
  <2>6. DOMAIN next \ DOMAIN table = {Len(table) + 1}
    BY <2>3
  <2>7. OneOpen(table) => OneOpen(next)
    <3> SUFFICES ASSUME OneOpen(table),
                        NEW i \in OpenRows(next), NEW j \in OpenRows(next),
                        next[i].task = next[j].task
                 PROVE  i = j
      BY DEF OneOpen
    <3>1. /\ i \in DOMAIN next /\ IsOpen(next[i])
          /\ j \in DOMAIN next /\ IsOpen(next[j])
      BY DEF OpenRows
    <3>2. CASE i \in DOMAIN table /\ j \in DOMAIN table
      BY <2>3, <3>1, <3>2 DEF OneOpen, OpenRows
    <3>3. CASE i \in DOMAIN table /\ j \notin DOMAIN table
      BY <2>3, <2>4, <2>5, <2>6, <3>1, <3>3
    <3>4. CASE i \notin DOMAIN table /\ j \in DOMAIN table
      BY <2>3, <2>4, <2>5, <2>6, <3>1, <3>4
    <3>5. CASE i \notin DOMAIN table /\ j \notin DOMAIN table
      BY <2>6, <3>1, <3>5
    <3> QED BY <3>2, <3>3, <3>4, <3>5
  <2>8. \A i \in DOMAIN next \ DOMAIN table : next[i].task = t /\ IsOpen(next[i])
    BY <2>3, <2>6 DEF IsOpen
  <2>9. DOMAIN table \subseteq DOMAIN next
    BY <2>3
  <2> HIDE DEF next
  <2> QED BY <2>3, <2>7, <2>8, <2>9 DEF next
<1> QED BY <1>2, <1>3

(* finishPrint keeps the type and the length, changes open rows only, and  *)
(* settles those it changes with the outcome it was given.                 *)
LEMMA FinishPrintFacts ==
  ASSUME NEW table \in Seq(Row), NEW t \in TaskIds,
         NEW ending \in {"complete", "stopped"}
  PROVE  /\ FinishPrint(table, t, ending) \in Seq(Row)
         /\ DOMAIN FinishPrint(table, t, ending) = DOMAIN table
         /\ OneOpen(table) => OneOpen(FinishPrint(table, t, ending))
         /\ \A i \in DOMAIN table :
              LET row == FinishPrint(table, t, ending)[i] IN
              \/ row = table[i]
              \/ /\ IsOpen(table[i])
                 /\ t # NoTask => table[i].task = t
                 /\ row = Closed(table[i], ending)
         /\ t # NoTask => ~OpenRowFor(FinishPrint(table, t, ending), t)
<1> DEFINE next == FinishPrint(table, t, ending)
           closed(i) == Closed(table[i], ending)
           closes(i) == /\ i \in OpenRows(table)
                        /\ IF t # NoTask THEN table[i].task = t
                           ELSE \A j \in OpenRows(table) : j <= i
<1>1. next = [i \in DOMAIN table |-> IF closes(i) THEN closed(i) ELSE table[i]]
  BY DEF FinishPrint
<1>2. \A i \in DOMAIN table : table[i] \in Row
  OBVIOUS
<1>3. \A i \in DOMAIN table : /\ closed(i) \in Row
                              /\ closed(i).task = table[i].task
                              /\ ~IsOpen(closed(i))
  BY <1>2 DEF Row, Outcomes, IsOpen, Settled, Closed
<1>4. DOMAIN next = DOMAIN table
  BY <1>1
<1>5. \A i \in DOMAIN table : next[i] = IF closes(i) THEN closed(i) ELSE table[i]
  BY <1>1
<1>6. next \in Seq(Row)
  <2>1. \A i \in DOMAIN table : next[i] \in Row
    BY <1>2, <1>3, <1>5
  <2>2. next = [i \in DOMAIN next |-> next[i]]
    BY <1>1
  <2> QED BY <1>4, <2>1, <2>2, MapRows
<1>7. \A i \in DOMAIN table :
        \/ next[i] = table[i]
        \/ /\ IsOpen(table[i])
           /\ t # NoTask => table[i].task = t
           /\ next[i] = closed(i)
  BY <1>5 DEF OpenRows
<1>8. OneOpen(table) => OneOpen(next)
  <2>1. \A i \in OpenRows(next) : i \in OpenRows(table) /\ next[i] = table[i]
    BY <1>3, <1>4, <1>5 DEF OpenRows
  <2> QED BY <2>1 DEF OneOpen
<1>9. t # NoTask => ~OpenRowFor(next, t)
  <2> SUFFICES ASSUME t # NoTask, NEW i \in DOMAIN next,
                      next[i].task = t, IsOpen(next[i])
               PROVE  FALSE
    BY DEF OpenRowFor, RowsOf
  <2>1. ~closes(i) /\ next[i] = table[i]
    BY <1>3, <1>4, <1>5
  <2> QED BY <1>4, <2>1 DEF OpenRows
<1> QED BY <1>4, <1>6, <1>7, <1>8, <1>9

(* recordFinished keeps the type, settles open rows of its task only, and  *)
(* adds at most one row, a settled one of that task; afterwards the task   *)
(* has a row, and no open one.                                             *)
LEMMA RecordFinishedFacts ==
  ASSUME NEW table \in Seq(Row), NEW t \in Tasks,
         NEW ending \in {"complete", "stopped"}
  PROVE  /\ RecordFinished(table, t, ending) \in Seq(Row)
         /\ OneOpen(table) => OneOpen(RecordFinished(table, t, ending))
         /\ \A i \in DOMAIN table :
              LET row == RecordFinished(table, t, ending)[i] IN
              \/ row = table[i]
              \/ /\ IsOpen(table[i])
                 /\ table[i].task = t
                 /\ row = Settled(table[i], ending)
         /\ \A i \in DOMAIN RecordFinished(table, t, ending) \ DOMAIN table :
              /\ RecordFinished(table, t, ending)[i].task = t
              /\ RecordFinished(table, t, ending)[i].outcome = ending
         /\ RowsOf(RecordFinished(table, t, ending), t) # {}
         /\ ~OpenRowFor(RecordFinished(table, t, ending), t)
<1> DEFINE next == RecordFinished(table, t, ending)
           settled(i) == Settled(table[i], ending)
           new == [task |-> t, outcome |-> ending, started |-> FALSE, finished |-> FALSE]
<1>1. \A i \in DOMAIN table : table[i] \in Row
  OBVIOUS
<1>2. CASE OpenRowFor(table, t)
  <2>1. next = [i \in DOMAIN table |->
                  IF table[i].task = t /\ IsOpen(table[i]) THEN settled(i) ELSE table[i]]
    BY <1>2 DEF RecordFinished
  <2>2. \A i \in DOMAIN table : /\ settled(i) \in Row
                                /\ settled(i).task = table[i].task
                                /\ ~IsOpen(settled(i))
    BY <1>1 DEF Row, Outcomes, IsOpen, Settled, Closed
  <2>3. DOMAIN next = DOMAIN table
    BY <2>1
  <2>4. \A i \in DOMAIN table :
          next[i] = IF table[i].task = t /\ IsOpen(table[i]) THEN settled(i) ELSE table[i]
    BY <2>1
  <2>5. next \in Seq(Row)
    <3>1. \A i \in DOMAIN table : next[i] \in Row
      BY <1>1, <2>2, <2>4
    <3>2. next = [i \in DOMAIN next |-> next[i]]
      BY <2>1
    <3> QED BY <2>3, <3>1, <3>2, MapRows
  <2>6. OneOpen(table) => OneOpen(next)
    <3>1. \A i \in OpenRows(next) : i \in OpenRows(table) /\ next[i] = table[i]
      BY <2>2, <2>3, <2>4 DEF OpenRows
    <3> QED BY <3>1 DEF OneOpen
  <2>7. RowsOf(next, t) # {}
    BY <1>2, <2>2, <2>3, <2>4 DEF OpenRowFor, RowsOf
  <2>8. ~OpenRowFor(next, t)
    BY <2>2, <2>3, <2>4 DEF OpenRowFor, RowsOf
  <2> QED BY <2>3, <2>4, <2>5, <2>6, <2>7, <2>8
<1>3. CASE RowsOf(table, t) # {} /\ ~OpenRowFor(table, t)
  <2>1. next = table
    BY <1>3 DEF RecordFinished
  <2> QED BY <1>3, <2>1
<1>4. CASE RowsOf(table, t) = {} /\ ~OpenRowFor(table, t)
  <2>1. next = Append(table, new)
    BY <1>4 DEF RecordFinished
  <2>2. new \in Row /\ ~IsOpen(new) /\ new.task = t /\ new.outcome = ending
    BY DEF Row, TaskIds, Outcomes, IsOpen
  <2>3. /\ next \in Seq(Row)
        /\ DOMAIN table = 1..Len(table)
        /\ DOMAIN next = 1..(Len(table) + 1)
        /\ \A i \in DOMAIN table : next[i] = table[i]
        /\ next[Len(table) + 1] = new
    BY <2>1, <2>2
  <2>4. DOMAIN next \ DOMAIN table = {Len(table) + 1}
    BY <2>3
  <2>5. \A i \in OpenRows(next) : i \in OpenRows(table) /\ next[i] = table[i]
    BY <2>2, <2>3, <2>4 DEF OpenRows
  <2>6. OneOpen(table) => OneOpen(next)
    BY <2>5 DEF OneOpen
  <2>7. RowsOf(next, t) # {}
    <3>1. Len(table) + 1 \in RowsOf(next, t)
      BY <2>2, <2>3 DEF RowsOf
    <3> QED BY <3>1
  <2>8. ~OpenRowFor(next, t)
    BY <1>4, <2>5 DEF OpenRowFor, RowsOf, OpenRows
  <2>9. \A i \in DOMAIN next \ DOMAIN table : next[i].task = t /\ next[i].outcome = ending
    BY <2>3, <2>4
  <2> HIDE DEF next
  <2> QED BY <2>3, <2>6, <2>7, <2>8, <2>9 DEF next
<1> QED BY <1>2, <1>3, <1>4 DEF OpenRowFor

-----------------------------------------------------------------------------
(* A table of well-formed rows, at most one of them open for each task,    *)
(* that calls complete no task outside the set done.                       *)
SoundTable(table, done) ==
  /\ table \in Seq(Row)
  /\ OneOpen(table)
  /\ \A i \in DOMAIN table : table[i].task \in Tasks
  /\ \A i \in DOMAIN table : table[i].outcome = "complete" => table[i].task \in done

(* Each operation keeps a table sound, as long as it is asked to record as *)
(* complete only a task that is done.                                      *)
LEMMA StartPrintSound ==
  ASSUME NEW done, NEW table, SoundTable(table, done), NEW t \in Tasks
  PROVE  SoundTable(StartPrint(table, t), done)
<1> DEFINE next == StartPrint(table, t)
<1>1. table \in Seq(Row) /\ OneOpen(table)
  BY DEF SoundTable
<1>2. /\ next \in Seq(Row) /\ OneOpen(next)
      /\ \A i \in DOMAIN table : next[i] = table[i]
      /\ \A i \in DOMAIN next \ DOMAIN table : next[i].task = t /\ IsOpen(next[i])
  BY <1>1, StartPrintFacts
<1> HIDE DEF next
<1>3. ASSUME NEW i \in DOMAIN next
      PROVE  next[i].task \in Tasks /\ (next[i].outcome = "complete" => next[i].task \in done)
  <2>1. CASE i \in DOMAIN table
    BY <1>2, <2>1 DEF SoundTable
  <2>2. CASE i \notin DOMAIN table
    BY <1>2, <2>2 DEF IsOpen
  <2> QED BY <2>1, <2>2
<1> QED BY <1>2, <1>3 DEF SoundTable, next

LEMMA FinishPrintSound ==
  ASSUME NEW done, NEW table, SoundTable(table, done), NEW t \in TaskIds,
         NEW ending \in {"complete", "stopped"},
         ending = "complete" => t \in done /\ t # NoTask
  PROVE  SoundTable(FinishPrint(table, t, ending), done)
<1> DEFINE next == FinishPrint(table, t, ending)
<1>1. table \in Seq(Row) /\ OneOpen(table)
  BY DEF SoundTable
<1>2. /\ next \in Seq(Row) /\ OneOpen(next) /\ DOMAIN next = DOMAIN table
      /\ \A i \in DOMAIN table :
            \/ next[i] = table[i]
            \/ /\ t # NoTask => table[i].task = t
               /\ next[i] = Closed(table[i], ending)
  BY <1>1, FinishPrintFacts
<1> HIDE DEF next
<1>3. ASSUME NEW i \in DOMAIN next
      PROVE  next[i].task \in Tasks /\ (next[i].outcome = "complete" => next[i].task \in done)
  BY <1>2 DEF SoundTable, Settled, Closed
<1> QED BY <1>2, <1>3 DEF SoundTable, next

LEMMA RecordFinishedSound ==
  ASSUME NEW done, NEW table, SoundTable(table, done), NEW t \in Tasks,
         NEW ending \in {"complete", "stopped"},
         ending = "complete" => t \in done
  PROVE  SoundTable(RecordFinished(table, t, ending), done)
<1> DEFINE next == RecordFinished(table, t, ending)
<1>1. table \in Seq(Row) /\ OneOpen(table)
  BY DEF SoundTable
<1>2. next \in Seq(Row) /\ OneOpen(next)
  BY <1>1, RecordFinishedFacts
<1>3. \A i \in DOMAIN table :
        \/ next[i] = table[i]
        \/ /\ IsOpen(table[i])
           /\ table[i].task = t
           /\ next[i] = Settled(table[i], ending)
  BY <1>1, RecordFinishedFacts
<1>4. \A i \in DOMAIN next \ DOMAIN table : /\ next[i].task = t
                                               /\ next[i].outcome = ending
  BY <1>1, RecordFinishedFacts
<1> HIDE DEF next
<1>5. \A i \in DOMAIN table : /\ Settled(table[i], ending).task = table[i].task
                              /\ Settled(table[i], ending).outcome = ending
  BY <1>1 DEF Settled, Row
<1>6. ASSUME NEW i \in DOMAIN next
      PROVE  next[i].task \in Tasks /\ (next[i].outcome = "complete" => next[i].task \in done)
  <2>1. CASE i \in DOMAIN table
    BY <1>1, <1>3, <1>5, <2>1 DEF SoundTable
  <2>2. CASE i \notin DOMAIN table
    BY <1>4, <2>2
  <2> QED BY <2>1, <2>2
<1> QED BY <1>2, <1>6 DEF SoundTable, next

-----------------------------------------------------------------------------
(* One step of the promised ledger, as a relation between two tables: the  *)
(* steps of PrintLedger, and no step at all.                               *)
OpenedOnly(table, next, t) ==
  /\ ~OpenRowFor(table, t)
  /\ next = Append(table, [task |-> t, outcome |-> "printing",
                           started |-> TRUE, finished |-> FALSE])

SettledOnly(table, next, i, ending) ==
  /\ IsOpen(table[i])
  /\ \/ next = [table EXCEPT ![i] = Settled(table[i], ending)]
     \/ next = [table EXCEPT ![i] = Closed(table[i], ending)]

AddedOnly(table, next, t, ending) ==
  /\ RowsOf(table, t) = {}
  /\ next = Append(table, [task |-> t, outcome |-> ending,
                           started |-> FALSE, finished |-> FALSE])

OneStep(table, next) ==
  \/ next = table
  \/ \E t \in Tasks : OpenedOnly(table, next, t)
  \/ \E i \in DOMAIN table, ending \in {"complete", "stopped"} :
       SettledOnly(table, next, i, ending)
  \/ \E t \in Tasks, ending \in {"complete", "stopped"} : AddedOnly(table, next, t, ending)

LEMMA StartPrintOneStep ==
  ASSUME NEW table, NEW t \in Tasks
  PROVE  OneStep(table, StartPrint(table, t))
<1>1. t # NoTask
  BY NoTaskAssumption
<1> QED BY <1>1 DEF StartPrint, OneStep, OpenedOnly

(* Rewriting in place the rows that are closed changes one row, since at   *)
(* most one of them is open.                                               *)
LEMMA FinishPrintOneStep ==
  ASSUME NEW table \in Seq(Row), OneOpen(table), NEW t \in TaskIds,
         NEW ending \in {"complete", "stopped"}
  PROVE  OneStep(table, FinishPrint(table, t, ending))
<1> DEFINE next == FinishPrint(table, t, ending)
           closed(i) == Closed(table[i], ending)
           closes(i) == /\ i \in OpenRows(table)
                        /\ IF t # NoTask THEN table[i].task = t
                           ELSE \A j \in OpenRows(table) : j <= i
<1>1. next = [i \in DOMAIN table |-> IF closes(i) THEN closed(i) ELSE table[i]]
  BY DEF FinishPrint
<1>2. table = [i \in DOMAIN table |-> table[i]] /\ DOMAIN table \subseteq Nat
  OBVIOUS
<1>3. CASE \A i \in DOMAIN table : ~closes(i)
  <2>1. next = table
    BY <1>1, <1>2, <1>3
  <2> QED BY <2>1 DEF OneStep
<1>4. ASSUME NEW k \in DOMAIN table, closes(k)
      PROVE  OneStep(table, next)
  <2>1. \A i \in DOMAIN table : closes(i) => i = k
    <3>1. CASE t # NoTask
      BY <1>4, <3>1 DEF OneOpen
    <3>2. CASE t = NoTask
      BY <1>2, <1>4, <3>2
    <3> QED BY <3>1, <3>2
  <2>2. IsOpen(table[k])
    BY <1>4 DEF OpenRows
  <2> HIDE DEF closes, closed
  <2>3. next = [table EXCEPT ![k] = closed(k)]
    BY <1>1, <1>2, <1>4, <2>1
  <2> HIDE DEF next
  <2>4. SettledOnly(table, next, k, ending)
    BY <2>2, <2>3 DEF SettledOnly, closed
  <2> QED BY <2>4 DEF OneStep
<1> QED BY <1>3, <1>4

LEMMA RecordFinishedOneStep ==
  ASSUME NEW table \in Seq(Row), OneOpen(table), NEW t \in Tasks,
         NEW ending \in {"complete", "stopped"}
  PROVE  OneStep(table, RecordFinished(table, t, ending))
<1> DEFINE next == RecordFinished(table, t, ending)
           settled(i) == Settled(table[i], ending)
           settles(i) == table[i].task = t /\ IsOpen(table[i])
<1>1. CASE OpenRowFor(table, t)
  <2>1. next = [i \in DOMAIN table |-> IF settles(i) THEN settled(i) ELSE table[i]]
    BY <1>1 DEF RecordFinished
  <2>2. table = [i \in DOMAIN table |-> table[i]]
    OBVIOUS
  <2>3. PICK k \in DOMAIN table : settles(k)
    BY <1>1 DEF OpenRowFor, RowsOf
  <2>4. \A i \in DOMAIN table : settles(i) => i = k
    BY <2>3 DEF OneOpen, OpenRows
  <2>5. IsOpen(table[k])
    BY <2>3
  <2> HIDE DEF settles, settled
  <2>6. next = [table EXCEPT ![k] = settled(k)]
    BY <2>1, <2>2, <2>3, <2>4
  <2> HIDE DEF next
  <2>7. SettledOnly(table, next, k, ending)
    BY <2>5, <2>6 DEF SettledOnly, settled
  <2>8. OneStep(table, next)
    BY <2>3, <2>7 DEF OneStep
  <2> QED BY <2>8 DEF next
<1>2. CASE RowsOf(table, t) # {} /\ ~OpenRowFor(table, t)
  BY <1>2 DEF RecordFinished, OneStep
<1>3. CASE RowsOf(table, t) = {} /\ ~OpenRowFor(table, t)
  BY <1>3 DEF RecordFinished, OneStep, AddedOnly
<1> QED BY <1>1, <1>2, <1>3

(* Finishing a task that has no open row changes nothing. *)
LEMMA FinishPrintIdle ==
  ASSUME NEW table \in Seq(Row), NEW t \in Tasks, ~OpenRowFor(table, t), NEW ending
  PROVE  FinishPrint(table, t, ending) = table
<1>1. t # NoTask
  BY NoTaskAssumption
<1>2. table = [i \in DOMAIN table |-> table[i]]
  OBVIOUS
<1>3. \A i \in DOMAIN table : ~(i \in OpenRows(table) /\ table[i].task = t)
  BY DEF OpenRowFor, RowsOf, OpenRows
<1> QED BY <1>1, <1>2, <1>3 DEF FinishPrint

-----------------------------------------------------------------------------
(* next is table after an operation on task t: no row is lost or changes   *)
(* its task, and only rows of t are settled or added.                      *)
TouchesOnly(table, next, t) ==
  /\ DOMAIN table \subseteq DOMAIN next
  /\ \A i \in DOMAIN table :
       /\ next[i].task = table[i].task
       /\ next[i] = table[i] \/ (table[i].task = t /\ ~IsOpen(next[i]))
  /\ \A i \in DOMAIN next \ DOMAIN table : next[i].task = t

LEMMA StartPrintTouches ==
  ASSUME NEW table \in Seq(Row), NEW t \in Tasks
  PROVE  /\ TouchesOnly(table, StartPrint(table, t), t)
         /\ RowsOf(StartPrint(table, t), t) # {}
<1> DEFINE next == StartPrint(table, t)
<1>1. /\ DOMAIN table \subseteq DOMAIN next
      /\ \A i \in DOMAIN table : next[i] = table[i]
      /\ \A i \in DOMAIN next \ DOMAIN table : next[i].task = t
  BY StartPrintFacts
<1>2. RowsOf(next, t) # {}
  <2>1. CASE OpenRowFor(table, t)
    BY <1>1, <2>1 DEF OpenRowFor, RowsOf
  <2>2. CASE ~OpenRowFor(table, t)
    <3> DEFINE new == [task |-> t, outcome |-> "printing", started |-> TRUE, finished |-> FALSE]
    <3>1. next = Append(table, new)
      BY <2>2 DEF StartPrint
    <3>2. Len(table) + 1 \in DOMAIN next /\ next[Len(table) + 1] = new
      BY <3>1
    <3> QED BY <3>2 DEF RowsOf
  <2> QED BY <2>1, <2>2
<1> HIDE DEF next
<1>3. TouchesOnly(table, next, t)
  BY <1>1 DEF TouchesOnly
<1> QED BY <1>2, <1>3 DEF next

LEMMA RecordFinishedTouches ==
  ASSUME NEW table \in Seq(Row), NEW t \in Tasks,
         NEW ending \in {"complete", "stopped"}
  PROVE  TouchesOnly(table, RecordFinished(table, t, ending), t)
<1> DEFINE next == RecordFinished(table, t, ending)
<1>1. /\ \A i \in DOMAIN table :
           next[i] = table[i] \/ (table[i].task = t /\ next[i] = Settled(table[i], ending))
      /\ \A i \in DOMAIN next \ DOMAIN table : next[i].task = t
  <2>1. \A i \in DOMAIN table :
          next[i] = table[i] \/ (table[i].task = t /\ next[i] = Settled(table[i], ending))
    BY RecordFinishedFacts, SMTT(20)
  <2>2. \A i \in DOMAIN next \ DOMAIN table : next[i].task = t
    BY RecordFinishedFacts, SMTT(20)
  <2> QED BY <2>1, <2>2
<1>2. \A i \in DOMAIN table : /\ Settled(table[i], ending).task = table[i].task
                              /\ ~IsOpen(Settled(table[i], ending))
  BY DEF Settled, IsOpen, Row
<1>3. DOMAIN table \subseteq DOMAIN next
  <2> DEFINE new == [task |-> t, outcome |-> ending, started |-> FALSE, finished |-> FALSE]
  <2>1. DOMAIN next = DOMAIN table \/ next = Append(table, new)
    BY DEF RecordFinished, OpenRowFor
  <2>2. DOMAIN table \subseteq DOMAIN Append(table, new)
    OBVIOUS
  <2> QED BY <2>1, <2>2
<1> HIDE DEF next
<1>4. TouchesOnly(table, next, t)
  BY <1>1, <1>2, <1>3 DEF TouchesOnly
<1> QED BY <1>4 DEF next

LEMMA FinishPrintTouches ==
  ASSUME NEW table \in Seq(Row), NEW t \in Tasks,
         NEW ending \in {"complete", "stopped"}
  PROVE  TouchesOnly(table, FinishPrint(table, t, ending), t)
<1> DEFINE next == FinishPrint(table, t, ending)
<1>1. t # NoTask /\ t \in TaskIds
  BY NoTaskAssumption DEF TaskIds
<1>2. /\ DOMAIN next = DOMAIN table
      /\ \A i \in DOMAIN table :
           next[i] = table[i] \/ (table[i].task = t /\ next[i] = Closed(table[i], ending))
  BY <1>1, FinishPrintFacts
<1>3. \A i \in DOMAIN table : /\ Closed(table[i], ending).task = table[i].task
                              /\ ~IsOpen(Closed(table[i], ending))
  BY DEF Closed, IsOpen
<1> HIDE DEF next
<1>4. TouchesOnly(table, next, t)
  BY <1>2, <1>3 DEF TouchesOnly
<1> QED BY <1>4 DEF next

(* Whatever is done to task t, every task keeps its rows, and the others   *)
(* their open ones.                                                        *)
LEMMA TouchedFacts ==
  ASSUME NEW table, NEW next, NEW t, TouchesOnly(table, next, t)
  PROVE  \A u : /\ RowsOf(table, u) # {} => RowsOf(next, u) # {}
                /\ OpenRowFor(next, u) => OpenRowFor(table, u) \/ u = t
BY DEF TouchesOnly, RowsOf, OpenRowFor

-----------------------------------------------------------------------------
(* The service's tracking of the printer. *)

(* What the printer reports agrees with what became of its prints. *)
PrinterInv ==
  /\ pStatus = "Idle" => pTask = NoTask
  /\ pStatus # "Idle" => pTask \in Tasks
  /\ pStatus = "Printing" => fate[pTask] \in {"running", "stopping"}
  /\ pStatus = "Complete" => fate[pTask] = "complete"

(* A frame in flight reports a task unless it reports Idle, and a          *)
(* completion in flight is one the printer has reached.                    *)
TrueFrame(m) ==
  m.kind = "status" =>
    /\ m.status # "Idle" => m.task \in Tasks
    /\ m.status = "Idle" => m.task = NoTask
    /\ m.status = "Complete" => fate[m.task] = "complete"

WireInv == \A k \in DOMAIN wire : TrueFrame(wire[k])

RowTasksInv == \A i \in DOMAIN rows : rows[i].task \in Tasks

IInv ==
  /\ TypeOK
  /\ PrinterInv
  /\ WireInv
  /\ RowTasksInv
  /\ OneOpenRowPerTask
  /\ CompleteIsTrue

-----------------------------------------------------------------------------
LEMMA InitIInv == Init => IInv
<1> SUFFICES ASSUME Init PROVE IInv
  OBVIOUS
<1>1. TypeOK
  <2>1. wire \in Seq(StatusFrame \union AckFrame) /\ rows \in Seq(Row)
    BY EmptySeq DEF Init
  <2>2. stopsMade \in 0..MaxStops
    BY BoundsAssumption DEF Init
  <2>3. fate \in [Tasks -> Fates] /\ notified \in [Tasks -> Nat]
    BY DEF Init, Fates
  <2>4. /\ pStatus \in Statuses /\ lastStatus \in Statuses \union {Unknown}
        /\ pTask \in TaskIds /\ lastTask \in TaskIds
        /\ stop \in {"none", "sent", "taken", "lost", "acked"}
    BY DEF Init, Statuses, TaskIds, Unknown
  <2>5. linkUp \in BOOLEAN /\ serverUp \in BOOLEAN
    BY DEF Init
  <2> QED BY <2>1, <2>2, <2>3, <2>4, <2>5 DEF TypeOK
<1>2. /\ PrinterInv /\ WireInv /\ RowTasksInv /\ OneOpenRowPerTask /\ CompleteIsTrue
  BY DEF Init, PrinterInv, WireInv, RowTasksInv, OneOpenRowPerTask, CompleteIsTrue, OpenRows
<1> QED BY <1>1, <1>2 DEF IInv

(* A step that leaves the history and the wire alone and forgets no        *)
(* completion keeps what is said of them.                                  *)
LEMMA UntouchedHistory ==
  ASSUME IInv, UNCHANGED <<wire, rows>>,
         \A t \in Tasks : fate[t] = "complete" => fate'[t] = "complete"
  PROVE  WireInv' /\ RowTasksInv' /\ OneOpenRowPerTask' /\ CompleteIsTrue'
<1>1. WireInv'
  BY DEF IInv, WireInv, TrueFrame
<1>2. RowTasksInv'
  BY DEF IInv, RowTasksInv
<1>3. OneOpenRowPerTask'
  BY DEF IInv, OneOpenRowPerTask, OpenRows
<1>4. CompleteIsTrue'
  BY DEF IInv, CompleteIsTrue, RowTasksInv
<1> QED BY <1>1, <1>2, <1>3, <1>4

(* The printer's own steps. *)
LEMMA PrinterSteps ==
  ASSUME IInv, (\E t \in Tasks : PrinterStart(t)) \/ PrinterComplete \/ PrinterStopped
               \/ PrinterBlank
  PROVE  IInv'
<1>0. TypeOK /\ PrinterInv
  BY DEF IInv
<1>1. ASSUME NEW t \in Tasks, PrinterStart(t) PROVE IInv'
  <2>1. TypeOK'
    BY <1>0, <1>1 DEF PrinterStart, TypeOK, storeVars, stopVars, Statuses, TaskIds, Fates
  <2>2. PrinterInv'
    BY <1>0, <1>1 DEF PrinterStart, TypeOK, PrinterInv
  <2>3. \A u \in Tasks : fate[u] = "complete" => fate'[u] = "complete"
    BY <1>0, <1>1 DEF PrinterStart, TypeOK
  <2>4. UNCHANGED <<wire, rows>>
    BY <1>1 DEF PrinterStart
  <2> QED BY <2>1, <2>2, <2>3, <2>4, UntouchedHistory DEF IInv
<1>2. ASSUME NEW status \in {"Complete", "Stopped"}, NEW ending \in {"complete", "stopped"},
             status = "Complete" => ending = "complete",
             PrinterEnd(status, ending)
      PROVE  IInv'
  <2>1. TypeOK'
    BY <1>0, <1>2 DEF PrinterEnd, TypeOK, storeVars, stopVars, Statuses, Fates
  <2>2. PrinterInv'
    BY <1>0, <1>2 DEF PrinterEnd, TypeOK, PrinterInv
  <2>3. \A u \in Tasks : fate[u] = "complete" => fate'[u] = "complete"
    BY <1>0, <1>2 DEF PrinterEnd, TypeOK, PrinterInv
  <2>4. UNCHANGED <<wire, rows>>
    BY <1>2 DEF PrinterEnd
  <2> QED BY <2>1, <2>2, <2>3, <2>4, UntouchedHistory DEF IInv
<1>3. ASSUME PrinterBlank PROVE IInv'
  <2>1. TypeOK'
    BY <1>0, <1>3 DEF PrinterBlank, TypeOK, storeVars, stopVars, Statuses, TaskIds
  <2>2. PrinterInv'
    BY <1>0, <1>3 DEF PrinterBlank, PrinterInv
  <2>3. UNCHANGED <<wire, rows, fate>>
    BY <1>3 DEF PrinterBlank
  <2> QED BY <2>1, <2>2, <2>3, UntouchedHistory DEF IInv
<1> QED BY <1>1, <1>2, <1>3 DEF PrinterComplete, PrinterStopped

(* Steps that cut the link: what was in flight is gone. *)
LEMMA CutSteps ==
  ASSUME IInv, PowerCycle \/ Disconnect \/ ServerDown
  PROVE  IInv'
<1>0. TypeOK /\ PrinterInv
  BY DEF IInv
<1>1. TypeOK'
  <2>1. wire' \in Seq(StatusFrame \union AckFrame) /\ rows' \in Seq(Row)
    BY <1>0, EmptySeq DEF PowerCycle, Disconnect, ServerDown, TypeOK
  <2>2. stopsMade' \in 0..MaxStops /\ notified' \in [Tasks -> Nat]
    BY <1>0 DEF PowerCycle, Disconnect, ServerDown, TypeOK
  <2>3. fate' \in [Tasks -> Fates]
    BY <1>0 DEF PowerCycle, Disconnect, ServerDown, TypeOK, printerVars, Fates
  <2>4. /\ pStatus' \in Statuses /\ lastStatus' \in Statuses \union {Unknown}
        /\ pTask' \in TaskIds /\ lastTask' \in TaskIds
    BY <1>0 DEF PowerCycle, Disconnect, ServerDown, TypeOK, printerVars, storeVars,
                Statuses, TaskIds, Unknown
  <2>5. stop' \in {"none", "sent", "taken", "lost", "acked"}
    BY <1>0 DEF PowerCycle, Disconnect, ServerDown, TypeOK, Unanswered
  <2>6. linkUp' \in BOOLEAN /\ serverUp' \in BOOLEAN
    BY <1>0 DEF PowerCycle, Disconnect, ServerDown, TypeOK
  <2> QED BY <2>1, <2>2, <2>3, <2>4, <2>5, <2>6 DEF TypeOK
<1>2. PrinterInv'
  BY <1>0 DEF PowerCycle, Disconnect, ServerDown, printerVars, PrinterInv
<1>3. \A u \in Tasks : fate[u] = "complete" => fate'[u] = "complete"
  BY <1>0 DEF PowerCycle, Disconnect, ServerDown, printerVars, TypeOK, PrinterInv
<1>4. UNCHANGED rows /\ wire' = <<>>
  BY DEF PowerCycle, Disconnect, ServerDown
<1>5. WireInv'
  BY <1>4 DEF WireInv
<1>6. RowTasksInv'
  BY <1>4 DEF IInv, RowTasksInv
<1>7. OneOpenRowPerTask'
  BY <1>4 DEF IInv, OneOpenRowPerTask, OpenRows
<1>8. CompleteIsTrue'
  BY <1>3, <1>4 DEF IInv, CompleteIsTrue, RowTasksInv
<1> QED BY <1>1, <1>2, <1>5, <1>6, <1>7, <1>8 DEF IInv

(* Steps of the process and of the stop route that touch neither the wire  *)
(* nor the history.                                                        *)
LEMMA QuietSteps ==
  ASSUME IInv, Connect \/ ServerStart \/ StopRequest \/ StopTimeout
  PROVE  IInv'
<1>0. TypeOK /\ PrinterInv
  BY DEF IInv
<1>1. TypeOK'
  <2>1. stopsMade' \in 0..MaxStops
    BY <1>0, BoundsAssumption
    DEF Connect, ServerStart, StopRequest, StopTimeout, TypeOK, stopVars
  <2>2. stop' \in {"none", "sent", "taken", "lost", "acked"}
    BY <1>0 DEF Connect, ServerStart, StopRequest, StopTimeout, TypeOK, stopVars
  <2>3. linkUp' \in BOOLEAN /\ serverUp' \in BOOLEAN
    BY <1>0 DEF Connect, ServerStart, StopRequest, StopTimeout, TypeOK
  <2>4. UNCHANGED <<pStatus, pTask, fate, wire, lastStatus, lastTask, rows, notified>>
    BY DEF Connect, ServerStart, StopRequest, StopTimeout, printerVars, storeVars
  <2> QED BY <1>0, <2>1, <2>2, <2>3, <2>4 DEF TypeOK
<1>2. PrinterInv'
  BY <1>0 DEF Connect, ServerStart, StopRequest, StopTimeout, printerVars, PrinterInv
<1>3. UNCHANGED <<wire, rows, fate>>
  BY DEF Connect, ServerStart, StopRequest, StopTimeout, printerVars
<1> QED BY <1>1, <1>2, <1>3, UntouchedHistory DEF IInv

(* The printer sends: a status frame, or the answer to a stop.             *)
LEMMA SendSteps ==
  ASSUME IInv, PrinterPush \/ PrinterTakesStop
  PROVE  IInv'
<1> DEFINE Message == StatusFrame \union AckFrame
<1>0. TypeOK /\ PrinterInv /\ WireInv
  BY DEF IInv
<1>1. /\ \A u \in Tasks : fate[u] = "complete" => fate'[u] = "complete"
      /\ PrinterInv'
      /\ UNCHANGED <<pTask, linkUp, serverUp, lastStatus, lastTask, stopsMade, rows, notified>>
      /\ pStatus' \in Statuses /\ fate' \in [Tasks -> Fates]
      /\ stop' \in {"none", "sent", "taken", "lost", "acked"}
  <2>1. CASE PrinterPush
    BY <1>0, <2>1 DEF PrinterPush, printerVars, storeVars, stopVars, PrinterInv, TypeOK
  <2>2. CASE PrinterTakesStop
    BY <1>0, <2>2 DEF PrinterTakesStop, storeVars, PrinterInv, TypeOK, Statuses, Fates
  <2> QED BY <2>1, <2>2
<1>2. \E m \in Message : wire' = Append(wire, m) /\ TrueFrame(m)'
  <2>1. CASE PrinterPush
    <3>1. PICK m \in StatusFrame : m = [kind |-> "status", status |-> pStatus, task |-> pTask]
      BY <1>0 DEF TypeOK, StatusFrame
    <3>2. TrueFrame(m)'
      BY <1>0, <2>1, <3>1 DEF TrueFrame, PrinterInv, PrinterPush, printerVars
    <3> QED BY <2>1, <3>1, <3>2 DEF PrinterPush
  <2>2. CASE PrinterTakesStop
    <3> DEFINE m == [kind |-> "ack", request |-> stopsMade]
    <3>1. m \in AckFrame
      BY <1>0 DEF TypeOK, AckFrame
    <3>2. TrueFrame(m)'
      BY DEF TrueFrame
    <3> QED BY <2>2, <3>1, <3>2 DEF PrinterTakesStop
  <2> QED BY <2>1, <2>2
<1>3. PICK m \in Message : wire' = Append(wire, m) /\ TrueFrame(m)'
  BY <1>2
<1>4. wire \in Seq(Message)
  BY <1>0 DEF TypeOK
<1> HIDE DEF Message
<1>5. /\ wire' \in Seq(Message)
      /\ \A k \in DOMAIN wire' : \/ k \in DOMAIN wire /\ wire'[k] = wire[k]
                               \/ wire'[k] = m
  BY <1>3, <1>4
<1>6. TypeOK'
  BY <1>0, <1>1, <1>5 DEF TypeOK, Message
<1>7. \A k \in DOMAIN wire : wire[k] \in Message
  BY <1>4
<1>8. WireInv'
  <2> SUFFICES ASSUME NEW k \in DOMAIN wire' PROVE TrueFrame(wire[k])'
    BY DEF WireInv
  <2>1. CASE wire'[k] = m
    BY <1>3, <2>1 DEF TrueFrame
  <2>2. CASE k \in DOMAIN wire /\ wire'[k] = wire[k]
    <3>1. TrueFrame(wire[k])
      BY <1>0, <2>2 DEF WireInv
    <3> QED BY <1>1, <2>2, <3>1 DEF TrueFrame
  <2> QED BY <1>5, <2>1, <2>2
<1>9. RowTasksInv' /\ OneOpenRowPerTask'
  BY <1>1 DEF IInv, RowTasksInv, OneOpenRowPerTask, OpenRows
<1>10. CompleteIsTrue'
  BY <1>1 DEF IInv, CompleteIsTrue, RowTasksInv
<1> QED BY <1>1, <1>6, <1>8, <1>9, <1>10 DEF IInv

(* Taking the first message off the wire. *)
LEMMA TakeFirst ==
  ASSUME IInv, wire # <<>>, wire' = Tail(wire), UNCHANGED fate
  PROVE  /\ wire' \in Seq(StatusFrame \union AckFrame)
         /\ WireInv'
         /\ Head(wire) \in StatusFrame \union AckFrame
         /\ TrueFrame(Head(wire))
<1> DEFINE Message == StatusFrame \union AckFrame
<1>1. wire \in Seq(Message)
  BY DEF IInv, TypeOK
<1> HIDE DEF Message
<1>2. /\ wire' \in Seq(Message)
      /\ Head(wire) \in Message
      /\ Head(wire) = wire[1] /\ 1 \in DOMAIN wire
      /\ \A k \in DOMAIN wire' : k + 1 \in DOMAIN wire /\ wire'[k] = wire[k + 1]
  BY <1>1
<1>3. TrueFrame(Head(wire))
  BY <1>2 DEF IInv, WireInv
<1>4. WireInv'
  BY <1>2 DEF IInv, WireInv, TrueFrame
<1> QED BY <1>2, <1>3, <1>4 DEF Message

LEMMA AckStep ==
  ASSUME IInv, DeliverAck
  PROVE  IInv'
<1>0. TypeOK /\ PrinterInv
  BY DEF IInv
<1>1. wire # <<>> /\ wire' = Tail(wire) /\ UNCHANGED <<pStatus, pTask, fate, linkUp, serverUp,
        lastStatus, lastTask, stopsMade, rows, notified>>
  BY DEF DeliverAck, printerVars, storeVars
<1>2. stop' \in {"none", "sent", "taken", "lost", "acked"}
  BY <1>0 DEF DeliverAck, TypeOK
<1>3. TypeOK'
  BY <1>0, <1>1, <1>2, TakeFirst DEF TypeOK
<1>4. PrinterInv'
  BY <1>0, <1>1 DEF PrinterInv
<1>5. RowTasksInv' /\ OneOpenRowPerTask' /\ CompleteIsTrue'
  BY <1>1 DEF IInv, RowTasksInv, OneOpenRowPerTask, OpenRows, CompleteIsTrue
<1> QED BY <1>1, <1>3, <1>4, <1>5, TakeFirst DEF IInv

-----------------------------------------------------------------------------
(* The tasks the printer has completed. *)
Done == {t \in Tasks : fate[t] = "complete"}

LEMMA SoundHistory ==
  ASSUME TypeOK
  PROVE  SoundTable(rows, Done) <=> RowTasksInv /\ OneOpenRowPerTask /\ CompleteIsTrue
BY DEF TypeOK, SoundTable, Done, RowTasksInv, OneOpenRowPerTask, OneOpen, CompleteIsTrue

(* The history calls of a status frame keep the history sound.  opened and *)
(* recorded are the tables after the first and the second possible call.   *)
LEMMA RecordedSound ==
  ASSUME IInv, NEW f \in StatusFrame, TrueFrame(f)
  PROVE  SoundTable(Recorded(f), Done)
<1> DEFINE opened == IF Starts(f) THEN StartPrint(rows, f.task) ELSE rows
           recorded == IF EndsUnseen(f) THEN RecordFinished(opened, f.task, SeenOutcome(f))
                       ELSE opened
<1>0. f.task \in TaskIds /\ f.status \in Statuses
  BY DEF StatusFrame
<1>1. SoundTable(rows, Done)
  BY SoundHistory DEF IInv
<1>2. SoundTable(opened, Done)
  <2>1. CASE Starts(f)
    BY <1>0, <1>1, <2>1, StartPrintSound DEF Starts, NewTask, TaskIds
  <2>2. CASE ~Starts(f)
    BY <1>1, <2>2
  <2> QED BY <2>1, <2>2
<1>3. SoundTable(recorded, Done)
  <2>1. CASE EndsUnseen(f)
    <3>1. f.task \in Tasks
      BY <1>0, <2>1 DEF EndsUnseen, NewTask, TaskIds
    <3>2. /\ SeenOutcome(f) \in {"complete", "stopped"}
          /\ SeenOutcome(f) = "complete" => f.task \in Done
      BY <3>1 DEF SeenOutcome, TrueFrame, StatusFrame, Done
    <3> HIDE DEF opened
    <3> QED BY <1>2, <2>1, <3>1, <3>2, RecordFinishedSound
  <2>2. CASE ~EndsUnseen(f)
    BY <1>2, <2>2
  <2> QED BY <2>1, <2>2
<1>4. Recorded(f) = IF Finishes(f) THEN FinishPrint(recorded, f.task, "complete") ELSE recorded
  BY DEF Recorded
<1> HIDE DEF opened, recorded
<1>5. CASE Finishes(f)
  <2>1. f.task \in Done /\ f.task # NoTask
    BY <1>5, NoTaskAssumption DEF Finishes, TrueFrame, StatusFrame, Done
  <2> QED BY <1>0, <1>3, <1>4, <1>5, <2>1, FinishPrintSound
<1>6. CASE ~Finishes(f)
  BY <1>3, <1>4, <1>6
<1> QED BY <1>5, <1>6

LEMMA StatusStep ==
  ASSUME IInv, DeliverStatus
  PROVE  IInv'
<1> DEFINE f == Head(wire)
<1>0. TypeOK /\ PrinterInv
  BY DEF IInv
<1>1. /\ wire # <<>> /\ wire' = Tail(wire)
      /\ UNCHANGED <<pStatus, pTask, fate, linkUp, serverUp, stop, stopsMade>>
      /\ f.kind = "status" /\ ApplyStatus(f)
  BY DEF DeliverStatus, printerVars, stopVars
<1>2. f \in StatusFrame /\ TrueFrame(f)
  BY <1>1, TakeFirst DEF AckFrame
<1> HIDE DEF f
<1>3. /\ rows' = Recorded(f)
      /\ lastStatus' \in Statuses \union {Unknown} /\ lastTask' \in TaskIds
      /\ notified' \in [Tasks -> Nat]
  BY <1>0, <1>1, <1>2 DEF ApplyStatus, StatusFrame, TypeOK
<1>4. SoundTable(rows', Done)
  BY <1>2, <1>3, RecordedSound
<1>5. TypeOK'
  BY <1>0, <1>1, <1>3, <1>4, TakeFirst DEF TypeOK, SoundTable
<1>6. PrinterInv'
  BY <1>0, <1>1 DEF PrinterInv
<1>7. RowTasksInv' /\ OneOpenRowPerTask' /\ CompleteIsTrue'
  BY <1>1, <1>4 DEF SoundTable, Done, RowTasksInv, OneOpenRowPerTask, OneOpen, CompleteIsTrue
<1> QED BY <1>1, <1>5, <1>6, <1>7, TakeFirst DEF IInv

LEMMA StopDoneStep ==
  ASSUME IInv, StopDone
  PROVE  IInv'
<1>0. TypeOK /\ PrinterInv /\ WireInv
  BY DEF IInv
<1>1. /\ rows' = FinishPrint(rows, lastTask, "stopped")
      /\ UNCHANGED <<pStatus, pTask, fate, linkUp, wire, serverUp,
                     lastStatus, lastTask, stopsMade, notified>>
      /\ stop' = "none"
  BY DEF StopDone, printerVars, storeVars
<1>2. SoundTable(rows', Done)
  BY <1>0, <1>1, SoundHistory, FinishPrintSound DEF IInv, TypeOK
<1>3. TypeOK'
  BY <1>0, <1>1, <1>2 DEF TypeOK, SoundTable
<1>4. PrinterInv' /\ WireInv'
  BY <1>0, <1>1 DEF PrinterInv, WireInv, TrueFrame
<1>5. RowTasksInv' /\ OneOpenRowPerTask' /\ CompleteIsTrue'
  BY <1>1, <1>2 DEF SoundTable, Done, RowTasksInv, OneOpenRowPerTask, OneOpen, CompleteIsTrue
<1> QED BY <1>3, <1>4, <1>5 DEF IInv

-----------------------------------------------------------------------------
LEMMA NextIInv == IInv /\ [Next]_vars => IInv'
<1> SUFFICES ASSUME IInv, [Next]_vars PROVE IInv'
  OBVIOUS
<1>1. CASE PrinterNext
  BY <1>1, PrinterSteps, CutSteps, SendSteps DEF PrinterNext
<1>2. CASE ServerNext
  BY <1>2, CutSteps, QuietSteps, StatusStep, AckStep, StopDoneStep DEF ServerNext
<1>3. CASE UNCHANGED vars
  <2>1. UNCHANGED <<pStatus, pTask, fate, linkUp, wire, serverUp, lastStatus, lastTask,
                    stop, stopsMade, rows, notified>>
    BY <1>3 DEF vars, printerVars, storeVars, stopVars
  <2>2. TypeOK'
    BY <2>1 DEF IInv, TypeOK
  <2>3. PrinterInv'
    BY <2>1 DEF IInv, PrinterInv
  <2> QED BY <2>1, <2>2, <2>3, UntouchedHistory DEF IInv
<1> QED BY <1>1, <1>2, <1>3 DEF Next

(* The invariant holds throughout: the strengthening the theorems use.     *)
THEOREM Invariance == Spec => []IInv
<1> QED BY InitIInv, NextIInv, PTL DEF Spec

(* The types are right, whatever happens to the link and the process.      *)
THEOREM TypeCorrect == Spec => []TypeOK
<1>1. IInv => TypeOK
  BY DEF IInv
<1> QED BY <1>1, Invariance, PTL

(* No interleaving of frames, restarts and stop requests leaves a task     *)
(* with two open rows (history.ts:102, "an existing open row for this task *)
(* wins").                                                                 *)
THEOREM NoDuplicateOpenRow == Spec => []OneOpenRowPerTask
<1>1. IInv => OneOpenRowPerTask
  BY DEF IInv
<1> QED BY <1>1, Invariance, PTL

(* The history never credits a print with a completion that the printer    *)
(* did not reach.                                                          *)
THEOREM CompletionsAreTrue == Spec => []CompleteIsTrue
<1>1. IInv => CompleteIsTrue
  BY DEF IInv
<1> QED BY <1>1, Invariance, PTL

-----------------------------------------------------------------------------
(* A change of the table that is one of OneStep's is one step of           *)
(* PrintLedger.                                                            *)
LEMMA LedgerStep ==
  ASSUME OneStep(rows, rows')
  PROVE  [Ledger!LedgerNext]_rows
<1>1. ASSUME NEW t \in Tasks, OpenedOnly(rows, rows', t) PROVE Ledger!LedgerNext
  <2>1. Ledger!OpenRow(t)
    BY <1>1 DEF OpenedOnly, Ledger!OpenRow, OpenRowFor, RowsOf, IsOpen,
                Ledger!OpenRowFor, Ledger!RowsOf, Ledger!IsOpen
  <2> QED BY <2>1 DEF Ledger!LedgerNext
<1>2. ASSUME NEW i \in DOMAIN rows, NEW ending \in {"complete", "stopped"},
             SettledOnly(rows, rows', i, ending)
      PROVE  Ledger!LedgerNext
  <2>1. Ledger!SettleRow(i, ending)
    BY <1>2 DEF SettledOnly, Ledger!SettleRow, IsOpen, Ledger!IsOpen,
                Settled, Ledger!Settled, Closed, Ledger!Closed
  <2> QED BY <2>1 DEF Ledger!LedgerNext
<1>3. ASSUME NEW t \in Tasks, NEW ending \in {"complete", "stopped"},
             AddedOnly(rows, rows', t, ending)
      PROVE  Ledger!LedgerNext
  <2>1. Ledger!AddSettledRow(t, ending)
    BY <1>3 DEF AddedOnly, Ledger!AddSettledRow, RowsOf, Ledger!RowsOf
  <2> QED BY <2>1 DEF Ledger!LedgerNext
<1> QED BY <1>1, <1>2, <1>3 DEF OneStep

(* The up to three history calls of one frame come down to one: a frame    *)
(* that starts a print settles none, and after recordFinished has settled  *)
(* its print finishPrint finds nothing open.                               *)
LEMMA RecordedCases ==
  ASSUME IInv, NEW f \in StatusFrame, TrueFrame(f)
  PROVE  \/ /\ Starts(f) /\ ~EndsUnseen(f) /\ ~Finishes(f) /\ f.task \in Tasks
            /\ Recorded(f) = StartPrint(rows, f.task)
         \/ /\ ~Starts(f) /\ EndsUnseen(f) /\ f.task \in Tasks
            /\ SeenOutcome(f) \in {"complete", "stopped"}
            /\ Recorded(f) = RecordFinished(rows, f.task, SeenOutcome(f))
         \/ /\ ~NewTask(f) /\ Finishes(f) /\ f.task \in Tasks
            /\ Recorded(f) = FinishPrint(rows, f.task, "complete")
         \/ ~NewTask(f) /\ ~Finishes(f) /\ Recorded(f) = rows
<1> DEFINE ending == SeenOutcome(f)
           recorded == RecordFinished(rows, f.task, ending)
<1>0. /\ f.task \in TaskIds /\ f.status \in Statuses /\ f.kind = "status"
      /\ rows \in Seq(Row) /\ OneOpen(rows)
  BY DEF StatusFrame, IInv, TypeOK, OneOpenRowPerTask, OneOpen
<1>1. CASE Starts(f)
  <2>1. f.task \in Tasks /\ ~EndsUnseen(f) /\ ~Finishes(f)
    BY <1>0, <1>1 DEF Starts, NewTask, TaskIds, IsTerminal, EndsUnseen, Finishes
  <2>2. Recorded(f) = StartPrint(rows, f.task)
    BY <1>1, <2>1 DEF Recorded
  <2> QED BY <1>1, <2>1, <2>2
<1>2. CASE ~Starts(f) /\ EndsUnseen(f)
  <2>1. f.task \in Tasks /\ ending \in {"complete", "stopped"}
    BY <1>0, <1>2 DEF EndsUnseen, NewTask, TaskIds, SeenOutcome
  <2>2. recorded \in Seq(Row) /\ ~OpenRowFor(recorded, f.task)
    BY <1>0, <2>1, RecordFinishedFacts
  <2>3. FinishPrint(recorded, f.task, "complete") = recorded
    BY <2>1, <2>2, FinishPrintIdle
  <2>4. Recorded(f) = recorded
    BY <1>2, <2>3 DEF Recorded
  <2> QED BY <1>2, <2>1, <2>4
<1>3. CASE ~Starts(f) /\ ~EndsUnseen(f)
  <2>1. ~NewTask(f)
    BY <1>0, <1>3 DEF NewTask, Starts, EndsUnseen, IsTerminal, TrueFrame, Statuses
  <2>2. Recorded(f) = IF Finishes(f) THEN FinishPrint(rows, f.task, "complete") ELSE rows
    BY <1>3 DEF Recorded
  <2>3. Finishes(f) => f.task \in Tasks
    BY <1>0 DEF Finishes, TrueFrame
  <2> QED BY <2>1, <2>2, <2>3
<1> QED BY <1>1, <1>2, <1>3

(* So they change one row between them. *)
LEMMA RecordedOneStep ==
  ASSUME IInv, NEW f \in StatusFrame, TrueFrame(f)
  PROVE  OneStep(rows, Recorded(f))
<1>1. rows \in Seq(Row) /\ OneOpen(rows) /\ f.task \in TaskIds
  BY DEF IInv, TypeOK, OneOpenRowPerTask, OneOpen, StatusFrame
<1>2. CASE f.task \in Tasks /\ Recorded(f) = StartPrint(rows, f.task)
  BY <1>2, StartPrintOneStep
<1>3. CASE /\ f.task \in Tasks /\ SeenOutcome(f) \in {"complete", "stopped"}
           /\ Recorded(f) = RecordFinished(rows, f.task, SeenOutcome(f))
  BY <1>1, <1>3, RecordFinishedOneStep
<1>4. CASE Recorded(f) = FinishPrint(rows, f.task, "complete")
  BY <1>1, <1>4, FinishPrintOneStep
<1>5. CASE Recorded(f) = rows
  BY <1>5 DEF OneStep
<1> QED BY <1>2, <1>3, <1>4, <1>5, RecordedCases

LEMMA NextOneStep ==
  ASSUME IInv, [Next]_vars
  PROVE  OneStep(rows, rows')
<1>0. TypeOK /\ OneOpen(rows)
  BY DEF IInv, OneOpenRowPerTask, OneOpen
<1>1. CASE DeliverStatus
  <2>1. Head(wire) \in StatusFrame /\ TrueFrame(Head(wire))
    BY <1>1, TakeFirst DEF DeliverStatus, AckFrame, printerVars
  <2>2. rows' = Recorded(Head(wire))
    BY <1>1 DEF DeliverStatus, ApplyStatus
  <2> QED BY <2>1, <2>2, RecordedOneStep
<1>2. CASE StopDone
  <2>1. rows' = FinishPrint(rows, lastTask, "stopped")
    BY <1>2 DEF StopDone
  <2> QED BY <1>0, <2>1, FinishPrintOneStep DEF TypeOK
<1>3. CASE UNCHANGED rows
  BY <1>3 DEF OneStep
<1>4. DeliverStatus \/ StopDone \/ UNCHANGED rows
  BY DEF Next, PrinterNext, ServerNext, vars, PrinterStart, PrinterComplete, PrinterStopped,
         PrinterEnd, PrinterBlank, PowerCycle, PrinterPush, PrinterTakesStop, Connect,
         Disconnect, ServerStart, ServerDown, DeliverAck, StopRequest, StopTimeout
<1> QED BY <1>1, <1>2, <1>3, <1>4

(* The history implements PrintLedger: rows are only added, are settled    *)
(* once, and a row is opened only for a task that has none open.           *)
THEOREM LedgerImplemented == Spec => ImplementsLedger
<1>1. Init => Ledger!LedgerInit
  BY DEF Init, Ledger!LedgerInit
<1>2. IInv /\ [Next]_vars => [Ledger!LedgerNext]_rows
  BY NextOneStep, LedgerStep
<1> QED BY <1>1, <1>2, Invariance, PTL DEF Spec, ImplementsLedger, Ledger!LedgerSpec

-----------------------------------------------------------------------------
(* What TrackingIsRight needs besides IInv.  A print that has a row, is on *)
(* the printer or is reported on the wire has been started, and none is    *)
(* reported stopped while it runs.                                         *)
Known(t) == fate[t] # "unused"

StopIsTrue(status, t) == status = "Stopped" => fate[t] # "running"

KnownInv ==
  /\ \A i \in DOMAIN rows : Known(rows[i].task)
  /\ pTask \in Tasks => Known(pTask) /\ StopIsTrue(pStatus, pTask)
  /\ \A k \in DOMAIN wire :
       wire[k].kind = "status" /\ wire[k].task \in Tasks =>
         Known(wire[k].task) /\ StopIsTrue(wire[k].status, wire[k].task)

(* A stop that has got anywhere is one of those that were made. *)
StopsCounted == stop # "none" => stopsMade > 0

(* A message that reports t complete, and one that reports anything else.  *)
Completes(m, t) == m.kind = "status" /\ m.status = "Complete" /\ m.task = t
Differs(m, t) == m.kind = "status" /\ ~Completes(m, t)

(* A report of t's completion comes before message k, or has been handled. *)
CompletedBefore(t, k) ==
  notified[t] > 0 \/ \E j \in DOMAIN wire : j < k /\ Completes(wire[j], t)

(* Another one is behind message k, or the printer would still send one.   *)
CompletesAfter(t, k) ==
  \/ pStatus = "Complete" /\ pTask = t
  \/ \E j \in DOMAIN wire : k < j /\ Completes(wire[j], t)

(* The reports of a completion are consecutive, and a print is not seen    *)
(* printing after one: the wire keeps the order the printer speaks in.     *)
OrderInv ==
  \A t \in Tasks, k \in DOMAIN wire : CompletedBefore(t, k) =>
    /\ Differs(wire[k], t) => ~CompletesAfter(t, k)
    /\ ~(wire[k].kind = "status" /\ wire[k].status = "Printing" /\ wire[k].task = t)

(* A print the phone has buzzed for is complete, and once this process has *)
(* gone on to another report no completion of it is still to come.         *)
NotifiedInv ==
  \A t \in Tasks : notified[t] > 0 =>
    /\ fate[t] = "complete"
    /\ lastStatus # Unknown /\ ~(lastStatus = "Complete" /\ lastTask = t)
         => ~CompletesAfter(t, 0)

TInv ==
  /\ KnownInv
  /\ StopsCounted
  /\ OrderInv
  /\ NotifiedInv
  /\ RunningSettledByStopOnly
  /\ NotifiedAtMostOnce
  /\ NotifiedIsSettled
  /\ ShownPrintIsRecorded

LEMMA InitTInv == Init => TInv
BY NoTaskAssumption
   DEF Init, TInv, KnownInv, StopsCounted, OrderInv, NotifiedInv, RunningSettledByStopOnly,
       NotifiedAtMostOnce, NotifiedIsSettled, ShownPrintIsRecorded

(* A print whose completion is on the wire or handled is complete. *)
LEMMA CompletedFacts ==
  ASSUME IInv, TInv, NEW t \in Tasks, NEW k, CompletedBefore(t, k)
  PROVE  fate[t] = "complete"
BY DEF IInv, WireInv, TrueFrame, TInv, NotifiedInv, CompletedBefore, Completes

(* A step that leaves the history, the wire and the store alone: it may    *)
(* start prints and end them, but completes only what was not complete.    *)
LEMMA QuietTracking ==
  ASSUME IInv, TInv, UNCHANGED <<wire, rows, notified, lastStatus, lastTask>>,
         StopsCounted', stopsMade \in Nat, stopsMade' \in Nat, stopsMade' >= stopsMade,
         pTask' \in Tasks => Known(pTask)' /\ StopIsTrue(pStatus, pTask)',
         \A t \in Tasks :
           /\ Known(t) => Known(t)'
           /\ fate[t] = "complete" => fate'[t] = "complete"
           /\ fate'[t] = "running" /\ Known(t) => fate[t] = "running"
           /\ pStatus' = "Complete" /\ pTask' = t =>
                (pStatus = "Complete" /\ pTask = t) \/ fate[t] # "complete"
  PROVE  TInv'
<1>1. KnownInv'
  BY DEF IInv, RowTasksInv, TInv, KnownInv, Known, StopIsTrue
<1>2. ASSUME NEW t \in Tasks, NEW k, fate[t] = "complete", CompletesAfter(t, k)'
      PROVE  CompletesAfter(t, k)
  BY <1>2 DEF CompletesAfter, Completes
<1>3. OrderInv'
  <2> SUFFICES ASSUME NEW t \in Tasks, NEW k \in DOMAIN wire, CompletedBefore(t, k)
               PROVE  /\ Differs(wire[k], t) => ~CompletesAfter(t, k)'
                      /\ ~(wire[k].kind = "status" /\ wire[k].status = "Printing"
                             /\ wire[k].task = t)
    BY DEF OrderInv, CompletedBefore, Completes, Differs
  <2> QED BY <1>2, CompletedFacts DEF TInv, OrderInv
<1>4. NotifiedInv'
  BY <1>2 DEF TInv, NotifiedInv
<1>5. RunningSettledByStopOnly'
  <2> SUFFICES ASSUME NEW i \in DOMAIN rows, fate'[rows[i].task] = "running"
               PROVE  \/ IsOpen(rows[i])
                      \/ stopsMade' > 0 /\ rows[i].outcome = "stopped" /\ rows[i].finished
    BY DEF RunningSettledByStopOnly
  <2>1. rows[i].task \in Tasks /\ Known(rows[i].task)
    BY DEF IInv, RowTasksInv, TInv, KnownInv
  <2> QED BY <2>1 DEF TInv, RunningSettledByStopOnly
<1>6. NotifiedAtMostOnce' /\ NotifiedIsSettled' /\ ShownPrintIsRecorded'
  BY DEF TInv, NotifiedAtMostOnce, NotifiedIsSettled, ShownPrintIsRecorded
<1> QED BY <1>1, <1>3, <1>4, <1>5, <1>6 DEF TInv

(* The printer's own steps, and those of the link, the process and the     *)
(* stop route that touch neither wire nor history.                         *)
LEMMA QuietTrackingSteps ==
  ASSUME IInv, TInv,
         (\E t \in Tasks : PrinterStart(t)) \/ PrinterComplete \/ PrinterStopped \/ PrinterBlank
           \/ Connect \/ ServerStart \/ StopRequest \/ StopTimeout
  PROVE  TInv'
<1>0. TypeOK /\ PrinterInv /\ KnownInv /\ StopsCounted /\ stopsMade \in Nat
  BY DEF IInv, TInv, TypeOK
<1>1. ASSUME NEW t \in Tasks, PrinterStart(t) PROVE TInv'
  <2>1. UNCHANGED <<wire, rows, notified, lastStatus, lastTask, stopsMade, stop>>
    BY <1>1 DEF PrinterStart, storeVars, stopVars
  <2>2. /\ \A u \in Tasks : fate'[u] = IF u = t THEN "running" ELSE fate[u]
        /\ pTask' = t /\ pStatus' = "Printing" /\ fate[t] = "unused"
    BY <1>0, <1>1 DEF PrinterStart, TypeOK
  <2> QED BY <1>0, <2>1, <2>2, QuietTracking DEF Known, StopIsTrue, StopsCounted
<1>2. ASSUME NEW status \in {"Complete", "Stopped"}, NEW ending \in {"complete", "stopped"},
             PrinterEnd(status, ending)
      PROVE  TInv'
  <2>1. UNCHANGED <<wire, rows, notified, lastStatus, lastTask, stopsMade, stop>>
    BY <1>2 DEF PrinterEnd, storeVars, stopVars
  <2>2. /\ pTask \in Tasks /\ fate[pTask] \in {"running", "stopping"}
        /\ \A u \in Tasks : fate'[u] = IF u = pTask THEN ending ELSE fate[u]
        /\ pTask' = pTask
    BY <1>0, <1>2 DEF PrinterEnd, TypeOK, PrinterInv
  <2> QED BY <1>0, <2>1, <2>2, QuietTracking DEF Known, StopIsTrue, StopsCounted
<1>3. CASE PrinterBlank
  <2>1. UNCHANGED <<wire, rows, notified, lastStatus, lastTask, stopsMade, stop, fate>>
    BY <1>3 DEF PrinterBlank, storeVars, stopVars
  <2>2. pTask' \notin Tasks
    BY <1>3, NoTaskAssumption DEF PrinterBlank
  <2> QED BY <1>0, <2>1, <2>2, QuietTracking DEF Known, StopIsTrue, StopsCounted
<1>4. CASE Connect \/ ServerStart \/ StopRequest \/ StopTimeout
  <2>1. UNCHANGED <<wire, rows, notified, lastStatus, lastTask, fate, pStatus, pTask>>
    BY <1>4 DEF Connect, ServerStart, StopRequest, StopTimeout, storeVars, printerVars
  <2>2. StopsCounted' /\ stopsMade' \in Nat /\ stopsMade' >= stopsMade
    BY <1>0, <1>4 DEF Connect, ServerStart, StopRequest, StopTimeout, stopVars, StopsCounted
  <2> QED BY <1>0, <2>1, <2>2, QuietTracking DEF KnownInv, Known, StopIsTrue
<1> QED BY <1>1, <1>2, <1>3, <1>4 DEF PrinterComplete, PrinterStopped

(* Cutting the link loses what was in flight, and with the process goes    *)
(* what it had seen.                                                       *)
LEMMA CutTrackingSteps ==
  ASSUME IInv, TInv, PowerCycle \/ Disconnect \/ ServerDown
  PROVE  TInv'
<1>0. TypeOK /\ PrinterInv /\ stopsMade \in Nat
  BY DEF IInv, TypeOK
<1>1. /\ UNCHANGED <<rows, notified, stopsMade>> /\ wire' = <<>>
      /\ (UNCHANGED <<lastStatus, lastTask>> \/ (lastStatus' = Unknown /\ lastTask' = NoTask))
      /\ (UNCHANGED <<pStatus, pTask>> \/ (pStatus' = "Idle" /\ pTask' = NoTask))
      /\ stop' # "none" => stop # "none"
  BY DEF PowerCycle, Disconnect, ServerDown, storeVars, printerVars, Unanswered
<1>2. \A t \in Tasks : fate'[t] = fate[t] \/ (fate[t] \in {"running", "stopping"} /\ fate'[t] = "lost")
  BY <1>0 DEF PowerCycle, Disconnect, ServerDown, printerVars, PrinterInv, TypeOK
<1>3. KnownInv'
  BY <1>1, <1>2, NoTaskAssumption DEF IInv, RowTasksInv, TInv, KnownInv, Known, StopIsTrue
<1>4. StopsCounted' /\ OrderInv'
  BY <1>1 DEF TInv, StopsCounted, OrderInv
<1>5. NotifiedInv'
  <2>1. \A t \in Tasks : CompletesAfter(t, 0)' => CompletesAfter(t, 0)
    BY <1>1 DEF CompletesAfter
  <2> QED BY <1>1, <1>2, <2>1 DEF TInv, NotifiedInv
<1>6. RunningSettledByStopOnly'
  BY <1>1, <1>2 DEF IInv, RowTasksInv, TInv, RunningSettledByStopOnly
<1>7. NotifiedAtMostOnce' /\ NotifiedIsSettled' /\ ShownPrintIsRecorded'
  BY <1>1 DEF TInv, NotifiedAtMostOnce, NotifiedIsSettled, ShownPrintIsRecorded
<1> QED BY <1>3, <1>4, <1>5, <1>6, <1>7 DEF TInv

(* The printer puts a message at the end of the wire: its own state, or an *)
(* answer.                                                                 *)
LEMMA SendTrackingSteps ==
  ASSUME IInv, TInv, PrinterPush \/ PrinterTakesStop
  PROVE  TInv'
<1> DEFINE Message == StatusFrame \union AckFrame
<1>0. TypeOK /\ PrinterInv /\ KnownInv /\ wire \in Seq(Message)
  BY DEF IInv, TInv, TypeOK
<1>1. /\ UNCHANGED <<pTask, lastStatus, lastTask, stopsMade, rows, notified>>
      /\ stop' # "none" => stop # "none"
      /\ \A t \in Tasks : /\ fate'[t] = fate[t] \/ (fate[t] \in {"running", "stopping"}
                                                      /\ fate'[t] = "stopping")
                          /\ pStatus' = "Complete" => pStatus = "Complete"
                          /\ pStatus' = "Stopped" /\ pTask = t => fate'[t] # "running"
  <2>1. CASE PrinterPush
    BY <1>0, <2>1, NoTaskAssumption
    DEF PrinterPush, printerVars, storeVars, stopVars, KnownInv, StopIsTrue
  <2>2. CASE PrinterTakesStop
    BY <1>0, <2>2, NoTaskAssumption
    DEF PrinterTakesStop, storeVars, PrinterInv, TypeOK, Statuses, KnownInv, StopIsTrue
  <2> QED BY <2>1, <2>2
<1>2. \E m \in Message :
        /\ wire' = Append(wire, m)
        /\ m.kind = "status" => /\ m.status = pStatus /\ m.task = pTask
                                /\ UNCHANGED <<fate, pStatus>>
  <2>1. CASE PrinterPush
    <3> DEFINE m == [kind |-> "status", status |-> pStatus, task |-> pTask]
    <3>1. m \in StatusFrame
      BY <1>0 DEF TypeOK, StatusFrame
    <3> QED BY <2>1, <3>1 DEF PrinterPush, printerVars
  <2>2. CASE PrinterTakesStop
    <3> DEFINE m == [kind |-> "ack", request |-> stopsMade]
    <3>1. m \in AckFrame
      BY <1>0 DEF TypeOK, AckFrame
    <3> QED BY <2>2, <3>1 DEF PrinterTakesStop
  <2> QED BY <2>1, <2>2
<1>3. PICK m \in Message :
        /\ wire' = Append(wire, m)
        /\ m.kind = "status" => /\ m.status = pStatus /\ m.task = pTask
                                /\ UNCHANGED <<fate, pStatus>>
  BY <1>2
<1> HIDE DEF Message
<1>4. /\ DOMAIN wire = 1..Len(wire) /\ Len(wire) \in Nat
      /\ DOMAIN wire' = 1..(Len(wire) + 1)
      /\ \A k \in DOMAIN wire : wire'[k] = wire[k]
      /\ wire'[Len(wire) + 1] = m
  BY <1>0, <1>3
<1>5. ASSUME NEW t \in Tasks
      PROVE  Known(t) => Known(t)'
  BY <1>1 DEF Known
<1>6. KnownInv'
  <2>1. ASSUME NEW k \in DOMAIN wire', wire'[k].kind = "status", wire'[k].task \in Tasks
        PROVE  Known(wire[k].task)' /\ StopIsTrue(wire[k].status, wire[k].task)'
    <3>1. CASE k \in DOMAIN wire
      BY <1>0, <1>1, <1>4, <2>1, <3>1 DEF KnownInv, Known, StopIsTrue
    <3>2. CASE k = Len(wire) + 1
      BY <1>0, <1>1, <1>3, <1>4, <2>1, <3>2 DEF KnownInv, Known, StopIsTrue
    <3> QED BY <1>4, <3>1, <3>2
  <2>2. \A i \in DOMAIN rows : Known(rows[i].task)'
    BY <1>0, <1>1, <1>5 DEF KnownInv, IInv, RowTasksInv
  <2>3. pTask' \in Tasks => Known(pTask)' /\ StopIsTrue(pStatus, pTask)'
    BY <1>0, <1>1, <1>5 DEF KnownInv, StopIsTrue, Known
  <2> QED BY <1>1, <2>1, <2>2, <2>3 DEF KnownInv
<1>7. ASSUME NEW t \in Tasks, NEW k \in Nat, CompletesAfter(t, k)', k <= Len(wire)
      PROVE  CompletesAfter(t, k)
  BY <1>1, <1>3, <1>4, <1>7 DEF CompletesAfter, Completes
<1>8. OrderInv'
  <2> SUFFICES ASSUME NEW t \in Tasks, NEW k \in DOMAIN wire', CompletedBefore(t, k)'
               PROVE  /\ Differs(wire'[k], t) => ~CompletesAfter(t, k)'
                      /\ ~(wire'[k].kind = "status" /\ wire'[k].status = "Printing"
                             /\ wire'[k].task = t)
    BY DEF OrderInv, Differs, Completes
  <2>1. CompletedBefore(t, k) /\ k \in Nat
    BY <1>1, <1>4 DEF CompletedBefore
  <2>2. CASE k \in DOMAIN wire
    BY <1>4, <1>7, <2>1, <2>2 DEF TInv, OrderInv
  <2>3. CASE k = Len(wire) + 1
    <3>1. fate[t] = "complete"
      BY <2>1, CompletedFacts
    <3>2. Differs(m, t) => ~CompletesAfter(t, k)'
      BY <1>1, <1>3, <1>4, <2>3 DEF CompletesAfter, Differs, Completes
    <3>3. ~(m.kind = "status" /\ m.status = "Printing" /\ m.task = t)
      BY <1>0, <1>3, <3>1 DEF PrinterInv
    <3> QED BY <1>4, <2>3, <3>2, <3>3
  <2> QED BY <1>4, <2>2, <2>3
<1>9. NotifiedInv'
  BY <1>1, <1>4, <1>7 DEF TInv, NotifiedInv
<1>10. RunningSettledByStopOnly'
  BY <1>1 DEF IInv, RowTasksInv, TInv, RunningSettledByStopOnly
<1>11. StopsCounted' /\ NotifiedAtMostOnce' /\ NotifiedIsSettled' /\ ShownPrintIsRecorded'
  BY <1>1 DEF TInv, StopsCounted, NotifiedAtMostOnce, NotifiedIsSettled, ShownPrintIsRecorded
<1> QED BY <1>6, <1>8, <1>9, <1>10, <1>11 DEF TInv

(* The server takes the first message off the wire: what is said of the    *)
(* others moves up by one.                                                 *)
LEMMA TakenTracking ==
  ASSUME IInv, TInv, wire # <<>>, wire' = Tail(wire), UNCHANGED <<fate, pStatus, pTask>>,
         \A t \in Tasks : notified'[t] > 0 => CompletedBefore(t, 2)
  PROVE  /\ OrderInv'
         /\ \A t \in Tasks, k \in Nat : CompletesAfter(t, k)' => CompletesAfter(t, k + 1)
         /\ \A k \in DOMAIN wire' :
              wire'[k].kind = "status" /\ wire'[k].task \in Tasks =>
                Known(wire'[k].task) /\ StopIsTrue(wire'[k].status, wire'[k].task)
<1> DEFINE Message == StatusFrame \union AckFrame
<1>1. wire \in Seq(Message)
  BY DEF IInv, TypeOK
<1> HIDE DEF Message
<1>2. /\ DOMAIN wire' \subseteq Nat \ {0} /\ DOMAIN wire \subseteq Nat \ {0}
      /\ \A k \in DOMAIN wire' : k + 1 \in DOMAIN wire /\ wire'[k] = wire[k + 1]
  BY <1>1
<1>3. \A t \in Tasks, k \in Nat : CompletesAfter(t, k)' => CompletesAfter(t, k + 1)
  BY <1>2 DEF CompletesAfter, Completes
<1>4. ASSUME NEW t \in Tasks, NEW k \in DOMAIN wire', CompletedBefore(t, k)'
      PROVE  CompletedBefore(t, k + 1)
  <2>1. CASE notified'[t] > 0
    BY <1>2, <2>1 DEF CompletedBefore
  <2>2. CASE \E j \in DOMAIN wire' : j < k /\ Completes(wire[j], t)'
    BY <1>2, <2>2 DEF CompletedBefore, Completes
  <2> QED BY <1>4, <2>1, <2>2 DEF CompletedBefore
<1>5. OrderInv'
  <2> SUFFICES ASSUME NEW t \in Tasks, NEW k \in DOMAIN wire', CompletedBefore(t, k)'
               PROVE  /\ Differs(wire[k], t)' => ~CompletesAfter(t, k)'
                      /\ ~(wire'[k].kind = "status" /\ wire'[k].status = "Printing"
                             /\ wire'[k].task = t)
    BY DEF OrderInv
  <2>1. CompletedBefore(t, k + 1) /\ k + 1 \in DOMAIN wire /\ wire'[k] = wire[k + 1]
    BY <1>2, <1>4
  <2>2. CompletesAfter(t, k)' => CompletesAfter(t, k + 1)
    BY <1>2, <1>3
  <2>3. Differs(wire[k], t)' => Differs(wire[k + 1], t)
    BY <2>1 DEF Differs, Completes
  <2> QED BY <2>1, <2>2, <2>3 DEF TInv, OrderInv
<1> QED BY <1>2, <1>3, <1>5 DEF TInv, KnownInv

LEMMA AckTracking ==
  ASSUME IInv, TInv, DeliverAck
  PROVE  TInv'
<1>1. /\ wire # <<>> /\ wire' = Tail(wire)
      /\ UNCHANGED <<fate, pStatus, pTask, lastStatus, lastTask, rows, notified, stopsMade>>
      /\ stop' # "none" => stop # "none"
  BY DEF DeliverAck, printerVars, storeVars
<1>2. \A t \in Tasks : notified'[t] > 0 => CompletedBefore(t, 2)
  BY <1>1 DEF CompletedBefore
<1>3. /\ OrderInv'
      /\ \A t \in Tasks, k \in Nat : CompletesAfter(t, k)' => CompletesAfter(t, k + 1)
      /\ \A k \in DOMAIN wire' :
           wire'[k].kind = "status" /\ wire'[k].task \in Tasks =>
             Known(wire'[k].task) /\ StopIsTrue(wire'[k].status, wire'[k].task)
  BY <1>1, <1>2, TakenTracking
<1>4. KnownInv'
  BY <1>1, <1>3 DEF TInv, KnownInv, Known, StopIsTrue
<1>5. NotifiedInv'
  <2>1. \A t \in Tasks : CompletesAfter(t, 1) => CompletesAfter(t, 0)
    BY DEF CompletesAfter, IInv, TypeOK
  <2> QED BY <1>1, <1>3, <2>1 DEF TInv, NotifiedInv
<1>6. StopsCounted' /\ RunningSettledByStopOnly' /\ NotifiedAtMostOnce'
        /\ NotifiedIsSettled' /\ ShownPrintIsRecorded'
  BY <1>1 DEF TInv, StopsCounted, RunningSettledByStopOnly, NotifiedAtMostOnce,
              NotifiedIsSettled, ShownPrintIsRecorded
<1> QED BY <1>3, <1>4, <1>5, <1>6 DEF TInv

(* What the history calls of a frame do to the table. *)
LEMMA RecordedTouches ==
  ASSUME IInv, NEW f \in StatusFrame, TrueFrame(f)
  PROVE  /\ Recorded(f) = rows \/ (f.task \in Tasks /\ TouchesOnly(rows, Recorded(f), f.task))
         /\ NewTask(f) => RowsOf(Recorded(f), f.task) # {}
         /\ Finishes(f) => ~OpenRowFor(Recorded(f), f.task)
         /\ ~Starts(f) /\ OpenRowFor(Recorded(f), f.task) => OpenRowFor(rows, f.task)
<1>1. rows \in Seq(Row) /\ f.task \in TaskIds
  BY DEF IInv, TypeOK, StatusFrame
<1>2. CASE Starts(f)
  <2>1. f.task \in Tasks /\ ~Finishes(f) /\ Recorded(f) = StartPrint(rows, f.task)
    BY <1>2, RecordedCases DEF Starts
  <2> QED BY <1>1, <1>2, <2>1, StartPrintTouches
<1>3. CASE EndsUnseen(f)
  <2>1. /\ f.task \in Tasks /\ SeenOutcome(f) \in {"complete", "stopped"}
        /\ Recorded(f) = RecordFinished(rows, f.task, SeenOutcome(f))
    BY <1>3, RecordedCases DEF EndsUnseen
  <2> QED BY <1>1, <2>1, RecordFinishedTouches, RecordFinishedFacts
<1>4. CASE ~NewTask(f) /\ Finishes(f)
  <2>1. f.task \in Tasks /\ Recorded(f) = FinishPrint(rows, f.task, "complete")
    BY <1>4, RecordedCases DEF Starts, EndsUnseen
  <2>2. f.task # NoTask
    BY <2>1, NoTaskAssumption
  <2> QED BY <1>1, <1>4, <2>1, <2>2, FinishPrintTouches, FinishPrintFacts
<1>5. CASE ~NewTask(f) /\ ~Finishes(f)
  BY <1>5, RecordedCases DEF Starts, EndsUnseen
<1> QED BY <1>2, <1>3, <1>4, <1>5, RecordedCases

LEMMA StatusTracking ==
  ASSUME IInv, TInv, DeliverStatus
  PROVE  TInv'
<1> DEFINE f == Head(wire)
<1>0. TypeOK /\ rows \in Seq(Row)
  BY DEF IInv, TypeOK
<1>1. /\ wire # <<>> /\ wire' = Tail(wire) /\ f.kind = "status"
      /\ UNCHANGED <<pStatus, pTask, fate, stop, stopsMade>>
      /\ lastStatus' = f.status /\ lastTask' = f.task /\ rows' = Recorded(f)
      /\ \A t \in Tasks : notified'[t] = IF Finishes(f) /\ f.task = t THEN notified[t] + 1
                                         ELSE notified[t]
  BY <1>0 DEF DeliverStatus, ApplyStatus, printerVars, stopVars, TypeOK
<1>2. f \in StatusFrame /\ TrueFrame(f)
  BY <1>1, TakeFirst DEF AckFrame
<1>3. 1 \in DOMAIN wire /\ f = wire[1]
  BY <1>0, <1>1 DEF TypeOK
<1> HIDE DEF f
<1>4. f.task \in TaskIds /\ f.status \in Statuses /\ (f.status = "Complete" => f.task \in Tasks)
  BY <1>1, <1>2 DEF StatusFrame, TrueFrame
<1>5. \A t \in Tasks : notified[t] \in Nat
  BY <1>0 DEF TypeOK
(* A print it has notified of before is not reported complete afresh. *)
<1>6. ASSUME NEW t \in Tasks, Finishes(f), f.task = t PROVE notified[t] = 0
  <2> SUFFICES ASSUME notified[t] > 0 PROVE FALSE
    BY <1>5
  <2>1. Completes(wire[1], t)
    BY <1>1, <1>3, <1>6 DEF Completes, Finishes
  <2>2. CompletesAfter(t, 0)
    BY <1>3, <2>1 DEF CompletesAfter
  <2> QED BY <1>6, <2>2 DEF TInv, NotifiedInv, Finishes
<1>7. \A t \in Tasks : notified'[t] > 0 =>
        CompletedBefore(t, 2) /\ (CompletedBefore(t, 1) \/ (Finishes(f) /\ f.task = t))
  <2> SUFFICES ASSUME NEW t \in Tasks, notified'[t] > 0
               PROVE  CompletedBefore(t, 2) /\ (CompletedBefore(t, 1) \/ (Finishes(f) /\ f.task = t))
    OBVIOUS
  <2>1. CASE Finishes(f) /\ f.task = t
    BY <1>1, <1>3, <2>1 DEF CompletedBefore, Completes, Finishes
  <2>2. CASE ~(Finishes(f) /\ f.task = t)
    BY <1>1, <2>2 DEF CompletedBefore
  <2> QED BY <2>1, <2>2
<1>8. /\ OrderInv'
      /\ \A t \in Tasks, k \in Nat : CompletesAfter(t, k)' => CompletesAfter(t, k + 1)
      /\ \A k \in DOMAIN wire' :
           wire'[k].kind = "status" /\ wire'[k].task \in Tasks =>
             Known(wire'[k].task) /\ StopIsTrue(wire'[k].status, wire'[k].task)
  BY <1>1, <1>7, TakenTracking
<1>9. /\ rows' = rows \/ (f.task \in Tasks /\ TouchesOnly(rows, rows', f.task))
      /\ NewTask(f) => RowsOf(rows', f.task) # {}
      /\ Finishes(f) => ~OpenRowFor(rows', f.task)
      /\ ~Starts(f) /\ OpenRowFor(rows', f.task) => OpenRowFor(rows, f.task)
  BY <1>1, <1>2, RecordedTouches
<1>10. \A u : /\ RowsOf(rows, u) # {} => RowsOf(rows', u) # {}
              /\ OpenRowFor(rows', u) => OpenRowFor(rows, u) \/ u = f.task
  BY <1>9, TouchedFacts
<1>11. KnownInv'
  <2>1. f.task \in Tasks => Known(f.task)
    BY <1>1, <1>3 DEF TInv, KnownInv
  <2>2. \A i \in DOMAIN rows : Known(rows[i].task)
    BY DEF TInv, KnownInv
  <2>3. \A i \in DOMAIN rows' : Known(rows'[i].task)
    BY <1>9, <2>1, <2>2 DEF TouchesOnly
  <2> QED BY <1>1, <1>8, <2>3 DEF TInv, KnownInv, Known, StopIsTrue
<1>12. NotifiedInv'
  <2> SUFFICES ASSUME NEW t \in Tasks, notified'[t] > 0
               PROVE  /\ fate[t] = "complete"
                      /\ ~(f.status = "Complete" /\ f.task = t) => ~CompletesAfter(t, 0)'
    BY <1>1 DEF NotifiedInv
  <2>1. fate[t] = "complete"
    BY <1>7, CompletedFacts
  <2>2. CASE ~(f.status = "Complete" /\ f.task = t)
    <3>1. CompletedBefore(t, 1)
      BY <1>7, <2>2 DEF Finishes
    <3>2. Differs(wire[1], t)
      BY <1>1, <1>3, <2>2 DEF Differs, Completes
    <3>3. ~CompletesAfter(t, 1)
      BY <1>3, <3>1, <3>2 DEF TInv, OrderInv
    <3> QED BY <1>8, <2>1, <3>3
  <2> QED BY <2>1, <2>2
<1>13. RunningSettledByStopOnly'
  <2> SUFFICES ASSUME NEW i \in DOMAIN rows', fate[rows'[i].task] = "running"
               PROVE  \/ IsOpen(rows'[i])
                      \/ stopsMade > 0 /\ rows'[i].outcome = "stopped" /\ rows'[i].finished
    BY <1>1 DEF RunningSettledByStopOnly
  <2>1. CASE i \in DOMAIN rows /\ rows'[i] = rows[i]
    BY <2>1 DEF TInv, RunningSettledByStopOnly
  <2>2. CASE ~(i \in DOMAIN rows /\ rows'[i] = rows[i])
    <3>1. rows'[i].task = f.task /\ f.task \in Tasks
      BY <1>9, <2>2 DEF TouchesOnly
    <3>2. f.status = "Printing"
      BY <1>1, <1>2, <1>3, <1>4, <3>1, NoTaskAssumption
      DEF Statuses, TrueFrame, TInv, KnownInv, StopIsTrue
    <3>3. rows' = StartPrint(rows, f.task)
      BY <1>1, <1>2, <2>2, <3>2, RecordedCases DEF Finishes, EndsUnseen
    <3> QED BY <1>0, <2>2, <3>1, <3>3, StartPrintFacts
  <2> QED BY <2>1, <2>2
<1>14. NotifiedAtMostOnce'
  BY <1>1, <1>5, <1>6 DEF TInv, NotifiedAtMostOnce
<1>15. ShownPrintIsRecorded'
  BY <1>1, <1>9, <1>10 DEF TInv, ShownPrintIsRecorded, NewTask
<1>16. NotifiedIsSettled'
  <2> SUFFICES ASSUME NEW t \in Tasks, notified'[t] > 0
               PROVE  RowsOf(rows', t) # {} /\ ~OpenRowFor(rows', t)
    BY DEF NotifiedIsSettled
  <2>1. CASE Finishes(f) /\ f.task = t
    BY <1>9, <1>15, <1>1, <2>1, NoTaskAssumption DEF ShownPrintIsRecorded
  <2>2. CASE ~(Finishes(f) /\ f.task = t)
    <3>1. notified[t] > 0 /\ RowsOf(rows, t) # {} /\ ~OpenRowFor(rows, t)
      BY <1>1, <2>2 DEF TInv, NotifiedIsSettled
    <3>2. f.task = t => ~Starts(f)
      <4>1. CompletedBefore(t, 1)
        BY <3>1 DEF CompletedBefore
      <4> QED BY <1>1, <1>3, <1>4, <4>1 DEF TInv, OrderInv, Starts, IsTerminal, Statuses
    <3> QED BY <1>9, <1>10, <3>1, <3>2
  <2> QED BY <2>1, <2>2
<1>17. StopsCounted'
  BY <1>1 DEF TInv, StopsCounted
<1> QED BY <1>8, <1>11, <1>12, <1>13, <1>14, <1>15, <1>16, <1>17 DEF TInv

(* The stop route settles the row of the print the store shows by then. *)
LEMMA StopDoneTracking ==
  ASSUME IInv, TInv, StopDone
  PROVE  TInv'
<1>1. /\ rows' = FinishPrint(rows, lastTask, "stopped") /\ stop = "acked" /\ stop' = "none"
      /\ UNCHANGED <<pStatus, pTask, fate, wire, lastStatus, lastTask, stopsMade, notified>>
  BY DEF StopDone, printerVars, storeVars
<1>2. rows \in Seq(Row) /\ lastTask \in TaskIds /\ stopsMade > 0
  BY <1>1 DEF IInv, TypeOK, TInv, StopsCounted
<1>3. /\ DOMAIN rows' = DOMAIN rows
      /\ \A i \in DOMAIN rows : rows'[i] = rows[i] \/ rows'[i] = Closed(rows[i], "stopped")
  BY <1>1, <1>2, FinishPrintFacts
<1>4. \A i \in DOMAIN rows :
        /\ rows'[i].task = rows[i].task
        /\ rows'[i] = rows[i] \/ (rows'[i].outcome = "stopped" /\ rows'[i].finished)
  BY <1>3 DEF Closed
<1>5. KnownInv' /\ RunningSettledByStopOnly'
  BY <1>1, <1>2, <1>3, <1>4
  DEF TInv, KnownInv, Known, StopIsTrue, RunningSettledByStopOnly
<1>6. NotifiedIsSettled' /\ ShownPrintIsRecorded'
  <2>1. \A u : /\ RowsOf(rows, u) # {} => RowsOf(rows', u) # {}
               /\ OpenRowFor(rows', u) => OpenRowFor(rows, u)
    BY <1>3, <1>4 DEF RowsOf, OpenRowFor, IsOpen
  <2> QED BY <1>1, <2>1 DEF TInv, NotifiedIsSettled, ShownPrintIsRecorded
<1>7. OrderInv'
  BY <1>1 DEF TInv, OrderInv, CompletedBefore, CompletesAfter, Completes, Differs
<1>8. NotifiedInv' /\ StopsCounted' /\ NotifiedAtMostOnce'
  BY <1>1 DEF TInv, NotifiedInv, CompletesAfter, Completes, StopsCounted, NotifiedAtMostOnce
<1> QED BY <1>5, <1>6, <1>7, <1>8 DEF TInv

LEMMA NextTInv == IInv /\ TInv /\ [Next]_vars => TInv'
<1> SUFFICES ASSUME IInv, TInv, [Next]_vars PROVE TInv'
  OBVIOUS
<1>1. CASE PrinterNext
  BY <1>1, QuietTrackingSteps, CutTrackingSteps, SendTrackingSteps DEF PrinterNext
<1>2. CASE ServerNext
  BY <1>2, QuietTrackingSteps, CutTrackingSteps, StatusTracking, AckTracking, StopDoneTracking
  DEF ServerNext
<1>3. CASE UNCHANGED vars
  <2>1. UNCHANGED <<pStatus, pTask, fate, wire, lastStatus, lastTask, stop, stopsMade,
                    rows, notified>>
    BY <1>3 DEF vars, printerVars, storeVars, stopVars
  <2>2. stopsMade \in Nat
    BY DEF IInv, TypeOK
  <2> QED BY <2>1, <2>2, QuietTracking DEF TInv, StopsCounted, KnownInv, Known, StopIsTrue
<1> QED BY <1>1, <1>2, <1>3 DEF Next

(* Whatever is lost, delayed or restarted: no frame settles a print that   *)
(* runs, the phone buzzes at most once for a print, and then its history   *)
(* is settled, and the print the server shows has a row.                   *)
THEOREM TrackingCorrect == Spec => []TrackingIsRight
<1>1. TInv => TrackingIsRight
  BY DEF TInv, TrackingIsRight
<1> QED BY <1>1, InitTInv, NextTInv, Invariance, PTL DEF Spec

-----------------------------------------------------------------------------
(***************************************************************************)
(* The same with the history in Postgres, where the statements of several  *)
(* calls overlap: no statement inserts a second row, and the table still   *)
(* implements PrintLedger, with at most one open row for a task and no     *)
(* completion the printer did not reach.                                   *)
(***************************************************************************)

(* A call that may insert a row. *)
MayInsert(call) == call.op # "finish"

(* How far each function may have got, and with what: finishPrint is one   *)
(* UPDATE; only recordFinished settles or looks up; and no call says       *)
(* complete of a print that is not.                                        *)
CallIsLegal(call, done) ==
  /\ call.op = "start" =>
       call.outcome = "printing" /\ call.at \in {"check", "checked", "insert"}
  /\ call.op = "record" => call.outcome # "printing" /\ call.at # "update"
  /\ call.op = "finish" => call.outcome # "printing" /\ call.at = "update"
  /\ MayInsert(call) => call.task \in Tasks
  /\ call.outcome = "complete" => call.task \in done

(* The answers a call goes by are still true when it goes by them. *)
AnswerIsTrue(call, table) ==
  /\ call.op = "start" /\ call.at = "checked" /\ ~call.found => ~OpenRowFor(table, call.task)
  /\ call.at = "looked" /\ ~call.found => RowsOf(table, call.task) = {}
  /\ call.at = "insert" =>
       /\ ~OpenRowFor(table, call.task)
       /\ call.op = "record" => RowsOf(table, call.task) = {}

CallsInv == \A i \in DOMAIN calls : CallIsLegal(calls[i], Done) /\ AnswerIsTrue(calls[i], rows)

(* No two calls may insert a row of the same task. *)
OneMayInsert ==
  \A i, j \in DOMAIN calls :
    MayInsert(calls[i]) /\ MayInsert(calls[j]) /\ calls[i].task = calls[j].task => i = j

(* What reports task t, and what reports something else. *)
Names(m, t) == m.kind = "status" /\ m.task = t
NamesOther(m, t) == m.kind = "status" /\ m.task # t

ReportedBefore(t, k) == lastTask = t \/ \E j \in DOMAIN wire : j < k /\ Names(wire[j], t)
ReportedAfter(t, k) == pTask = t \/ \E j \in DOMAIN wire : k < j /\ Names(wire[j], t)

(* Once a report of another task has followed, a task does not come back:  *)
(* the printer never takes a task id again, and the wire keeps its order.  *)
ReportsInOrder ==
  \A t \in Tasks, k \in DOMAIN wire :
    ReportedBefore(t, k) /\ NamesOther(wire[k], t) => ~ReportedAfter(t, k)

(* A call that may insert is about the task last seen or about one that    *)
(* will not be seen again.                                                 *)
Calling(t) == \E i \in DOMAIN calls : MayInsert(calls[i]) /\ calls[i].task = t

CallsArePast ==
  \A t \in Tasks : Calling(t) => lastTask = t \/ ~ReportedAfter(t, 0)

(* Every task that is reported, or that a call is about, has been used.    *)
ReportsAreKnown ==
  \A t \in Tasks : lastTask = t \/ ReportedAfter(t, 0) \/ Calling(t) => Known(t)

PgIInv ==
  /\ IInv
  /\ calls \in Seq(Call)
  /\ closing \in BOOLEAN
  /\ CallsInv
  /\ OneMayInsert
  /\ ReportsInOrder
  /\ CallsArePast
  /\ ReportsAreKnown

-----------------------------------------------------------------------------
(* Sequences of calls: some taken out, some put at the end. *)
LEMMA CallsLeft ==
  ASSUME NEW s \in Seq(Call), NEW i \in DOMAIN s
  PROVE  /\ RemoveAt(s, i) \in Seq(Call)
         /\ \A k \in DOMAIN RemoveAt(s, i) :
              LET o == IF k < i THEN k ELSE k + 1 IN
              o \in DOMAIN s /\ o # i /\ RemoveAt(s, i)[k] = s[o]
<1> DEFINE before == SubSeq(s, 1, i - 1)
           after == SubSeq(s, i + 1, Len(s))
<1>1. Len(s) \in Nat /\ DOMAIN s = 1..Len(s) /\ i \in 1..Len(s)
  OBVIOUS
<1>2. /\ before \in Seq(Call) /\ Len(before) = i - 1
      /\ \A k \in 1..(i - 1) : before[k] = s[k]
  <2>1. \A k \in 1..(i - 1) : s[k] \in Call
    BY <1>1
  <2> QED BY <1>1, <2>1, SubSeqProperties
<1>3. /\ after \in Seq(Call) /\ Len(after) = Len(s) - i
      /\ \A k \in 1..(Len(s) - i) : after[k] = s[k + i]
  <2>1. \A k \in (i + 1)..Len(s) : s[k] \in Call
    BY <1>1
  <2> QED BY <1>1, <2>1, SubSeqProperties
<1> HIDE DEF before, after
<1>4. /\ before \o after \in Seq(Call)
      /\ Len(before \o after) = Len(s) - 1
      /\ \A k \in 1..(Len(s) - 1) :
           (before \o after)[k] = IF k <= i - 1 THEN before[k] ELSE after[k - (i - 1)]
  <2>1. Len(before) + Len(after) = Len(s) - 1
    BY <1>1, <1>2, <1>3
  <2>2. /\ before \o after \in Seq(Call)
        /\ Len(before \o after) = Len(before) + Len(after)
        /\ \A k \in 1..(Len(before) + Len(after)) :
             (before \o after)[k] = IF k <= Len(before) THEN before[k] ELSE after[k - Len(before)]
    BY <1>2, <1>3, ConcatProperties
  <2> QED BY <1>2, <2>1, <2>2
<1>5. ASSUME NEW k \in 1..(Len(s) - 1)
      PROVE  LET o == IF k < i THEN k ELSE k + 1 IN
             o \in DOMAIN s /\ o # i /\ (before \o after)[k] = s[o]
  <2>1. CASE k < i
    BY <1>1, <1>2, <1>4, <1>5, <2>1
  <2>2. CASE k >= i
    <3> DEFINE x == k - (i - 1)
    <3>1. x \in 1..(Len(s) - i) /\ x + i = k + 1 /\ ~(k <= i - 1)
      BY <1>1, <1>5, <2>2
    <3>2. (before \o after)[k] = after[x]
      BY <1>4, <1>5, <3>1
    <3> HIDE DEF x
    <3>3. after[x] = s[k + 1]
      BY <1>3, <3>1
    <3> QED BY <1>1, <1>5, <2>2, <3>2, <3>3
  <2>3. k < i \/ k >= i
    BY <1>1, <1>5
  <2> QED BY <2>1, <2>2, <2>3
<1>6. RemoveAt(s, i) = before \o after
  BY DEF RemoveAt, before, after
<1>7. DOMAIN (before \o after) = 1..(Len(s) - 1)
  BY <1>4
<1> QED BY <1>4, <1>5, <1>6, <1>7

LEMMA CallsAdded ==
  ASSUME NEW s \in Seq(Call), NEW new \in Seq(Call)
  PROVE  /\ s \o new \in Seq(Call)
         /\ \A k \in DOMAIN (s \o new) :
              \/ k \in DOMAIN s /\ (s \o new)[k] = s[k]
              \/ /\ k \notin DOMAIN s
                 /\ k - Len(s) \in DOMAIN new /\ (s \o new)[k] = new[k - Len(s)]
<1>1. /\ s \o new \in Seq(Call) /\ Len(s \o new) = Len(s) + Len(new)
      /\ \A k \in 1..(Len(s) + Len(new)) :
           (s \o new)[k] = IF k <= Len(s) THEN s[k] ELSE new[k - Len(s)]
  BY ConcatProperties
<1>2. /\ Len(s) \in Nat /\ DOMAIN s = 1..Len(s)
      /\ Len(new) \in Nat /\ DOMAIN new = 1..Len(new)
  OBVIOUS
<1>3. DOMAIN (s \o new) = 1..(Len(s) + Len(new))
  BY <1>1
<1> QED BY <1>1, <1>2, <1>3

-----------------------------------------------------------------------------
LEMMA InitPgIInv == PgInit => PgIInv
<1> SUFFICES ASSUME PgInit PROVE PgIInv
  OBVIOUS
<1>1. IInv
  BY InitIInv DEF PgInit
<1>2. /\ wire = <<>> /\ calls = <<>> /\ closing = FALSE
      /\ lastTask \notin Tasks /\ pTask \notin Tasks
  BY NoTaskAssumption DEF PgInit, Init
<1>3. calls \in Seq(Call)
  BY <1>2, EmptySeq
<1>4. ReportsAreKnown
  BY <1>2 DEF ReportsAreKnown, ReportedAfter, Calling
<1>5. CallsInv /\ OneMayInsert
  BY <1>2 DEF CallsInv, OneMayInsert
<1>6. ReportsInOrder /\ CallsArePast
  BY <1>2 DEF ReportsInOrder, CallsArePast, Calling
<1> QED BY <1>1, <1>2, <1>3, <1>4, <1>5, <1>6 DEF PgIInv

(* What is said of the calls holds as long as they, the table and the      *)
(* completions do.                                                         *)
CallsPart == calls \in Seq(Call) /\ closing \in BOOLEAN /\ CallsInv /\ OneMayInsert
ReportsPart == ReportsInOrder /\ CallsArePast /\ ReportsAreKnown

LEMMA PgParts == PgIInv <=> IInv /\ CallsPart /\ ReportsPart
BY DEF PgIInv, CallsPart, ReportsPart

LEMMA CallsUntouched ==
  ASSUME PgIInv, UNCHANGED <<calls, rows>>, closing' \in BOOLEAN,
         \A t \in Tasks : fate[t] = "complete" => fate'[t] = "complete"
  PROVE  CallsPart'
<1>1. CallsInv'
  <2> SUFFICES ASSUME NEW i \in DOMAIN calls
               PROVE  CallIsLegal(calls[i], Done') /\ AnswerIsTrue(calls[i], rows)
    BY DEF CallsInv
  <2>1. CallIsLegal(calls[i], Done) /\ AnswerIsTrue(calls[i], rows)
    BY DEF PgIInv, CallsInv
  <2>2. Done \subseteq Done'
    BY DEF Done
  <2> QED BY <2>1, <2>2 DEF CallIsLegal
<1>2. OneMayInsert' /\ calls' \in Seq(Call)
  BY DEF PgIInv, OneMayInsert
<1> QED BY <1>1, <1>2 DEF CallsPart

LEMMA CallsGone ==
  ASSUME calls' = <<>>, closing' \in BOOLEAN
  PROVE  CallsPart'
<1>1. calls' \in Seq(Call)
  BY EmptySeq
<1> QED BY <1>1 DEF CallsPart, CallsInv, OneMayInsert

-----------------------------------------------------------------------------
(* What is reported, when the wire stays as it is: the printer takes a new *)
(* task at most, and no call becomes one that may insert.                  *)
LEMMA ReportsUntouched ==
  ASSUME PgIInv, UNCHANGED <<wire, lastTask>>,
         \A t \in Tasks : Known(t) => Known(t)',
         \A t \in Tasks : pTask' = t => pTask = t \/ (~Known(t) /\ Known(t)'),
         \A t \in Tasks : Calling(t)' => Calling(t)
  PROVE  ReportsPart'
<1>1. ASSUME NEW t \in Tasks, NEW k, ReportedAfter(t, k)'
      PROVE  ReportedAfter(t, k) \/ (~Known(t) /\ Known(t)')
  BY <1>1 DEF ReportedAfter, Names
<1>2. ReportsAreKnown'
  BY <1>1 DEF PgIInv, ReportsAreKnown
<1>3. ASSUME NEW t \in Tasks, NEW k \in DOMAIN wire, ReportedBefore(t, k)
      PROVE  Known(t)
  <2>1. CASE lastTask = t
    BY <2>1 DEF PgIInv, ReportsAreKnown
  <2>2. ASSUME NEW j \in DOMAIN wire, Names(wire[j], t) PROVE Known(t)
    <3>1. 0 < j
      BY DEF PgIInv, IInv, TypeOK
    <3> QED BY <2>2, <3>1 DEF PgIInv, ReportsAreKnown, ReportedAfter
  <2> QED BY <1>3, <2>1, <2>2 DEF ReportedBefore
<1>4. ReportsInOrder'
  <2> SUFFICES ASSUME NEW t \in Tasks, NEW k \in DOMAIN wire,
                      ReportedBefore(t, k), NamesOther(wire[k], t)
               PROVE  ~ReportedAfter(t, k)'
    BY DEF ReportsInOrder, ReportedBefore, NamesOther, Names
  <2> QED BY <1>1, <1>3 DEF PgIInv, ReportsInOrder
<1>5. CallsArePast'
  BY <1>1 DEF PgIInv, CallsArePast, ReportsAreKnown
<1> QED BY <1>2, <1>4, <1>5 DEF ReportsPart

(* A cut: nothing is in flight, and the process may be gone with its calls. *)
LEMMA ReportsCut ==
  ASSUME PgIInv, wire' = <<>>,
         lastTask' = lastTask \/ (lastTask' = NoTask /\ calls' = <<>>),
         pTask' = pTask \/ pTask' = NoTask,
         \A t \in Tasks : Known(t) => Known(t)',
         \A t \in Tasks : Calling(t)' => Calling(t)
  PROVE  ReportsPart'
<1>1. ASSUME NEW t \in Tasks, NEW k, ReportedAfter(t, k)'
      PROVE  ReportedAfter(t, k)
  BY <1>1, NoTaskAssumption DEF ReportedAfter
<1>2. ReportsInOrder'
  BY DEF ReportsInOrder
<1>3. CallsArePast'
  <2>1. calls' = <<>> => \A t \in Tasks : ~Calling(t)'
    BY DEF Calling
  <2> QED BY <1>1, <2>1 DEF PgIInv, CallsArePast
<1>4. ReportsAreKnown'
  BY <1>1, NoTaskAssumption DEF PgIInv, ReportsAreKnown
<1> QED BY <1>2, <1>3, <1>4 DEF ReportsPart

(* The printer sends: its status names the task it has. *)
LEMMA ReportsSent ==
  ASSUME PgIInv, PrinterPush \/ PrinterTakesStop, UNCHANGED calls
  PROVE  ReportsPart'
<1> DEFINE Message == StatusFrame \union AckFrame
<1>1. wire \in Seq(Message) /\ TypeOK /\ PrinterInv
  BY DEF PgIInv, IInv, TypeOK
<1>2. UNCHANGED <<pTask, lastTask>>
  BY DEF PrinterPush, PrinterTakesStop, printerVars, storeVars
<1>3. \A t \in Tasks : Known(t) => Known(t)'
  BY <1>1 DEF PrinterPush, PrinterTakesStop, printerVars, Known, TypeOK
<1>4. \E m \in Message : wire' = Append(wire, m) /\ (m.kind = "status" => m.task = pTask)
  <2>1. CASE PrinterPush
    <3> DEFINE m == [kind |-> "status", status |-> pStatus, task |-> pTask]
    <3>1. m \in StatusFrame
      BY <1>1 DEF TypeOK, StatusFrame
    <3> QED BY <2>1, <3>1 DEF PrinterPush
  <2>2. CASE PrinterTakesStop
    <3> DEFINE m == [kind |-> "ack", request |-> stopsMade]
    <3>1. m \in AckFrame
      BY <1>1 DEF TypeOK, AckFrame
    <3> QED BY <2>2, <3>1 DEF PrinterTakesStop
  <2> QED BY <2>1, <2>2
<1>5. PICK m \in Message : wire' = Append(wire, m) /\ (m.kind = "status" => m.task = pTask)
  BY <1>4
<1> HIDE DEF Message
<1>6. /\ Len(wire) \in Nat /\ DOMAIN wire = 1..Len(wire)
      /\ DOMAIN wire' = 1..(Len(wire) + 1)
      /\ \A k \in DOMAIN wire : wire'[k] = wire[k]
      /\ wire'[Len(wire) + 1] = m
  BY <1>1, <1>5, AppendProperties
<1>7. ASSUME NEW t \in Tasks, NEW k, ReportedAfter(t, k)'
      PROVE  ReportedAfter(t, k)
  BY <1>2, <1>5, <1>6, <1>7 DEF ReportedAfter, Names
<1>8. ReportsInOrder'
  <2> SUFFICES ASSUME NEW t \in Tasks, NEW k \in DOMAIN wire',
                      ReportedBefore(t, k)', NamesOther(wire'[k], t), ReportedAfter(t, k)'
               PROVE  FALSE
    BY DEF ReportsInOrder, NamesOther
  <2>1. CASE k \in DOMAIN wire
    <3>1. ReportedBefore(t, k) /\ wire'[k] = wire[k]
      BY <1>2, <1>6, <2>1 DEF ReportedBefore, Names
    <3> QED BY <1>7, <2>1, <3>1 DEF PgIInv, ReportsInOrder
  <2>2. CASE k = Len(wire) + 1
    <3>1. pTask # t
      BY <1>5, <1>6, <2>2 DEF NamesOther
    <3>2. \A j \in DOMAIN wire' : ~(k < j)
      BY <1>6, <2>2
    <3> QED BY <1>2, <3>1, <3>2 DEF ReportedAfter
  <2> QED BY <1>6, <2>1, <2>2
<1>9. CallsArePast' /\ ReportsAreKnown'
  <2>1. \A t \in Tasks : Calling(t)' => Calling(t)
    BY DEF Calling
  <2> QED BY <1>2, <1>3, <1>7, <2>1 DEF PgIInv, CallsArePast, ReportsAreKnown
<1> QED BY <1>8, <1>9 DEF ReportsPart

(* The first message is handled.  A call that is new is about the task it  *)
(* reports.                                                                *)
LEMMA ReportsTaken ==
  ASSUME PgIInv, wire # <<>>, wire' = Tail(wire), UNCHANGED <<pTask, fate>>,
         lastTask' = IF Head(wire).kind = "status" THEN Head(wire).task ELSE lastTask,
         \A t \in Tasks : Calling(t)' => Calling(t) \/ lastTask' = t
  PROVE  ReportsPart'
<1> DEFINE Message == StatusFrame \union AckFrame
<1>1. wire \in Seq(Message)
  BY DEF PgIInv, IInv, TypeOK
<1> HIDE DEF Message
<1>2. /\ Len(wire) \in Nat /\ DOMAIN wire = 1..Len(wire) /\ 1 \in DOMAIN wire
      /\ Head(wire) = wire[1]
      /\ DOMAIN wire' = 1..(Len(wire) - 1)
      /\ \A k \in DOMAIN wire' : k + 1 \in DOMAIN wire /\ wire'[k] = wire[k + 1]
  BY <1>1, HeadTailProperties
<1>3. ASSUME NEW t \in Tasks, NEW k \in Nat, ReportedAfter(t, k)'
      PROVE  ReportedAfter(t, k + 1)
  <2>1. CASE pTask = t
    BY <2>1 DEF ReportedAfter
  <2>2. ASSUME NEW j \in DOMAIN wire', k < j, Names(wire'[j], t)
        PROVE  ReportedAfter(t, k + 1)
    <3>1. j + 1 \in DOMAIN wire /\ Names(wire[j + 1], t) /\ k + 1 < j + 1
      BY <1>2, <2>2
    <3> QED BY <3>1 DEF ReportedAfter
  <2> QED BY <1>3, <2>1, <2>2 DEF ReportedAfter, Names
<1>4. ASSUME NEW t \in Tasks, ReportedAfter(t, 0)'
      PROVE  ReportedAfter(t, 0) /\ ReportedAfter(t, 1)
  <2>1. ReportedAfter(t, 1)
    BY <1>3, <1>4
  <2> QED BY <1>2, <2>1 DEF ReportedAfter
<1>5. ASSUME NEW t \in Tasks, lastTask' = t
      PROVE  lastTask = t \/ Names(wire[1], t)
  BY <1>2, <1>5 DEF Names
<1>6. ASSUME NEW t \in Tasks, lastTask = t, lastTask' # t
      PROVE  ~ReportedAfter(t, 1)
  <2>1. NamesOther(wire[1], t) /\ ReportedBefore(t, 1)
    BY <1>2, <1>6 DEF NamesOther, ReportedBefore
  <2> QED BY <1>2, <2>1 DEF PgIInv, ReportsInOrder
<1>7. ReportsInOrder'
  <2> SUFFICES ASSUME NEW t \in Tasks, NEW k \in DOMAIN wire',
                      ReportedBefore(t, k)', NamesOther(wire'[k], t)
               PROVE  ~ReportedAfter(t, k)'
    BY DEF ReportsInOrder, NamesOther
  <2>1. k \in Nat /\ k + 1 \in DOMAIN wire /\ wire'[k] = wire[k + 1] /\ 1 < k + 1
    BY <1>2
  <2>2. ReportedBefore(t, k + 1)
    <3>1. CASE lastTask' = t
      BY <1>2, <1>5, <2>1, <3>1 DEF ReportedBefore
    <3>2. ASSUME NEW j \in DOMAIN wire', j < k, Names(wire'[j], t)
          PROVE  ReportedBefore(t, k + 1)
      <4>1. j + 1 \in DOMAIN wire /\ Names(wire[j + 1], t) /\ j + 1 < k + 1
        BY <1>2, <2>1, <3>2
      <4> QED BY <4>1 DEF ReportedBefore
    <3> QED BY <3>1, <3>2 DEF ReportedBefore, Names
  <2> QED BY <1>3, <2>1, <2>2 DEF PgIInv, ReportsInOrder
<1>8. CallsArePast'
  BY <1>4, <1>6 DEF PgIInv, CallsArePast
<1>9. ReportsAreKnown'
  <2>1. \A t \in Tasks : Known(t)' <=> Known(t)
    BY DEF Known
  <2>2. \A t \in Tasks : Names(wire[1], t) => ReportedAfter(t, 0)
    BY <1>2 DEF ReportedAfter
  <2> QED BY <1>4, <1>5, <2>1, <2>2 DEF PgIInv, ReportsAreKnown
<1> QED BY <1>7, <1>8, <1>9 DEF ReportsPart

-----------------------------------------------------------------------------
(* A statement that writes does to the table, as it is by now, what one of *)
(* the functions of PrintHistory does, or nothing.                         *)
LEMMA WrittenCases ==
  ASSUME PgIInv, NEW i \in DOMAIN calls, calls[i].at \in Writes
  PROVE  LET call == calls[i] IN
         \/ /\ call.op = "start" /\ call.task \in Tasks
            /\ Written(call) = StartPrint(rows, call.task)
         \/ /\ call.op = "record" /\ call.task \in Tasks
            /\ call.outcome \in {"complete", "stopped"}
            /\ call.at = "insert" \/ OpenRowFor(rows, call.task)
            /\ Written(call) = RecordFinished(rows, call.task, call.outcome)
         \/ /\ call.at = "update"
            /\ call.outcome \in {"complete", "stopped"}
            /\ Written(call) = FinishPrint(rows, call.task, call.outcome)
         \/ call.at # "insert" /\ Written(call) = rows
<1> DEFINE call == calls[i]
<1>1. /\ call \in Call /\ CallIsLegal(call, Done) /\ AnswerIsTrue(call, rows)
      /\ call.at \in {"insert", "settle", "update"}
      /\ rows = [k \in DOMAIN rows |-> rows[k]]
  BY DEF PgIInv, CallsInv, Writes, IInv, TypeOK
<1> HIDE DEF call
<1>2. /\ call.op \in {"start", "record", "finish"}
      /\ call.outcome \in {"printing", "complete", "stopped"}
  BY <1>1 DEF Call, Outcomes
<1>3. CASE call.at = "update"
  <2>1. call.outcome \in {"complete", "stopped"}
    BY <1>1, <1>2, <1>3 DEF CallIsLegal
  <2> QED BY <1>3, <2>1 DEF Written, call
<1>4. CASE call.at = "insert" /\ call.op = "start"
  <2>1. call.task \in Tasks /\ call.outcome = "printing" /\ ~OpenRowFor(rows, call.task)
    BY <1>1, <1>4 DEF CallIsLegal, MayInsert, AnswerIsTrue
  <2>2. Written(call) = StartPrint(rows, call.task)
    BY <1>4, <2>1 DEF Written, StartPrint
  <2> QED BY <1>4, <2>1, <2>2 DEF call
<1>5. CASE call.at = "insert" /\ call.op = "record"
  <2>1. /\ call.task \in Tasks /\ call.outcome \in {"complete", "stopped"}
        /\ ~OpenRowFor(rows, call.task) /\ RowsOf(rows, call.task) = {}
    BY <1>1, <1>2, <1>5 DEF CallIsLegal, MayInsert, AnswerIsTrue
  <2>2. Written(call) = RecordFinished(rows, call.task, call.outcome)
    BY <1>5, <2>1 DEF Written, RecordFinished
  <2> QED BY <1>5, <2>1, <2>2 DEF call
<1>6. CASE call.at = "settle"
  <2>1. call.op = "record" /\ call.task \in Tasks /\ call.outcome \in {"complete", "stopped"}
    BY <1>1, <1>2, <1>6 DEF CallIsLegal, MayInsert
  <2>2. Written(call) = [k \in DOMAIN rows |->
            IF rows[k].task = call.task /\ IsOpen(rows[k])
            THEN Settled(rows[k], call.outcome) ELSE rows[k]]
    BY <1>6 DEF Written
  <2>3. CASE OpenRowFor(rows, call.task)
    BY <2>1, <2>2, <2>3 DEF RecordFinished, call
  <2>4. CASE ~OpenRowFor(rows, call.task)
    <3>1. \A k \in DOMAIN rows : ~(rows[k].task = call.task /\ IsOpen(rows[k]))
      BY <2>4 DEF OpenRowFor, RowsOf
    <3>2. Written(call) = rows
      BY <1>1, <2>2, <3>1
    <3> QED BY <1>6, <3>2 DEF call
  <2> QED BY <2>3, <2>4
<1>7. call.at = "insert" => call.op # "finish"
  BY <1>1 DEF CallIsLegal
<1> QED BY <1>1, <1>2, <1>3, <1>4, <1>5, <1>6, <1>7

(* So it keeps the table sound, and is one step of the ledger. *)
LEMMA WrittenSound ==
  ASSUME PgIInv, NEW i \in DOMAIN calls, calls[i].at \in Writes
  PROVE  SoundTable(Written(calls[i]), Done) /\ OneStep(rows, Written(calls[i]))
<1> DEFINE call == calls[i]
           next == Written(call)
<1>1. /\ call.task \in TaskIds /\ rows \in Seq(Row) /\ OneOpen(rows)
      /\ call.outcome = "complete" => call.task \in Done /\ call.task # NoTask
      /\ SoundTable(rows, Done)
  <2>1. TypeOK /\ call \in Call /\ CallIsLegal(call, Done) /\ SoundTable(rows, Done)
    BY SoundHistory DEF PgIInv, IInv, CallsInv
  <2> QED BY <2>1, NoTaskAssumption DEF Call, CallIsLegal, Done, SoundTable
<1>2. CASE call.task \in Tasks /\ next = StartPrint(rows, call.task)
  BY <1>1, <1>2, StartPrintSound, StartPrintOneStep
<1>3. CASE /\ call.task \in Tasks /\ call.outcome \in {"complete", "stopped"}
           /\ next = RecordFinished(rows, call.task, call.outcome)
  BY <1>1, <1>3, RecordFinishedSound, RecordFinishedOneStep
<1>4. CASE /\ call.outcome \in {"complete", "stopped"}
           /\ next = FinishPrint(rows, call.task, call.outcome)
  BY <1>1, <1>4, FinishPrintSound, FinishPrintOneStep
<1>5. CASE next = rows
  BY <1>1, <1>5 DEF OneStep
<1> QED BY <1>2, <1>3, <1>4, <1>5, WrittenCases

(* The tasks without a row, or without an open one, stay so: all of them,  *)
(* but for the task of a row that is inserted.                             *)
StaysWithout(table, next, u) ==
  /\ RowsOf(table, u) = {} => RowsOf(next, u) = {}
  /\ ~OpenRowFor(table, u) => ~OpenRowFor(next, u)

LEMMA TouchesNoOther ==
  ASSUME NEW table, NEW next, NEW t, TouchesOnly(table, next, t), NEW u, u # t
  PROVE  StaysWithout(table, next, u)
<1>1. \A i \in DOMAIN next : next[i].task = u =>
        i \in DOMAIN table /\ table[i].task = u /\ next[i] = table[i]
  BY DEF TouchesOnly
<1> QED BY <1>1 DEF StaysWithout, RowsOf, OpenRowFor

LEMMA WrittenStaysWithout ==
  ASSUME PgIInv, NEW i \in DOMAIN calls, calls[i].at \in Writes,
         NEW u, calls[i].at = "insert" => u # calls[i].task
  PROVE  StaysWithout(rows, Written(calls[i]), u)
<1> DEFINE call == calls[i]
           next == Written(call)
<1>1. call \in Call /\ CallIsLegal(call, Done) /\ rows \in Seq(Row) /\ call.task \in TaskIds
  <2>1. call \in Call /\ CallIsLegal(call, Done) /\ rows \in Seq(Row)
    BY DEF PgIInv, IInv, TypeOK, CallsInv
  <2> QED BY <2>1 DEF Call
<1>2. CASE /\ call.op = "start" /\ call.task \in Tasks
           /\ next = StartPrint(rows, call.task)
  <2>1. call.at = "insert"
    BY <1>1, <1>2 DEF CallIsLegal, Writes
  <2> QED BY <1>1, <1>2, <2>1, StartPrintTouches, TouchesNoOther
<1>3. CASE /\ call.op = "record" /\ call.task \in Tasks
           /\ call.outcome \in {"complete", "stopped"}
           /\ call.at = "insert" \/ OpenRowFor(rows, call.task)
           /\ next = RecordFinished(rows, call.task, call.outcome)
  <2>1. CASE u # call.task
    BY <1>1, <1>3, <2>1, RecordFinishedTouches, TouchesNoOther
  <2>2. CASE u = call.task
    <3>1. OpenRowFor(rows, u) /\ RowsOf(rows, u) # {}
      BY <1>3, <2>2 DEF OpenRowFor
    <3> QED BY <3>1 DEF StaysWithout
  <2> QED BY <2>1, <2>2
<1>4. CASE /\ call.at = "update" /\ call.outcome \in {"complete", "stopped"}
           /\ next = FinishPrint(rows, call.task, call.outcome)
  <2>1. /\ DOMAIN next = DOMAIN rows
        /\ \A k \in DOMAIN rows : next[k] = rows[k] \/ next[k] = Closed(rows[k], call.outcome)
    BY <1>1, <1>4, FinishPrintFacts
  <2>2. \A k \in DOMAIN rows : /\ Closed(rows[k], call.outcome).task = rows[k].task
                               /\ ~IsOpen(Closed(rows[k], call.outcome))
    BY DEF Closed, IsOpen
  <2> HIDE DEF next
  <2>3. StaysWithout(rows, next, u)
    BY <2>1, <2>2 DEF StaysWithout, RowsOf, OpenRowFor
  <2> QED BY <2>3 DEF next
<1>5. CASE next = rows
  BY <1>5 DEF StaysWithout
<1> QED BY <1>2, <1>3, <1>4, <1>5, WrittenCases

-----------------------------------------------------------------------------
(* The steps of the calls. *)

(* A call that ends.  The answers of the others must still be true. *)
LEMMA CallDropped ==
  ASSUME PgIInv, NEW i \in DOMAIN calls, calls' = RemoveAt(calls, i), UNCHANGED fate,
         closing' = closing,
         \A k \in DOMAIN calls :
           k # i /\ AnswerIsTrue(calls[k], rows) /\ CallIsLegal(calls[k], Done)
             => AnswerIsTrue(calls[k], rows')
  PROVE  CallsPart' /\ \A t \in Tasks : Calling(t)' => Calling(t)
<1>1. calls \in Seq(Call) /\ closing \in BOOLEAN
  BY DEF PgIInv
<1>2. calls' \in Seq(Call)
  BY <1>1, CallsLeft
<1> DEFINE old(k) == IF k < i THEN k ELSE k + 1
<1>3. \A k \in DOMAIN calls' : old(k) \in DOMAIN calls /\ old(k) # i /\ calls'[k] = calls[old(k)]
  BY <1>1, CallsLeft
<1>4. \A k, l \in DOMAIN calls' : old(k) = old(l) => k = l
  BY <1>1, <1>2
<1> HIDE DEF old
<1>5. \A k \in DOMAIN calls : CallIsLegal(calls[k], Done) /\ AnswerIsTrue(calls[k], rows)
  BY DEF PgIInv, CallsInv
<1>6. \A k \in DOMAIN calls : k # i =>
        CallIsLegal(calls[k], Done') /\ AnswerIsTrue(calls[k], rows')
  BY <1>5 DEF Done
<1>7. CallsInv'
  BY <1>3, <1>6 DEF CallsInv
<1>8. OneMayInsert'
  BY <1>3, <1>4 DEF PgIInv, OneMayInsert, MayInsert
<1>9. \A t \in Tasks : Calling(t)' => Calling(t)
  BY <1>3 DEF Calling, MayInsert
<1> QED BY <1>1, <1>2, <1>7, <1>8, <1>9 DEF CallsPart

(* A call that goes on: its answer, or its next statement. *)
LEMMA CallAdvanced ==
  ASSUME PgIInv, NEW i \in DOMAIN calls, NEW new \in Call,
         new.op = calls[i].op, new.task = calls[i].task,
         CallIsLegal(new, Done), AnswerIsTrue(new, rows),
         calls' = [calls EXCEPT ![i] = new], UNCHANGED <<rows, fate, closing>>
  PROVE  CallsPart' /\ \A t \in Tasks : Calling(t)' => Calling(t)
<1>1. calls \in Seq(Call) /\ closing \in BOOLEAN
  BY DEF PgIInv
<1>2. /\ calls' \in Seq(Call) /\ DOMAIN calls' = DOMAIN calls
      /\ calls'[i] = new /\ \A k \in DOMAIN calls : k # i => calls'[k] = calls[k]
  BY <1>1
<1>3. CallsInv'
  BY <1>2 DEF PgIInv, CallsInv, Done
<1>4. OneMayInsert'
  BY <1>2 DEF PgIInv, OneMayInsert, MayInsert
<1>5. \A t \in Tasks : Calling(t)' => Calling(t)
  BY <1>2 DEF Calling, MayInsert
<1> QED BY <1>1, <1>2, <1>3, <1>4, <1>5 DEF CallsPart

(* A step of the calls that leaves the printer, the link and the store as  *)
(* they are leaves the reports.                                            *)
LEMMA ReportsOfStill ==
  ASSUME PgIInv, UNCHANGED <<pTask, fate, wire, lastTask>>,
         \A t \in Tasks : Calling(t)' => Calling(t)
  PROVE  ReportsPart'
<1>1. \A t \in Tasks : Known(t) => Known(t)'
  BY DEF Known
<1> QED BY <1>1, ReportsUntouched

LEMMA SelectStep ==
  ASSUME PgIInv, NEW i \in DOMAIN calls, Select(i)
  PROVE  PgIInv'
<1> DEFINE call == calls[i]
           new == IF call.at = "check"
                  THEN [call EXCEPT !.at = "checked", !.found = OpenRowFor(rows, call.task)]
                  ELSE [call EXCEPT !.at = "looked", !.found = RowsOf(rows, call.task) # {}]
<1>1. /\ calls' = [calls EXCEPT ![i] = new] /\ UNCHANGED <<vars, closing>>
      /\ call.at \in {"check", "lookup"}
  BY DEF Select, Selects
<1>2. call \in Call /\ CallIsLegal(call, Done)
  BY DEF PgIInv, CallsInv
<1>3. UNCHANGED <<pStatus, pTask, fate, linkUp, wire, serverUp, lastStatus, lastTask,
                  stop, stopsMade, rows, notified>>
  BY <1>1 DEF vars, printerVars, storeVars, stopVars
<1>4. new \in Call /\ new.op = call.op /\ new.task = call.task /\ new.outcome = call.outcome
  <2> HIDE DEF call
  <2>1. (OpenRowFor(rows, call.task) \in BOOLEAN) /\ ((RowsOf(rows, call.task) # {}) \in BOOLEAN)
    BY DEF OpenRowFor
  <2> QED BY <1>1, <1>2, <2>1 DEF Call, Answered, Selects
<1>5. CallIsLegal(new, Done) /\ AnswerIsTrue(new, rows)
  <2>1. CASE call.at = "check"
    <3>1. new.at = "checked" /\ new.found = OpenRowFor(rows, call.task)
      BY <1>2, <2>1 DEF Call
    <3> HIDE DEF new
    <3> QED BY <1>2, <1>4, <2>1, <3>1 DEF CallIsLegal, MayInsert, AnswerIsTrue
  <2>2. CASE call.at = "lookup"
    <3>1. new.at = "looked" /\ new.found = (RowsOf(rows, call.task) # {})
      BY <1>2, <2>2 DEF Call
    <3> HIDE DEF new
    <3> QED BY <1>2, <1>4, <2>2, <3>1 DEF CallIsLegal, MayInsert, AnswerIsTrue
  <2> QED BY <1>1, <2>1, <2>2
<1> HIDE DEF new
<1>6. CallsPart' /\ \A t \in Tasks : Calling(t)' => Calling(t)
  BY <1>1, <1>3, <1>4, <1>5, CallAdvanced
<1>7. ReportsPart'
  BY <1>3, <1>6, ReportsOfStill
<1>8. IInv'
  BY <1>1, NextIInv DEF PgIInv
<1> QED BY <1>6, <1>7, <1>8, PgParts, PTL

(* The process ends: no call is left, and the store knows nothing. *)
LEMMA ProcessEndsStep ==
  ASSUME PgIInv, ProcessEnds
  PROVE  PgIInv'
<1>1. ServerDown /\ calls' = <<>> /\ closing' \in BOOLEAN
  BY DEF ProcessEnds
<1>2. IInv'
  BY <1>1, CutSteps DEF PgIInv
<1>3. CallsPart'
  BY <1>1, CallsGone
<1>4. wire' = <<>> /\ lastTask' = NoTask /\ pTask' = pTask /\ fate' = fate
  BY <1>1 DEF ServerDown, printerVars
<1>5. ReportsPart'
  <2>1. \A t \in Tasks : Known(t) => Known(t)'
    BY <1>4 DEF Known
  <2>2. \A t \in Tasks : Calling(t)' => Calling(t)
    BY <1>1 DEF Calling
  <2> QED BY <1>1, <1>4, <2>1, <2>2, ReportsCut
<1> QED BY <1>2, <1>3, <1>5, PgParts, PTL

(* A call that ends here leaves everything else as it is. *)
LEMMA DroppedStep ==
  ASSUME PgIInv, NEW i \in DOMAIN calls, calls' = RemoveAt(calls, i),
         UNCHANGED <<vars, closing>>
  PROVE  PgIInv'
<1>1. UNCHANGED <<pStatus, pTask, fate, linkUp, wire, serverUp, lastStatus, lastTask,
                  stop, stopsMade, rows, notified>>
  BY DEF vars, printerVars, storeVars, stopVars
<1>2. CallsPart' /\ \A t \in Tasks : Calling(t)' => Calling(t)
  BY <1>1, CallDropped
<1>3. ReportsPart'
  BY <1>1, <1>2, ReportsOfStill
<1>4. IInv'
  BY NextIInv DEF PgIInv
<1> QED BY <1>2, <1>3, <1>4, PgParts, PTL

(* After its await a function asks or writes what its answers call for,    *)
(* and they are still true.                                                *)
LEMMA ResumeStep ==
  ASSUME PgIInv, NEW i \in DOMAIN calls, Resume(i)
  PROVE  PgIInv'
<1> DEFINE call == calls[i]
           next == NextStatement(call)
           new == [call EXCEPT !.at = next]
<1>1. call.at \in {"checked", "looked"}
  BY DEF Resume, Answered
<1>2. call \in Call /\ CallIsLegal(call, Done) /\ AnswerIsTrue(call, rows)
  BY DEF PgIInv, CallsInv
<1>3. CASE next = "none" /\ calls' = RemoveAt(calls, i) /\ UNCHANGED <<vars, closing>>
  BY <1>3, DroppedStep
<1>4. CASE next # "none" /\ calls' = [calls EXCEPT ![i] = new] /\ UNCHANGED <<vars, closing>>
  <2>1. UNCHANGED <<pStatus, pTask, fate, linkUp, wire, serverUp, lastStatus, lastTask,
                    stop, stopsMade, rows, notified>>
    BY <1>4 DEF vars, printerVars, storeVars, stopVars
  <2>2. \/ call.op = "record" /\ call.at = "checked" /\ next \in {"settle", "lookup"}
        \/ /\ ~(call.op = "record" /\ call.at = "checked")
           /\ ~call.found /\ next = "insert"
    BY <1>4 DEF NextStatement
  <2>3. next \in {"settle", "lookup", "insert"}
    BY <2>2
  <2> HIDE DEF next, call
  <2>4. /\ new \in Call /\ new.at = next /\ new.op = call.op /\ new.task = call.task
        /\ new.outcome = call.outcome /\ new.found = call.found
    BY <1>2, <2>3 DEF Call, Selects, Writes
  <2>5. CallIsLegal(new, Done)
    <3>1. call.op = "start" => next = "insert"
      BY <2>2
    <3>2. call.op # "finish"
      BY <1>1, <1>2 DEF CallIsLegal
    <3> HIDE DEF new
    <3> QED BY <1>2, <2>3, <2>4, <3>1, <3>2 DEF CallIsLegal, MayInsert
  <2>6. AnswerIsTrue(new, rows)
    <3> HIDE DEF new
    <3>1. CASE next \in {"settle", "lookup"}
      BY <2>4, <3>1 DEF AnswerIsTrue
    <3>2. CASE next = "insert"
      <4>1. ~call.found /\ ~(call.op = "record" /\ call.at = "checked")
        BY <2>2, <3>2
      <4>2. call.op \in {"start", "record"}
        BY <1>1, <1>2 DEF Call, CallIsLegal
      <4>3. CASE call.at = "looked"
        <5>1. RowsOf(rows, call.task) = {}
          BY <1>2, <4>1, <4>3 DEF AnswerIsTrue
        <5> QED BY <2>4, <3>2, <5>1 DEF AnswerIsTrue, OpenRowFor
      <4>4. CASE call.at = "checked"
        <5>1. call.op = "start" /\ ~OpenRowFor(rows, call.task)
          BY <1>2, <4>1, <4>2, <4>4 DEF AnswerIsTrue
        <5> QED BY <2>4, <3>2, <5>1 DEF AnswerIsTrue
      <4> QED BY <1>1, <4>3, <4>4
    <3> QED BY <2>3, <3>1, <3>2
  <2> HIDE DEF new
  <2>7. CallsPart' /\ \A t \in Tasks : Calling(t)' => Calling(t)
    BY <1>4, <2>1, <2>4, <2>5, <2>6, CallAdvanced DEF call
  <2>8. ReportsPart'
    BY <2>1, <2>7, ReportsOfStill
  <2>9. IInv'
    BY <1>4, NextIInv DEF PgIInv
  <2> QED BY <2>7, <2>8, <2>9, PgParts, PTL
<1>5. CASE ProcessEnds
  BY <1>5, ProcessEndsStep
<1> QED BY <1>3, <1>4, <1>5 DEF Resume

LEMMA QueryFailsStep ==
  ASSUME PgIInv, NEW i \in DOMAIN calls, QueryFails(i)
  PROVE  PgIInv'
BY DroppedStep, ProcessEndsStep DEF QueryFails

(* A statement writes: no other call that may insert is about this task.   *)
LEMMA WriteStep ==
  ASSUME PgIInv, NEW i \in DOMAIN calls, Write(i)
  PROVE  PgIInv'
<1>1. /\ calls[i].at \in Writes /\ rows' = Written(calls[i]) /\ calls' = RemoveAt(calls, i)
      /\ UNCHANGED <<pStatus, pTask, fate, linkUp, wire, serverUp, lastStatus, lastTask,
                     stop, stopsMade, notified, closing>>
  BY DEF Write, printerVars, storeVars, stopVars
<1>2. SoundTable(rows', Done)
  BY <1>1, WrittenSound
<1>3. IInv'
  <2>1. TypeOK'
    BY <1>1, <1>2 DEF PgIInv, IInv, TypeOK, SoundTable
  <2>2. PrinterInv' /\ WireInv'
    BY <1>1 DEF PgIInv, IInv, PrinterInv, WireInv, TrueFrame
  <2>3. RowTasksInv' /\ OneOpenRowPerTask' /\ CompleteIsTrue'
    BY <1>1, <1>2 DEF SoundTable, Done, RowTasksInv, OneOpenRowPerTask, OneOpen, CompleteIsTrue
  <2> QED BY <2>1, <2>2, <2>3 DEF IInv
<1>4. ASSUME NEW k \in DOMAIN calls, k # i, AnswerIsTrue(calls[k], rows),
             CallIsLegal(calls[k], Done)
      PROVE  AnswerIsTrue(calls[k], rows')
  <2>1. CASE MayInsert(calls[k])
    <3>1. calls[i].at = "insert" => MayInsert(calls[i])
      BY DEF PgIInv, CallsInv, CallIsLegal, MayInsert
    <3>2. calls[i].at = "insert" => calls[k].task # calls[i].task
      BY <1>4, <2>1, <3>1 DEF PgIInv, OneMayInsert
    <3>3. StaysWithout(rows, rows', calls[k].task)
      BY <1>1, <3>2, WrittenStaysWithout
    <3> QED BY <1>4, <3>3 DEF AnswerIsTrue, StaysWithout
  <2>2. CASE ~MayInsert(calls[k])
    BY <1>4, <2>2 DEF AnswerIsTrue, CallIsLegal, MayInsert
  <2> QED BY <2>1, <2>2
<1>5. CallsPart' /\ \A t \in Tasks : Calling(t)' => Calling(t)
  BY <1>1, <1>4, CallDropped
<1>6. ReportsPart'
  BY <1>1, <1>5, ReportsOfStill
<1> QED BY <1>3, <1>5, <1>6, PgParts, PTL

-----------------------------------------------------------------------------
(* New calls.  A call that has just been made is legal and has no answer.  *)
Fresh(call) ==
  call \in Call /\ CallIsLegal(call, Done) /\ call.at \in {"check", "update"}

LEMMA BegunIsFresh ==
  ASSUME NEW t \in TaskIds, NEW ending \in {"complete", "stopped"},
         ending = "complete" => t \in Done
  PROVE  /\ Fresh(Begin("finish", t, ending)) /\ ~MayInsert(Begin("finish", t, ending))
         /\ t \in Tasks => Fresh(Begin("start", t, "printing")) /\ Fresh(Begin("record", t, ending))
BY DEF Begin, Fresh, Call, Outcomes, Selects, Writes, CallIsLegal, MayInsert

(* One frame issues at most one call that may insert: printStarted and     *)
(* printSeenFinished exclude each other.                                   *)
LEMMA IssuedFacts ==
  ASSUME PgIInv, NEW f \in StatusFrame, TrueFrame(f)
  PROVE  /\ Issued(f) \in Seq(Call)
         /\ \A k \in DOMAIN Issued(f) :
              /\ Fresh(Issued(f)[k])
              /\ MayInsert(Issued(f)[k]) => k = 1 /\ Issued(f)[k].task = f.task /\ NewTask(f)
<1> DEFINE starting == Begin("start", f.task, "printing")
           recording == Begin("record", f.task, SeenOutcome(f))
           finishing == Begin("finish", f.task, "complete")
<1>1. /\ f.task \in TaskIds /\ f.status \in Statuses /\ f.kind = "status"
      /\ f.status = "Complete" => f.task \in Done
  <2>1. f.task \in TaskIds /\ f.status \in Statuses /\ f.kind = "status"
    BY DEF StatusFrame
  <2> QED BY <2>1 DEF TrueFrame, Done
<1>2. NewTask(f) => f.task \in Tasks
  BY <1>1 DEF NewTask, TaskIds
<1>3. Starts(f) => NewTask(f) /\ ~EndsUnseen(f) /\ ~Finishes(f)
  BY DEF Starts, EndsUnseen, Finishes, IsTerminal
<1>4. EndsUnseen(f) => NewTask(f)
  BY DEF EndsUnseen
<1>5. Finishes(f) => f.task \in Done
  BY <1>1 DEF Finishes
<1>6. starting.task = f.task /\ recording.task = f.task
  BY DEF Begin
<1>7. Starts(f) => Fresh(starting)
  <2>1. Starts(f) => f.task \in Tasks
    BY <1>2, <1>3
  <2> QED BY <1>1, <2>1, BegunIsFresh
<1>8. EndsUnseen(f) => Fresh(recording)
  <2>1. /\ SeenOutcome(f) \in {"complete", "stopped"}
        /\ SeenOutcome(f) = "complete" => f.task \in Done
    BY <1>1 DEF SeenOutcome
  <2>2. EndsUnseen(f) => f.task \in Tasks
    BY <1>2, <1>4
  <2> QED BY <1>1, <2>1, <2>2, BegunIsFresh
<1>9. Finishes(f) => Fresh(finishing) /\ ~MayInsert(finishing)
  BY <1>1, <1>5, BegunIsFresh
<1>10. Issued(f) = (IF Starts(f) THEN <<starting>> ELSE <<>>)
                     \o (IF EndsUnseen(f) THEN <<recording>> ELSE <<>>)
                     \o (IF Finishes(f) THEN <<finishing>> ELSE <<>>)
  BY DEF Issued
<1> HIDE DEF starting, recording, finishing
<1>11. CASE Starts(f)
  <2>1. starting \in Call
    BY <1>7, <1>11 DEF Fresh
  <2>2. Issued(f) = <<starting>>
    BY <1>3, <1>10, <1>11, <2>1
  <2> QED BY <1>3, <1>6, <1>7, <1>11, <2>1, <2>2
<1>12. CASE ~Starts(f) /\ EndsUnseen(f) /\ Finishes(f)
  <2>1. recording \in Call /\ finishing \in Call
    BY <1>8, <1>9, <1>12 DEF Fresh
  <2>2. Issued(f) = <<recording>> \o <<finishing>>
    BY <1>10, <1>12, <2>1
  <2>3. /\ <<recording>> \in Seq(Call) /\ Len(<<recording>>) = 1 /\ <<recording>>[1] = recording
        /\ <<finishing>> \in Seq(Call) /\ Len(<<finishing>>) = 1 /\ <<finishing>>[1] = finishing
    BY <2>1
  <2>4. /\ Issued(f) \in Seq(Call) /\ Len(Issued(f)) = 2
        /\ Issued(f)[1] = recording /\ Issued(f)[2] = finishing
    BY <2>2, <2>3, ConcatProperties
  <2>5. DOMAIN Issued(f) = {1, 2}
    BY <2>4
  <2> QED BY <1>4, <1>6, <1>8, <1>9, <1>12, <2>4, <2>5
<1>13. CASE ~Starts(f) /\ EndsUnseen(f) /\ ~Finishes(f)
  <2>1. recording \in Call
    BY <1>8, <1>13 DEF Fresh
  <2>2. Issued(f) = <<recording>>
    BY <1>10, <1>13, <2>1
  <2> QED BY <1>4, <1>6, <1>8, <1>13, <2>1, <2>2
<1>14. CASE ~Starts(f) /\ ~EndsUnseen(f) /\ Finishes(f)
  <2>1. finishing \in Call
    BY <1>9, <1>14 DEF Fresh
  <2>2. Issued(f) = <<finishing>>
    BY <1>10, <1>14, <2>1
  <2> QED BY <1>9, <1>14, <2>1, <2>2
<1>15. CASE ~Starts(f) /\ ~EndsUnseen(f) /\ ~Finishes(f)
  <2>1. Issued(f) = <<>>
    BY <1>10, <1>15
  <2> QED BY <2>1, EmptySeq
<1> QED BY <1>11, <1>12, <1>13, <1>14, <1>15

(* Calls put behind the others, at most one of which may insert, for a     *)
(* task no other call may insert for.                                      *)
LEMMA CallsMade ==
  ASSUME PgIInv, NEW new \in Seq(Call), calls' = calls \o new,
         UNCHANGED <<rows, fate, closing>>,
         \A k \in DOMAIN new :
           /\ Fresh(new[k])
           /\ MayInsert(new[k]) => k = 1 /\ ~Calling(new[k].task)
  PROVE  /\ CallsPart'
         /\ \A t \in Tasks : Calling(t)' =>
              Calling(t) \/ \E k \in DOMAIN new : MayInsert(new[k]) /\ new[k].task = t
<1>1. calls \in Seq(Call) /\ closing \in BOOLEAN
  BY DEF PgIInv
<1>2. /\ calls' \in Seq(Call)
      /\ \A k \in DOMAIN calls' :
           \/ k \in DOMAIN calls /\ calls'[k] = calls[k]
           \/ /\ k \notin DOMAIN calls
              /\ k - Len(calls) \in DOMAIN new /\ calls'[k] = new[k - Len(calls)]
  BY <1>1, CallsAdded
<1>3. CallsInv'
  <2> SUFFICES ASSUME NEW k \in DOMAIN calls'
               PROVE  CallIsLegal(calls'[k], Done) /\ AnswerIsTrue(calls'[k], rows)
    BY DEF CallsInv, Done
  <2>1. CASE k \in DOMAIN calls /\ calls'[k] = calls[k]
    BY <2>1 DEF PgIInv, CallsInv
  <2>2. ASSUME NEW l \in DOMAIN new, calls'[k] = new[l]
        PROVE  CallIsLegal(calls'[k], Done) /\ AnswerIsTrue(calls'[k], rows)
    BY <2>2 DEF Fresh, AnswerIsTrue
  <2> QED BY <1>2, <2>1, <2>2
<1>4. OneMayInsert'
  <2> SUFFICES ASSUME NEW k \in DOMAIN calls', NEW l \in DOMAIN calls',
                      MayInsert(calls'[k]), MayInsert(calls'[l]),
                      calls'[k].task = calls'[l].task
               PROVE  k = l
    BY DEF OneMayInsert, MayInsert
  <2>1. CASE k \in DOMAIN calls /\ l \in DOMAIN calls
    <3>1. calls'[k] = calls[k] /\ calls'[l] = calls[l]
      BY <1>2, <2>1
    <3> QED BY <2>1, <3>1 DEF PgIInv, OneMayInsert
  <2>2. CASE k \notin DOMAIN calls /\ l \notin DOMAIN calls
    <3>1. k - Len(calls) = 1 /\ l - Len(calls) = 1
      BY <1>2, <2>2
    <3>2. k \in Nat /\ l \in Nat /\ Len(calls) \in Nat
      BY <1>1, <1>2
    <3> QED BY <3>1, <3>2
  <2>3. ASSUME NEW a \in DOMAIN calls, NEW b \in DOMAIN calls', b \notin DOMAIN calls,
               calls'[a] = calls[a], MayInsert(calls[a]), MayInsert(calls'[b]),
               calls[a].task = calls'[b].task
        PROVE  FALSE
    <3>1. Calling(calls'[b].task)
      BY <2>3 DEF Calling
    <3> QED BY <1>2, <2>3, <3>1
  <2>4. (k \in DOMAIN calls => calls'[k] = calls[k]) /\ (l \in DOMAIN calls => calls'[l] = calls[l])
    BY <1>2
  <2> QED BY <2>1, <2>2, <2>3, <2>4
<1>5. ASSUME NEW t \in Tasks, NEW k \in DOMAIN calls', MayInsert(calls'[k]), calls'[k].task = t
      PROVE  Calling(t) \/ \E l \in DOMAIN new : MayInsert(new[l]) /\ new[l].task = t
  BY <1>2, <1>5 DEF Calling
<1>6. \A t \in Tasks : Calling(t)' => \E k \in DOMAIN calls' : MayInsert(calls'[k]) /\ calls'[k].task = t
  BY DEF Calling, MayInsert
<1> QED BY <1>1, <1>2, <1>3, <1>4, <1>5, <1>6 DEF CallsPart

(* A frame is handled: the calls it makes may insert only for a task that  *)
(* no call in progress is about, for that task was not reported before.    *)
LEMMA PgDeliverStep ==
  ASSUME PgIInv, PgDeliverStatus
  PROVE  PgIInv'
<1> DEFINE f == Head(wire)
<1>0. IInv /\ TypeOK /\ PrinterInv
  BY DEF PgIInv, IInv
<1>1. /\ wire # <<>> /\ wire' = Tail(wire) /\ f.kind = "status"
      /\ UNCHANGED <<pStatus, pTask, fate, linkUp, serverUp, stop, stopsMade, rows, closing>>
      /\ calls' = calls \o Issued(f)
      /\ lastStatus' = f.status /\ lastTask' = f.task
      /\ notified' = IF Finishes(f) /\ f.task \in Tasks
                     THEN [notified EXCEPT ![f.task] = @ + 1] ELSE notified
  BY DEF PgDeliverStatus, printerVars, stopVars
<1>2. f \in StatusFrame /\ TrueFrame(f)
  BY <1>0, <1>1, TakeFirst DEF AckFrame
<1>3. wire' \in Seq(StatusFrame \union AckFrame) /\ WireInv'
  BY <1>0, <1>1, TakeFirst
<1>4. \A t \in Tasks : f.task = t => ReportedAfter(t, 0)
  <2>1. f = wire[1] /\ 1 \in DOMAIN wire
    <3> DEFINE Message == StatusFrame \union AckFrame
    <3>1. wire \in Seq(Message)
      BY <1>0 DEF TypeOK
    <3> HIDE DEF Message
    <3> QED BY <1>1, <3>1
  <2> QED BY <1>1, <2>1 DEF ReportedAfter, Names
<1> HIDE DEF f
<1>5. f.task \in TaskIds /\ f.status \in Statuses
  BY <1>2 DEF StatusFrame
<1>6. NewTask(f) => f.task \in Tasks /\ ~Calling(f.task)
  BY <1>4, <1>5 DEF NewTask, TaskIds, PgIInv, CallsArePast
<1>7. /\ Issued(f) \in Seq(Call)
      /\ \A k \in DOMAIN Issued(f) :
           /\ Fresh(Issued(f)[k])
           /\ MayInsert(Issued(f)[k]) => k = 1 /\ Issued(f)[k].task = f.task /\ NewTask(f)
  BY <1>2, IssuedFacts
<1>8. /\ CallsPart'
      /\ \A t \in Tasks : Calling(t)' =>
           Calling(t) \/ \E k \in DOMAIN Issued(f) : MayInsert(Issued(f)[k]) /\ Issued(f)[k].task = t
  <2> DEFINE new == Issued(f)
  <2>1. \A k \in DOMAIN new : /\ Fresh(new[k])
                              /\ MayInsert(new[k]) => k = 1 /\ ~Calling(new[k].task)
    BY <1>6, <1>7
  <2>2. new \in Seq(Call) /\ calls' = calls \o new /\ UNCHANGED <<rows, fate, closing>>
    BY <1>1, <1>7
  <2> HIDE DEF new
  <2>3. /\ CallsPart'
        /\ \A t \in Tasks : Calling(t)' =>
             Calling(t) \/ \E k \in DOMAIN new : MayInsert(new[k]) /\ new[k].task = t
    BY <2>1, <2>2, CallsMade
  <2> QED BY <2>3 DEF new
<1>9. \A t \in Tasks : Calling(t)' => Calling(t) \/ lastTask' = t
  BY <1>1, <1>7, <1>8
<1>10. ReportsPart'
  <2>1. lastTask' = IF Head(wire).kind = "status" THEN Head(wire).task ELSE lastTask
    BY <1>1 DEF f
  <2> QED BY <1>1, <1>9, <2>1, ReportsTaken
<1>11. IInv'
  <2>1. notified' \in [Tasks -> Nat]
    BY <1>0, <1>1 DEF TypeOK
  <2>2. TypeOK'
    BY <1>0, <1>1, <1>3, <1>5, <2>1 DEF TypeOK
  <2>3. PrinterInv'
    BY <1>0, <1>1 DEF PrinterInv
  <2>4. RowTasksInv' /\ OneOpenRowPerTask' /\ CompleteIsTrue'
    BY <1>0, <1>1 DEF IInv, RowTasksInv, OneOpenRowPerTask, OpenRows, CompleteIsTrue
  <2> QED BY <1>3, <2>2, <2>3, <2>4 DEF IInv
<1> QED BY <1>8, <1>10, <1>11, PgParts, PTL

(* The stop route issues a call that closes rows only. *)
LEMMA PgStopStep ==
  ASSUME PgIInv, PgStopDone
  PROVE  PgIInv'
<1>0. IInv /\ TypeOK /\ PrinterInv /\ lastTask \in TaskIds
  BY DEF PgIInv, IInv, TypeOK
<1>1. /\ UNCHANGED <<pStatus, pTask, fate, linkUp, wire, serverUp, lastStatus, lastTask,
                     stopsMade, rows, notified, closing>>
      /\ stop' = "none"
  BY DEF PgStopDone, printerVars, storeVars
<1>2. PICK new \in Seq(Call) : /\ calls' = calls \o new
                               /\ \A k \in DOMAIN new : Fresh(new[k]) /\ ~MayInsert(new[k])
  <2> DEFINE call == Begin("finish", lastTask, "stopped")
  <2>1. Fresh(call) /\ ~MayInsert(call)
    BY <1>0, BegunIsFresh
  <2>2. calls \in Seq(Call)
    BY DEF PgIInv
  <2> HIDE DEF call
  <2>3. call \in Call
    BY <2>1 DEF Fresh
  <2>4. CASE closing
    <3>1. calls' = calls \o <<>>
      BY <2>2, <2>4 DEF PgStopDone
    <3>2. <<>> \in Seq(Call) /\ DOMAIN <<>> = {}
      BY EmptySeq
    <3> QED BY <3>1, <3>2
  <2>5. CASE ~closing
    <3>1. calls' = calls \o <<call>>
      BY <2>2, <2>3, <2>5, AppendIsConcat DEF PgStopDone, call
    <3>2. <<call>> \in Seq(Call) /\ \A k \in DOMAIN <<call>> : <<call>>[k] = call
      BY <2>3
    <3> QED BY <2>1, <3>1, <3>2
  <2> QED BY <2>4, <2>5
<1>3. CallsPart' /\ \A t \in Tasks : Calling(t)' => Calling(t)
  BY <1>1, <1>2, CallsMade
<1>4. ReportsPart'
  BY <1>1, <1>3, ReportsOfStill
<1>5. IInv'
  <2>1. TypeOK'
    BY <1>0, <1>1 DEF TypeOK
  <2>2. PrinterInv'
    BY <1>0, <1>1 DEF PrinterInv
  <2> QED BY <1>0, <1>1, <2>1, <2>2, UntouchedHistory DEF IInv
<1> QED BY <1>3, <1>4, <1>5, PgParts, PTL

(* Shutdown closes the link; the calls go on until the process ends. *)
LEMMA ShutdownStep ==
  ASSUME PgIInv, Shutdown
  PROVE  PgIInv'
<1>0. IInv /\ TypeOK /\ PrinterInv
  BY DEF PgIInv, IInv
<1>1. /\ UNCHANGED <<pStatus, pTask, fate, serverUp, lastStatus, lastTask,
                     stopsMade, rows, notified, calls>>
      /\ linkUp' = FALSE /\ wire' = <<>> /\ closing' \in BOOLEAN
      /\ stop' \in {"none", "acked"}
  BY <1>0 DEF Shutdown, printerVars, storeVars
<1>2. CallsPart'
  BY <1>1, CallsUntouched
<1>3. ReportsPart'
  <2>1. \A t \in Tasks : (Known(t) => Known(t)') /\ (Calling(t)' => Calling(t))
    BY <1>1 DEF Known, Calling
  <2> QED BY <1>1, <2>1, ReportsCut
<1>4. IInv'
  <2>1. TypeOK'
    <3>1. wire' \in Seq(StatusFrame \union AckFrame)
      BY <1>1, EmptySeq
    <3> QED BY <1>0, <1>1, <3>1 DEF TypeOK
  <2>2. PrinterInv' /\ WireInv'
    BY <1>0, <1>1 DEF PrinterInv, WireInv
  <2>3. RowTasksInv' /\ OneOpenRowPerTask' /\ CompleteIsTrue'
    BY <1>0, <1>1 DEF IInv, RowTasksInv, OneOpenRowPerTask, OpenRows, CompleteIsTrue
  <2> QED BY <2>1, <2>2, <2>3 DEF IInv
<1> QED BY <1>2, <1>3, <1>4, PgParts, PTL

-----------------------------------------------------------------------------
(* The steps the history has no part in: the calls stay as they are.       *)
LEMMA StillStep ==
  ASSUME PgIInv, UNCHANGED <<calls, closing, rows>>, IInv', ReportsPart',
         \A t \in Tasks : fate[t] = "complete" => fate'[t] = "complete"
  PROVE  PgIInv'
<1>1. CallsPart'
  <2>1. closing' \in BOOLEAN
    BY DEF PgIInv
  <2> QED BY <2>1, CallsUntouched
<1> QED BY <1>1, PgParts, PTL

LEMMA PgPrinterSteps ==
  ASSUME PgIInv, PrinterNext, UNCHANGED pgVars
  PROVE  PgIInv'
<1>0. IInv /\ TypeOK /\ PrinterInv /\ UNCHANGED <<calls, closing>>
  BY DEF PgIInv, IInv, pgVars
<1>1. \A t \in Tasks : Calling(t)' => Calling(t)
  BY <1>0 DEF Calling
<1>2. ASSUME NEW t \in Tasks, PrinterStart(t) PROVE PgIInv'
  <2>1. UNCHANGED <<wire, lastTask, rows>> /\ pTask' = t /\ fate[t] = "unused"
    BY <1>2 DEF PrinterStart, storeVars
  <2>2. \A u \in Tasks : fate'[u] = IF u = t THEN "running" ELSE fate[u]
    BY <1>0, <1>2 DEF PrinterStart, TypeOK
  <2>3. ReportsPart'
    BY <1>1, <2>1, <2>2, ReportsUntouched DEF Known
  <2>4. IInv'
    BY <1>0, <1>2, PrinterSteps
  <2> QED BY <1>0, <2>1, <2>2, <2>3, <2>4, StillStep
<1>3. ASSUME NEW status \in {"Complete", "Stopped"}, NEW ending \in {"complete", "stopped"},
             PrinterEnd(status, ending), IInv'
      PROVE  PgIInv'
  <2>1. UNCHANGED <<wire, lastTask, rows, pTask>>
    BY <1>3 DEF PrinterEnd, storeVars
  <2>2. /\ pTask \in Tasks /\ fate[pTask] \in {"running", "stopping"}
        /\ \A u \in Tasks : fate'[u] = IF u = pTask THEN ending ELSE fate[u]
    BY <1>0, <1>3 DEF PrinterEnd, TypeOK, PrinterInv
  <2>3. ReportsPart'
    BY <1>1, <2>1, <2>2, ReportsUntouched DEF Known
  <2> QED BY <1>0, <1>3, <2>1, <2>2, <2>3, StillStep
<1>4. CASE PrinterBlank
  <2>1. UNCHANGED <<wire, lastTask, rows, fate>> /\ pTask' = NoTask
    BY <1>4 DEF PrinterBlank, storeVars
  <2>2. ReportsPart'
    BY <1>1, <2>1, NoTaskAssumption, ReportsUntouched DEF Known
  <2>3. IInv'
    BY <1>0, <1>4, PrinterSteps
  <2> QED BY <1>0, <2>1, <2>2, <2>3, StillStep
<1>5. CASE PowerCycle
  <2>1. UNCHANGED <<lastTask, rows>> /\ pTask' = NoTask /\ wire' = <<>>
    BY <1>5 DEF PowerCycle, storeVars
  <2>2. \A t \in Tasks : fate'[t] = fate[t]
                           \/ (fate[t] \in {"running", "stopping"} /\ fate'[t] = "lost")
    BY <1>0, <1>5 DEF PowerCycle, PrinterInv, TypeOK
  <2>3. ReportsPart'
    <3>1. \A t \in Tasks : Known(t) => Known(t)'
      BY <2>2 DEF Known
    <3> QED BY <1>1, <2>1, <3>1, ReportsCut
  <2>4. IInv'
    BY <1>0, <1>5, CutSteps
  <2> QED BY <1>0, <2>1, <2>2, <2>3, <2>4, StillStep
<1>6. CASE PrinterPush \/ PrinterTakesStop
  <2>1. UNCHANGED rows /\ \A t \in Tasks : fate[t] = "complete" => fate'[t] = "complete"
    BY <1>0, <1>6 DEF PrinterPush, PrinterTakesStop, printerVars, PrinterInv, TypeOK
  <2>2. ReportsPart'
    BY <1>0, <1>6, ReportsSent
  <2>3. IInv'
    BY <1>0, <1>6, SendSteps
  <2> QED BY <1>0, <2>1, <2>2, <2>3, StillStep
<1>7. PrinterComplete \/ PrinterStopped => IInv'
  BY <1>0, PrinterSteps
<1> QED BY <1>2, <1>3, <1>4, <1>5, <1>6, <1>7 DEF PrinterNext, PrinterComplete, PrinterStopped

LEMMA PgLinkSteps ==
  ASSUME PgIInv, UNCHANGED pgVars,
         Connect \/ ServerStart \/ StopRequest \/ StopTimeout \/ Disconnect \/ DeliverAck
  PROVE  PgIInv'
<1>0. IInv /\ UNCHANGED <<calls, closing>>
  BY DEF PgIInv, pgVars
<1>1. UNCHANGED <<fate, rows, pTask, lastTask>>
  BY DEF Connect, ServerStart, StopRequest, StopTimeout, Disconnect, DeliverAck,
         printerVars, storeVars
<1>2. \A t \in Tasks : (Known(t) => Known(t)') /\ (Calling(t)' => Calling(t))
  BY <1>0, <1>1 DEF Known, Calling
<1>3. CASE Connect \/ ServerStart \/ StopRequest \/ StopTimeout
  <2>1. UNCHANGED wire
    BY <1>3 DEF Connect, ServerStart, StopRequest, StopTimeout
  <2>2. ReportsPart'
    BY <1>1, <1>2, <2>1, ReportsOfStill
  <2>3. IInv'
    BY <1>0, <1>3, QuietSteps
  <2> QED BY <1>0, <1>1, <2>2, <2>3, StillStep
<1>4. CASE Disconnect
  <2>1. wire' = <<>>
    BY <1>4 DEF Disconnect
  <2>2. ReportsPart'
    BY <1>1, <1>2, <2>1, ReportsCut
  <2>3. IInv'
    BY <1>0, <1>4, CutSteps
  <2> QED BY <1>0, <1>1, <2>2, <2>3, StillStep
<1>5. CASE DeliverAck
  <2>1. wire # <<>> /\ wire' = Tail(wire) /\ Head(wire).kind # "status"
    BY <1>5 DEF DeliverAck
  <2>2. ReportsPart'
    BY <1>1, <1>2, <2>1, ReportsTaken
  <2>3. IInv'
    BY <1>0, <1>5, AckStep
  <2> QED BY <1>0, <1>1, <2>2, <2>3, StillStep
<1> QED BY <1>3, <1>4, <1>5

LEMMA NextPgIInv == PgIInv /\ [PgNext]_allVars => PgIInv'
<1> SUFFICES ASSUME PgIInv, [PgNext]_allVars PROVE PgIInv'
  OBVIOUS
<1>1. CASE UNCHANGED allVars
  <2>1. UNCHANGED vars /\ UNCHANGED <<calls, closing>>
    BY <1>1 DEF allVars, pgVars
  <2>2. UNCHANGED <<pTask, fate, wire, lastTask, rows>>
    BY <2>1 DEF vars, printerVars, storeVars
  <2>3. \A t \in Tasks : Calling(t)' => Calling(t)
    BY <2>1 DEF Calling
  <2>4. ReportsPart'
    BY <2>2, <2>3, ReportsOfStill
  <2>5. IInv'
    BY <2>1, NextIInv DEF PgIInv
  <2> QED BY <2>1, <2>2, <2>4, <2>5, StillStep
<1>2. ASSUME NEW i \in DOMAIN calls, Select(i) \/ Write(i) \/ Resume(i) \/ QueryFails(i)
      PROVE  PgIInv'
  BY <1>2, SelectStep, WriteStep, ResumeStep, QueryFailsStep
<1>3. ASSUME PgNext, ~(\E i \in DOMAIN calls : Select(i) \/ Write(i) \/ Resume(i) \/ QueryFails(i))
      PROVE  PgIInv'
  BY <1>3, PgPrinterSteps, PgLinkSteps, ProcessEndsStep, PgDeliverStep, PgStopStep, ShutdownStep
     DEF PgNext
<1> QED BY <1>1, <1>2, <1>3

LEMMA PgIInvAlways == PgSpec => []PgIInv
BY InitPgIInv, NextPgIInv, PTL DEF PgSpec

-----------------------------------------------------------------------------
(* The variables of the tracking, the calls and the shutdown have their    *)
(* types (postgres-history.ts).                                            *)
THEOREM PgTypeCorrect == PgSpec => []PgTypeOK
<1>1. PgIInv => PgTypeOK
  BY DEF PgIInv, IInv, PgTypeOK
<1> QED BY <1>1, PgIInvAlways, PTL

(* No INSERT adds a second open row of a task, or a finished row beside    *)
(* one there is: the SELECT it goes by is still true, whatever calls       *)
(* overlap, fail or are lost (postgres-history.ts:64, 106).                *)
THEOREM InsertsAreFirst == PgSpec => []InsertIsNotSecond
<1>1. PgIInv => InsertIsNotSecond
  BY DEF PgIInv, CallsInv, AnswerIsTrue, InsertIsNotSecond
<1> QED BY <1>1, PgIInvAlways, PTL

(* Nor does the table get two open rows of a task in any other way, or a   *)
(* completion the printer did not reach (postgres-history.ts:80-112).      *)
THEOREM PgTableIsSound == PgSpec => [](OneOpenRowPerTask /\ CompleteIsTrue)
<1>1. PgIInv => OneOpenRowPerTask /\ CompleteIsTrue
  BY DEF PgIInv, IInv
<1> QED BY <1>1, PgIInvAlways, PTL

LEMMA PgNextOneStep ==
  ASSUME PgIInv, [PgNext]_allVars
  PROVE  OneStep(rows, rows')
<1>1. ASSUME NEW i \in DOMAIN calls, Write(i)
      PROVE  OneStep(rows, rows')
  BY <1>1, WrittenSound DEF Write
<1>2. ASSUME NEW i \in DOMAIN calls, Select(i) \/ Resume(i) \/ QueryFails(i)
      PROVE  UNCHANGED rows
  BY <1>2 DEF Select, Resume, QueryFails, ProcessEnds, ServerDown, vars
<1>3. CASE UNCHANGED allVars
  BY <1>3 DEF allVars, vars, OneStep
<1>4. CASE /\ PgNext
           /\ ~\E i \in DOMAIN calls : Select(i) \/ Write(i) \/ Resume(i) \/ QueryFails(i)
  <2>1. UNCHANGED rows
    BY <1>4 DEF PgNext, PrinterNext, PrinterStart, PrinterComplete, PrinterStopped,
         PrinterEnd, PrinterBlank, PowerCycle, PrinterPush, PrinterTakesStop, Connect,
         Disconnect, ServerStart, ServerDown, DeliverAck, StopRequest, StopTimeout,
         ProcessEnds, PgDeliverStatus, PgStopDone, Shutdown
  <2> QED BY <2>1 DEF OneStep
<1> QED BY <1>1, <1>2, <1>3, <1>4 DEF OneStep

(* However the statements of unawaited calls interleave, fail and are      *)
(* lost, each of them is one step of the ledger or none                    *)
(* (postgres-history.ts).                                                  *)
THEOREM PgLedgerImplemented == PgSpec => ImplementsLedger
<1>1. PgInit => Ledger!LedgerInit
  BY DEF PgInit, Init, Ledger!LedgerInit
<1>2. PgIInv /\ [PgNext]_allVars => [Ledger!LedgerNext]_rows
  BY PgNextOneStep, LedgerStep
<1> QED BY <1>1, <1>2, PgIInvAlways, PTL DEF PgSpec, ImplementsLedger, Ledger!LedgerSpec

=============================================================================
