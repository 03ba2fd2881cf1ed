------------------------------ MODULE Backfill ------------------------------
(***************************************************************************)
(* `token-burn otel-backfill` (newOTelBackfillCommand in                   *)
(* internal/cli/root.go, HistoryBatch in internal/store/store.go, Export   *)
(* in internal/otel/backfill.go): stored samples are sent to an OTLP       *)
(* endpoint in batches, while the daemon stores more of them.  A command   *)
(* that has failed is run again with --after-id, the last id it printed.   *)
(***************************************************************************)
EXTENDS Naturals, Sequences, FiniteSets

CONSTANTS
  MaxRows,      \* most samples in the database
  BatchSize,    \* --batch-size
  Limits,       \* values given to --limit; 0 is none
  MaxFailures   \* most commands that fail or are killed

VARIABLES
  rows,      \* whether the sample of each id matches the filter, in insertion order
  stored,    \* how often the endpoint has stored each sample
  command,   \* the running command
  printed,   \* the last id a command with --send has printed
  failures   \* commands that have failed

vars == <<rows, stored, command, printed, failures>>

Ids == 1..MaxRows

NoCommand ==
  [pc |-> "none", send |-> FALSE, limit |-> 0, cursor |-> 0, total |-> 0,
   batch |-> {}, known |-> 0]

Init ==
  /\ rows = <<>>
  /\ stored = [i \in Ids |-> 0]
  /\ command = NoCommand
  /\ printed = 0
  /\ failures = 0

Matching == { i \in DOMAIN rows : rows[i] }

\* The first `limit` matching samples with an id after the given one
HistoryBatch(after, limit) ==
  LET later == { i \in Matching : i > after }
  IN  { i \in later : Cardinality({ j \in later : j <= i }) <= limit }

Last(batch) == CHOOSE i \in batch : \A j \in batch : j <= i

-----------------------------------------------------------------------------
\* The daemon stores a sample (InsertSnapshot; sqlite has one writer at a
\* time, so that ids are given in the order of the commits)
Insert(matches) ==
  /\ Len(rows) < MaxRows
  /\ rows' = Append(rows, matches)
  /\ UNCHANGED <<stored, command, printed, failures>>

Begin(send, limit) ==
  /\ command.pc \in {"none", "complete"}
  /\ command' = [NoCommand EXCEPT !.pc = "query", !.send = send, !.limit = limit,
                                  !.cursor = printed, !.known = Len(rows)]
  /\ UNCHANGED <<rows, stored, printed, failures>>

QueryLimit ==
  IF command.limit > 0 /\ command.limit - command.total < BatchSize
  THEN command.limit - command.total
  ELSE BatchSize

\* Mutant of Advanced: the cursor counts samples instead of following their ids
AdvancedByCount(batch) ==
  [command EXCEPT !.pc = "query", !.cursor = @ + Cardinality(batch),
                  !.total = @ + Cardinality(batch), !.batch = {}]

Advanced(batch) ==
  [command EXCEPT !.pc = "query", !.cursor = Last(batch),
                  !.total = @ + Cardinality(batch), !.batch = {}]

Query ==
  /\ command.pc = "query"
  /\ LET batch == HistoryBatch(command.cursor, QueryLimit)
     IN  command' = IF batch = {} THEN [command EXCEPT !.pc = "complete"]
                    ELSE IF command.send THEN [command EXCEPT !.pc = "export", !.batch = batch]
                    ELSE Advanced(batch)
  /\ UNCHANGED <<rows, stored, printed, failures>>

Store(batch) ==
  stored' = [i \in Ids |-> IF i \in batch THEN stored[i] + 1 ELSE stored[i]]

\* The endpoint has stored the batch and says so
Export ==
  /\ command.pc = "export"
  /\ Store(command.batch)
  /\ command' = Advanced(command.batch)
  /\ printed' = Last(command.batch)
  /\ UNCHANGED <<rows, failures>>

\* Mutant of ExportFails: the progress is printed before the answer is looked at
ExportFailsAfterPrint ==
  /\ command.pc = "export"
  /\ failures < MaxFailures
  /\ \E part \in SUBSET command.batch : Store(part)
  /\ command' = NoCommand
  /\ printed' = Last(command.batch)
  /\ failures' = failures + 1
  /\ UNCHANGED rows

\* The request or its answer is lost, the endpoint refuses the batch or some
\* of its points, or the command is killed: any part of the batch may be
\* stored, and nothing is printed
ExportFails ==
  /\ command.pc = "export"
  /\ failures < MaxFailures
  /\ \E part \in SUBSET command.batch : Store(part)
  /\ command' = NoCommand
  /\ failures' = failures + 1
  /\ UNCHANGED <<rows, printed>>

Next ==
  \/ \E matches \in BOOLEAN : Insert(matches)
  \/ \E send \in BOOLEAN, limit \in Limits : Begin(send, limit)
  \/ Query
  \/ Export
  \/ ExportFails

Spec == Init /\ [][Next]_vars

-----------------------------------------------------------------------------
(***************************************************************************)
(* Properties                                                              *)
(***************************************************************************)
\* The endpoint has every sample up to the last id printed, and, when a command
\* without a limit is complete, every one that was there when it began
NothingMissed ==
  /\ \A i \in Matching : i <= printed => stored[i] > 0
  /\ command.pc = "complete" /\ command.send /\ command.limit = 0
       => \A i \in Matching : i <= command.known => stored[i] > 0

\* A sample is stored again only because a command has failed
DuplicatesExplained == \A i \in Ids : stored[i] <= 1 + failures

\* To resume after the last printed id (README, "resume an interrupted export
\* with --after-id") misses no sample, however often a command has failed, and
\* repeats none without such a failure: not because of the samples the daemon
\* inserts meanwhile, of the limit, or of where the batches end
ResumeIsExact == NothingMissed /\ DuplicatesExplained

=============================================================================
