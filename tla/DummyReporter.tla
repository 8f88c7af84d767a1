--------------------------- MODULE DummyReporter ---------------------------
(***************************************************************************)
(* The file reporter (reporter/dummy-reporter.go): the shared queue, and a *)
(* work loop that writes each report over the previous one in the file and *)
(* counts the case under status 200 or 500.                                *)
(***************************************************************************)
EXTENDS WorkQueue

VARIABLES file,    \* the case whose report the file holds, NoCase when truncated
          metrics  \* the counter, by status code

fileVars == <<queueVars, file, metrics>>

FileCodes == {"200", "500"}

FileInit ==
  /\ QueueInit
  /\ file = NoCase
  /\ metrics = [s \in FileCodes |-> 0]

FileCount(s) == metrics' = [metrics EXCEPT ![s] = @ + 1]

\* The level is wrong, or the marshaller refuses the data.
FileWorkFails ==
  /\ Work
  /\ FileCount("500")
  /\ UNCHANGED file

\* os.WriteFile truncates before it writes; an error of either is only logged,
\* and the case is counted as reported.
FileWorkWrites ==
  /\ Work
  /\ file' \in {current, file, NoCase}
  /\ FileCount("200")

FileQueueStep ==
  /\ Start \/ Stop \/ Receive \/ Done \/ Exit \/ \E c \in Cases : Report(c)
  /\ UNCHANGED <<file, metrics>>

FileNext == FileQueueStep \/ FileWorkFails \/ FileWorkWrites

FileSpec ==
  /\ FileInit
  /\ [][FileNext]_fileVars
  /\ QueueFairness
  /\ WF_fileVars(FileWorkFails \/ FileWorkWrites)

-----------------------------------------------------------------------------
FileTypeOK ==
  /\ QueueTypeOK
  /\ file \in Cases \cup {NoCase}
  /\ metrics \in [FileCodes -> Nat]

\* Every case the loop dealt with is counted once, under one status.
FileCountedOnce == metrics["200"] + metrics["500"] = Len(handled)
=============================================================================
