----------------------------- MODULE CommandQueue -----------------------------
(***************************************************************************)
(* Central's queue of one-shot commands (internal/central/commands.go).    *)
(*                                                                         *)
(* A PendingCommand is a heap object reached through the map q.commands;   *)
(* Remove deletes the map entry while goroutines may still hold the object *)
(* (Complete sends on cmd.resultCh after it released the lock).  So map    *)
(* membership (queued) and the object's fields are separate variables.     *)
(*                                                                         *)
(* Each operation below is one critical section of q.mu.  Complete and     *)
(* Fail are two steps: the status change under the lock, then the          *)
(* non-blocking send on the result channel of capacity 1.                  *)
(***************************************************************************)

EXTENDS Names

VARIABLES
  queued,     \* request IDs in q.commands
  agentOf,    \* Requests -> PendingCommand.AgentID
  status,     \* Requests -> PendingCommand.Status
  resultCh    \* Requests -> content of resultCh, "empty" or one result

queueVars == <<queued, agentOf, status, resultCh>>

(* What a run of kubectl yields: exit code 0, another exit code, or an     *)
(* ErrorMessage because it could not be run.                               *)
Results == {"ok", "nonzero", "error"}

CommandStatuses == {"none", "pending", "running", "completed", "failed", "timeout"}

QueueTypeOK ==
  /\ queued \in SUBSET Requests
  /\ agentOf \in [Requests -> AgentIds \cup {None}]
  /\ status \in [Requests -> CommandStatuses]
  /\ resultCh \in [Requests -> Results \cup {"empty"}]

NewCommandQueue ==
  /\ queued = {}
  /\ agentOf = [r \in Requests |-> None]
  /\ status = [r \in Requests |-> "none"]
  /\ resultCh = [r \in Requests |-> "empty"]

-------------------------------------------------------------------------------
Enqueue(r, a) ==
  /\ queued' = queued \cup {r}
  /\ agentOf' = [agentOf EXCEPT ![r] = a]
  /\ status' = [status EXCEPT ![r] = "pending"]
  /\ UNCHANGED resultCh

(* Mutants of GetPendingForAgent: the status, or the agent, is not compared. *)
GetAllForAgent(a) == {r \in queued : agentOf[r] = a}

GetPendingForAnyone(a) == {r \in queued : status[r] = "pending"}

GetPendingForAgent(a) ==
  {r \in queued : agentOf[r] = a /\ status[r] = "pending"}

(* Mutant of MarkRunning: a copy of the command is changed, not the entry. *)
MarkRunningCopy(r) == UNCHANGED queueVars

(* MarkRunning overwrites whatever status the command has by then. *)
MarkRunning(r) ==
  /\ status' = IF r \in queued THEN [status EXCEPT ![r] = "running"] ELSE status
  /\ UNCHANGED <<queued, agentOf, resultCh>>

(* Mutant of SetFinished: the result itself is stored as the status. *)
SetFinishedRaw(r, res) ==
  /\ r \in queued
  /\ status' = [status EXCEPT ![r] = res]
  /\ UNCHANGED <<queued, agentOf, resultCh>>

(* The locked part of Complete(r) and of Fail(r), for a command still in   *)
(* the map; both return false and do nothing when it is gone.              *)
SetFinished(r, res) ==
  /\ r \in queued
  /\ status' = [status EXCEPT ![r] = IF res = "error" THEN "failed" ELSE "completed"]
  /\ UNCHANGED <<queued, agentOf, resultCh>>

(* Mutant of OfferResult: an unbuffered channel, no receiver ready. *)
OfferResultDropped(r, res) == UNCHANGED queueVars

(* select { case cmd.resultCh <- result: default: } *)
OfferResult(r, res) ==
  /\ resultCh' = IF resultCh[r] = "empty" THEN [resultCh EXCEPT ![r] = res] ELSE resultCh
  /\ UNCHANGED <<queued, agentOf, status>>

(* WaitForResult: case result := <-cmd.resultCh *)
TakeResult(r) ==
  /\ resultCh[r] # "empty"
  /\ resultCh' = [resultCh EXCEPT ![r] = "empty"]
  /\ UNCHANGED <<queued, agentOf, status>>

(* WaitForResult: case <-ctx.Done() *)
GiveUpWaiting(r) ==
  /\ status' = IF status[r] \in {"pending", "running"}
               THEN [status EXCEPT ![r] = "timeout"] ELSE status
  /\ UNCHANGED <<queued, agentOf, resultCh>>

(* Mutant of Remove: the deferred delete is forgotten. *)
RemoveForgotten(r) == UNCHANGED queueVars

Remove(r) ==
  /\ queued' = queued \ {r}
  /\ UNCHANGED <<agentOf, status, resultCh>>

(* The queue lives in memory: a new central process starts with none. *)
QueueLost ==
  /\ queued' = {}
  /\ UNCHANGED <<agentOf, status, resultCh>>
===============================================================================
