----------------------------- MODULE PolicyEngine -----------------------------
(***************************************************************************)
(* The policy in force (internal/central/policy.go, server.go): loaded     *)
(* when central starts, reloaded by the file watcher's goroutine and by    *)
(* the goroutine that handles SIGHUP.  A reload reads the file, parses and *)
(* validates it, and stores a pointer: two steps, of two goroutines.       *)
(*                                                                         *)
(* The file holds one of Documents, some of which do not pass validate, or *)
(* Broken: missing, unreadable or half-written.  Every change of the file  *)
(* sends the watcher an event once Watch has begun.                        *)
(***************************************************************************)
EXTENDS Policy

CONSTANTS Documents,   \* policy documents
          Broken,      \* a file that cannot be read or parsed
          Idle,        \* no document
          MaxEdits     \* bound: changes of the file

ASSUME DocumentAssumption ==
  /\ Documents \subseteq PolicyDocument
  /\ Broken \notin Documents /\ Idle \notin Documents \cup {Broken} /\ MaxEdits \in Nat
  /\ \E d \in Documents : validate(d)

Loops == {"watch", "hup"}

VARIABLES
  file,      \* contents of the policy file
  current,   \* PolicyEngine.current
  watching,  \* Watch has begun
  wakes,     \* Loops -> events not handled yet: file changes, or a SIGHUP
  reload,    \* Loops -> what the reload in progress has read, Idle if none
  edits,     \* changes so far
  raced      \* reloads overlapped, or the file changed before Watch (history)

vars == <<file, current, watching, wakes, reload, edits, raced>>

TypeOK ==
  /\ file \in Documents \cup {Broken} /\ current \in Documents
  /\ watching \in BOOLEAN /\ raced \in BOOLEAN
  /\ wakes \in [Loops -> 0..MaxEdits + 1]
  /\ reload \in [Loops -> Documents \cup {Broken, Idle}]
  /\ edits \in 0..MaxEdits

(* NewPolicyEngineFromFile: central does not start with a bad policy. *)
Init ==
  /\ file \in {d \in Documents : validate(d)}
  /\ current = file
  /\ watching = FALSE
  /\ wakes = [l \in Loops |-> 0]
  /\ reload = [l \in Loops |-> Idle]
  /\ edits = 0 /\ raced = FALSE

(* Run starts the watcher and the signal handler. *)
Watch ==
  /\ ~watching /\ watching' = TRUE
  /\ UNCHANGED <<file, current, wakes, reload, edits, raced>>

(* Someone changes the file. *)
Edit(d) ==
  /\ edits < MaxEdits /\ d # file
  /\ file' = d /\ edits' = edits + 1
  /\ wakes' = IF watching THEN [wakes EXCEPT !["watch"] = @ + 1] ELSE wakes
  /\ raced' = (raced \/ ~watching)
  /\ UNCHANGED <<current, watching, reload>>

(* A SIGHUP: the channel has room for one. *)
Hup ==
  /\ watching /\ wakes["hup"] = 0
  /\ wakes' = [wakes EXCEPT !["hup"] = 1]
  /\ UNCHANGED <<file, current, watching, reload, edits, raced>>

(* Reload, loadPolicyFile. *)
LoadPolicyFile(l) ==
  /\ wakes[l] > 0 /\ reload[l] = Idle
  /\ wakes' = [wakes EXCEPT ![l] = @ - 1]
  /\ reload' = [reload EXCEPT ![l] = file]
  /\ raced' = (raced \/ \E k \in Loops : reload[k] # Idle)
  /\ UNCHANGED <<file, current, watching, edits>>

(* Mutant of Store: a bad document stops the watcher's loop. *)
MutStore(l) ==
  /\ reload[l] \in Documents /\ validate(reload[l])
  /\ current' = reload[l]
  /\ reload' = [reload EXCEPT ![l] = Idle]
  /\ UNCHANGED <<file, watching, wakes, edits, raced>>

(* Reload, the rest: a document that does not parse or validate leaves the *)
(* current policy unchanged.                                               *)
Store(l) ==
  /\ reload[l] # Idle
  /\ current' = IF reload[l] \in Documents /\ validate(reload[l]) THEN reload[l] ELSE current
  /\ reload' = [reload EXCEPT ![l] = Idle]
  /\ UNCHANGED <<file, watching, wakes, edits, raced>>

Next ==
  \/ Watch \/ Hup \/ \E d \in Documents \cup {Broken} : Edit(d)
  \/ \E l \in Loops : LoadPolicyFile(l) \/ Store(l)

(* Run begins to watch, and both goroutines handle their events. *)
Fairness == WF_vars(Watch) /\ \A l \in Loops : WF_vars(LoadPolicyFile(l)) /\ WF_vars(Store(l))

Spec == Init /\ [][Next]_vars /\ Fairness

-------------------------------------------------------------------------------
(* Properties *)

(* The policy in force becomes the one in the file when that is valid and  *)
(* no longer changes, whatever half-written or invalid contents came       *)
(* before, unless a SIGHUP overlapped the watcher's reload or the file     *)
(* changed before Watch (policy.go 175-228).                               *)
CatchesUp ==
  \A d \in Documents :
    <>[](file = d /\ validate(d) /\ ~raced) => <>[](current = d)
===============================================================================
