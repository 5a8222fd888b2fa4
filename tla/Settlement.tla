------------------------------ MODULE Settlement ------------------------------
(***************************************************************************)
(* What an action is to those who do not see its processes: the caller who *)
(* asked for it, the auditor who reads the log and the consumers of its    *)
(* events.  It is opened once and concluded at most once, with an outcome  *)
(* that all three are told of.  Meanwhile it may be written off, which is  *)
(* logged and which a conclusion replaces; what has been concluded is      *)
(* never written off.                                                      *)
(*                                                                         *)
(* There are no handlers, reapers, locks, timers or crashes here;          *)
(* ActionDispatch implements this.                                         *)
(***************************************************************************)
EXTENDS Sequences

CONSTANT Actions  \* what may be opened

VARIABLES
  status,    \* none, pending, completed or failed
  log,       \* what the auditor reads of each action, in order
  told,      \* what consumers are told of each, in order
  concluded  \* actions whose caller has the outcome

vars == <<status, log, told, concluded>>

Outcomes == {"completed", "failed"}
EntryOf(o) == IF o = "completed" THEN "action.complete" ELSE "action.fail"

Init ==
  /\ status = [a \in Actions |-> "none"]
  /\ log = [a \in Actions |-> << >>]
  /\ told = [a \in Actions |-> << >>]
  /\ concluded = {}

\* The log and the consumers learn the same.
Announce(a, entry) ==
  /\ log' = [log EXCEPT ![a] = Append(@, entry)]
  /\ told' = [told EXCEPT ![a] = Append(@, entry)]

Open(a) ==
  /\ status[a] = "none"
  /\ status' = [status EXCEPT ![a] = "pending"]
  /\ Announce(a, "action.dispatch")
  /\ UNCHANGED concluded

Conclude(a, o) ==
  /\ status[a] # "none" /\ a \notin concluded
  /\ status' = [status EXCEPT ![a] = o]
  /\ Announce(a, EntryOf(o))
  /\ concluded' = concluded \cup {a}

\* Only the log tells of a write-off.
WriteOff(S) ==
  /\ \A a \in S : status[a] = "pending"
  /\ status' = [a \in Actions |-> IF a \in S THEN "failed" ELSE status[a]]
  /\ log' = [a \in Actions |-> IF a \in S THEN Append(log[a], "reaper.fail") ELSE log[a]]
  /\ UNCHANGED <<told, concluded>>

Next ==
  \/ \E a \in Actions : Open(a) \/ \E o \in Outcomes : Conclude(a, o)
  \/ \E S \in SUBSET Actions : WriteOff(S)

Spec == Init /\ [][Next]_vars
===============================================================================
