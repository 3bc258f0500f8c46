------------------------------- MODULE Methods -------------------------------
(***************************************************************************)
(* The demo server's commands (examples/fennmoor-bank/server.py): each     *)
(* visitor's request is a thread, which takes one of a few slots, runs the *)
(* command as a process of its own, sends on what it prints, and gives the *)
(* slot back whatever happened: the visitor gone, the process killed by    *)
(* its timer, or never started.  What a process does is Ask's.             *)
(***************************************************************************)
EXTENDS Integers, FiniteSets

CONSTANTS
  Visitors, \* the requests for a command, each a visitor of its own
  Slots     \* METHODS_AT_ONCE

ASSUME MethodsAssumption == IsFiniteSet(Visitors) /\ Slots \in Nat \ {0}

VARIABLES
  place, \* where each visitor's thread is
  here,  \* whether the visitor still listens
  proc,  \* the command's process
  free   \* _busy: the slots left

methodVars == <<place, here, proc, free>>

Places == {"away", "asked", "queued", "starting", "reading", "closing", "over"}

MethodsInit ==
  /\ place = [v \in Visitors |-> "away"]
  /\ here = [v \in Visitors |-> TRUE]
  /\ proc = [v \in Visitors |-> "none"]
  /\ free = Slots

GoTo(v, p) == place' = [place EXCEPT ![v] = p]

Arrive(v) ==
  /\ place[v] = "away"
  /\ GoTo(v, "asked")
  /\ UNCHANGED <<here, proc, free>>

\* The connection is closed from the other side: a later send fails, or
\* goes to nobody.
Leave(v) ==
  /\ here[v] /\ place[v] \notin {"away", "over"}
  /\ here' = [here EXCEPT ![v] = FALSE]
  /\ UNCHANGED <<place, proc, free>>

\* A slot at once; or the wait is said, to a visitor who may be gone.
Acquire(v) ==
  /\ place[v] = "asked" /\ free > 0
  /\ GoTo(v, "starting") /\ free' = free - 1
  /\ UNCHANGED <<here, proc>>

Queue(v) ==
  /\ place[v] = "asked" /\ free = 0
  /\ GoTo(v, "queued") \/ (~ here[v] /\ GoTo(v, "over"))
  /\ UNCHANGED <<here, proc, free>>

Take(v) ==
  /\ place[v] = "queued" /\ free > 0
  /\ GoTo(v, "starting") /\ free' = free - 1
  /\ UNCHANGED <<here, proc>>

\* QUEUE_SECONDS have passed: refused.
GiveUp(v) ==
  /\ place[v] = "queued"
  /\ GoTo(v, "over")
  /\ UNCHANGED <<here, proc, free>>

PopenTwice(v) ==   \* mutant of Popen: a process that cannot be started gives its slot back twice
  /\ place[v] = "starting"
  /\ \/ GoTo(v, "reading") /\ proc' = [proc EXCEPT ![v] = "alive"] /\ UNCHANGED free
     \/ GoTo(v, "over") /\ free' = free + 2 /\ UNCHANGED proc
  /\ UNCHANGED here
\* The process and its timer; or it cannot be started.
Popen(v) ==
  /\ place[v] = "starting"
  /\ \/ GoTo(v, "reading") /\ proc' = [proc EXCEPT ![v] = "alive"] /\ UNCHANGED free
     \/ GoTo(v, "over") /\ free' = free + 1 /\ UNCHANGED proc
  /\ UNCHANGED here

NoTimer(v) == FALSE /\ UNCHANGED methodVars   \* mutant of Timer: the command has no limit
\* METHOD_SECONDS have passed: the process is killed where it stands.
Timer(v) ==
  /\ place[v] = "reading" /\ proc[v] = "alive"
  /\ proc' = [proc EXCEPT ![v] = "ended"]
  /\ UNCHANGED <<place, here, free>>

\* The process ends by itself.
Exit(v) ==
  /\ proc[v] = "alive"
  /\ proc' = [proc EXCEPT ![v] = "ended"]
  /\ UNCHANGED <<place, here, free>>

\* Its output is read to the end; or a line cannot be sent.
EndOfOutput(v) ==
  /\ place[v] = "reading" /\ (proc[v] = "ended" \/ ~ here[v])
  /\ GoTo(v, "closing")
  /\ UNCHANGED <<here, proc, free>>

CloseRunning(v) ==   \* mutant of Close: the process is left running
  /\ place[v] = "closing"
  /\ GoTo(v, "over") /\ free' = free + 1
  /\ UNCHANGED <<here, proc>>
\* The timer is cancelled, the process killed if it still runs, the slot
\* given back.
Close(v) ==
  /\ place[v] = "closing"
  /\ GoTo(v, "over") /\ free' = free + 1
  /\ proc' = [proc EXCEPT ![v] = "ended"]
  /\ UNCHANGED here

\* What the server does of itself, a visitor's thread and its timers.
Thread(v) == Acquire(v) \/ Queue(v) \/ Take(v) \/ GiveUp(v) \/ Popen(v) \/ EndOfOutput(v) \/ Close(v)
Outside(v) == Arrive(v) \/ Leave(v)

MethodsNext == \E v \in Visitors : Thread(v) \/ Outside(v) \/ Timer(v) \/ Exit(v)
MethodsSpec == MethodsInit /\ [][MethodsNext]_methodVars

-----------------------------------------------------------------------------

Holding == {v \in Visitors : place[v] \in {"starting", "reading", "closing"}}
Running == {v \in Visitors : proc[v] = "alive"}

\* The slots left are those nobody holds, through every way a command ends;
\* and a process only runs for a thread that holds one, so no more run at
\* once than there are slots.
SlotsHeld ==
  /\ free = Slots - Cardinality(Holding)
  /\ Running \subseteq Holding
  /\ Cardinality(Running) <= Slots
=============================================================================
