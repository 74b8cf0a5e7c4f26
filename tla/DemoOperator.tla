---------------------------- MODULE DemoOperator ----------------------------
(***************************************************************************)
(* Running one demo robot on one host (demo_operator.py): the registry row *)
(* in SQLite, the start commands that launch a worker, the worker's loop,  *)
(* and the console's stop, pause, resume, kill, release and flatten.       *)
(*                                                                         *)
(* Every registry method is one transaction.  Processes die anywhere; a    *)
(* process identifier is not reused.  What a worker's cycle and a flatten  *)
(* do to a record and its deal is the subject of DemoExecution.            *)
(***************************************************************************)
EXTENDS Naturals

CONSTANTS
    Starter,        \* start commands (DemoRobotController.start)
    RobotWorker,    \* worker processes they may launch
    Flattener,      \* close_all_demo_positions commands
    NoPid           \* "no process"

Pid == Starter \union RobotWorker \union Flattener

ASSUME PidAssumption ==
    /\ Starter \cap RobotWorker = {} /\ Starter \cap Flattener = {}
    /\ RobotWorker \cap Flattener = {} /\ NoPid \notin Pid

VARIABLES
    reg,    \* the row of demo_operator_control
    pc,     \* where each process is
    child,  \* the worker each start command launched
    late    \* closes each flatten sent since the kill in force was activated

operatorVars == <<reg, pc, child, late>>

State == {"STOPPED", "STARTING", "RUNNING", "PAUSED", "STOP_REQUESTED",
          "SAFE_STOP"}
Claimed == {"STARTING", "RUNNING", "PAUSED", "STOP_REQUESTED"}
Owned == {"RUNNING", "PAUSED", "STOP_REQUESTED"}

\* heartbeat is fresh for HEARTBEAT_MAX_AGE, which passes at any time.
Row == [state : State, pid : Pid \union {NoPid}, kill : BOOLEAN,
        heartbeat : {"none", "fresh", "stale"}]

Ended == {"unborn", "dead"}
Alive(p) == p # NoPid /\ pc[p] \notin Ended
\* Between its heartbeat and its next look at the loop condition.
Serving == {"read", "cycle", "stop"}

OperatorTypeOK ==
    /\ reg \in Row /\ (reg.state \in Claimed => reg.pid # NoPid)
    /\ pc \in [Pid -> Ended \union Serving \union
                      {"acquire", "launch", "assign", "abandon",
                       "heartbeat", "fail", "leave", "authority", "close"}]
    /\ child \in [Starter -> RobotWorker \union {NoPid}]
    /\ late \in [Flattener -> Nat]

OperatorInit ==
    /\ reg = [state |-> "STOPPED", pid |-> NoPid, kill |-> FALSE,
              heartbeat |-> "none"]
    /\ pc = [p \in Pid |-> "unborn"]
    /\ child = [c \in Starter |-> NoPid]
    /\ late = [f \in Flattener |-> 0]

Reached(p, place) == pc[p] = place
Go(p, place) == pc' = [pc EXCEPT ![p] = place]

\* SQLiteWorkerRegistry._write; the kill switch keeps its position.
Write(state, pid) ==
    reg' = [reg EXCEPT !.state = state, !.pid = pid, !.heartbeat = "fresh"]

\* SQLiteWorkerRegistry.stopped: only the owner's report counts.
Stopped(p, state) ==
    IF reg.pid = p THEN Write(state, NoPid) ELSE UNCHANGED reg

-----------------------------------------------------------------------------
(* start. *)

\* preflight; the reconciliation that follows is DemoExecution's.
BeginStart(c) ==
    /\ Reached(c, "unborn") /\ ~reg.kill
    /\ Go(c, "acquire")
    /\ UNCHANGED <<reg, child, late>>

\* Mutant: a stale heartbeat alone frees the registry.
FreeWhenStale == reg.state \notin Claimed \/ reg.heartbeat # "fresh"

\* A claim lapses when its process is dead and its heartbeat old.  (The
\* SAFE_STOP written for a live process with an old heartbeat is rolled back
\* by the error raised in the same transaction.)
Free == reg.state \notin Claimed \/ (~Alive(reg.pid) /\ reg.heartbeat # "fresh")

AcquireStart(c) ==
    /\ Reached(c, "acquire")
    /\ IF Free /\ ~reg.kill
       THEN Write("STARTING", c) /\ Go(c, "launch")
       ELSE Go(c, "dead") /\ UNCHANGED reg
    /\ UNCHANGED <<child, late>>

Launch(c) ==
    /\ Reached(c, "launch")
    /\ \/ \E w \in RobotWorker :
            /\ Reached(w, "unborn")
            /\ pc' = [pc EXCEPT ![c] = "assign", ![w] = "heartbeat"]
            /\ child' = [child EXCEPT ![c] = w]
       \/ Go(c, "abandon") /\ UNCHANGED child
    /\ UNCHANGED <<reg, late>>

SetWorkerPid(c) ==
    /\ Reached(c, "assign")
    /\ IF reg.state = "STARTING" /\ ~reg.kill
       THEN Write("RUNNING", child[c]) /\ Go(c, "dead")
       ELSE Go(c, "abandon") /\ UNCHANGED reg
    /\ UNCHANGED <<child, late>>

AbandonStart(c) ==
    /\ Reached(c, "abandon")
    /\ Stopped(c, "SAFE_STOP")
    /\ Go(c, "dead")
    /\ UNCHANGED <<child, late>>

-----------------------------------------------------------------------------
(* worker_loop and worker_once. *)

Heartbeat(w) ==
    /\ Reached(w, "heartbeat")
    /\ IF reg.pid = w /\ reg.state \in Owned
       THEN Write(reg.state, w) /\ Go(w, "read")
       ELSE Go(w, "fail") /\ UNCHANGED reg
    /\ UNCHANGED <<child, late>>

\* What heartbeat returns is read after its transaction.
ReadState(w) ==
    /\ Reached(w, "read")
    /\ Go(w, IF reg.kill \/ reg.state = "STOP_REQUESTED" THEN "stop"
             ELSE "cycle")
    /\ UNCHANGED <<reg, child, late>>

\* The broker is read and records are reconciled, or the network fails.
EndCycle(w) ==
    /\ Reached(w, "cycle")
    /\ Go(w, "leave") \/ Go(w, "fail")
    /\ UNCHANGED <<reg, child, late>>

StopWorker(w) ==
    /\ Reached(w, "stop")
    /\ Stopped(w, "STOPPED")
    /\ Go(w, "leave")
    /\ UNCHANGED <<child, late>>

\* Mutant: only a regular stop ends the loop.
LeaveOnlyStopped(w) ==
    /\ Reached(w, "leave")
    /\ Go(w, IF reg.state # "STOPPED" /\ reg.pid = w THEN "cycle" ELSE "dead")
    /\ UNCHANGED <<reg, child, late>>

\* A worker that sees a stop here ends without telling the registry.
Leave(w) ==
    /\ Reached(w, "leave")
    /\ Go(w, IF reg.state \in {"RUNNING", "PAUSED"} THEN "heartbeat"
             ELSE "dead")
    /\ UNCHANGED <<reg, child, late>>

\* worker_loop's except clause.
FailWorker(w) ==
    /\ Reached(w, "fail")
    /\ Stopped(w, "SAFE_STOP")
    /\ Go(w, "dead")
    /\ UNCHANGED <<child, late>>

-----------------------------------------------------------------------------
(* Console commands of one transaction. *)

RequestStop ==
    /\ reg.state \in {"RUNNING", "PAUSED", "STARTING"}
    /\ Write("STOP_REQUESTED", reg.pid)
    /\ UNCHANGED <<pc, child, late>>

Pause ==
    /\ reg.state = "RUNNING" /\ ~reg.kill
    /\ Write("PAUSED", reg.pid)
    /\ UNCHANGED <<pc, child, late>>

Resume ==
    /\ reg.state = "PAUSED" /\ ~reg.kill
    /\ Alive(reg.pid) /\ reg.heartbeat = "fresh"
    /\ Write("RUNNING", reg.pid)
    /\ UNCHANGED <<pc, child, late>>

EmergencyKill ==
    /\ reg' = [reg EXCEPT !.state = "SAFE_STOP", !.kill = TRUE,
                          !.heartbeat = "fresh"]
    /\ late' = IF reg.kill THEN late ELSE [f \in Flattener |-> 0]
    /\ UNCHANGED <<pc, child>>

\* Mutant: the process that was killed is not looked for.
ReleaseAnyway ==
    /\ reg' = [state |-> "STOPPED", pid |-> NoPid, kill |-> FALSE,
               heartbeat |-> "fresh"]
    /\ UNCHANGED <<pc, child, late>>

ReleaseKill ==
    /\ ~Alive(reg.pid)
    /\ reg' = [state |-> "STOPPED", pid |-> NoPid, kill |-> FALSE,
               heartbeat |-> "fresh"]
    /\ UNCHANGED <<pc, child, late>>

-----------------------------------------------------------------------------
(* close_all_demo_positions: each position gets an authority of its own. *)

EnterFlatten(f) ==
    /\ Reached(f, "unborn") /\ ~reg.kill
    /\ Go(f, "authority")
    /\ UNCHANGED <<reg, child, late>>

CloseAuthority(f) ==
    /\ Reached(f, "authority")
    /\ Go(f, IF ~reg.kill /\ reg.state \in {"RUNNING", "STOP_REQUESTED"}
             THEN "close" ELSE "dead")
    /\ UNCHANGED <<reg, child, late>>

\* Mutant: one authority serves all positions.
SendCloses(f) ==
    /\ Reached(f, "close")
    /\ late' = [late EXCEPT ![f] = @ + (IF reg.kill THEN 1 ELSE 0)]
    /\ Go(f, "close") \/ Go(f, "dead")
    /\ UNCHANGED <<reg, child>>

SendClose(f) ==
    /\ Reached(f, "close")
    /\ late' = [late EXCEPT ![f] = @ + (IF reg.kill THEN 1 ELSE 0)]
    /\ Go(f, "authority") \/ Go(f, "dead")
    /\ UNCHANGED <<reg, child>>

-----------------------------------------------------------------------------

Die(p) ==
    /\ Alive(p)
    /\ Go(p, "dead")
    /\ UNCHANGED <<reg, child, late>>

\* HEARTBEAT_MAX_AGE passes.
Age ==
    /\ reg.heartbeat = "fresh"
    /\ reg' = [reg EXCEPT !.heartbeat = "stale"]
    /\ UNCHANGED <<pc, child, late>>

Start(c) ==
    \/ BeginStart(c) \/ AcquireStart(c) \/ Launch(c)
    \/ SetWorkerPid(c) \/ AbandonStart(c)
Work(w) ==
    \/ Heartbeat(w) \/ ReadState(w) \/ EndCycle(w)
    \/ StopWorker(w) \/ Leave(w) \/ FailWorker(w)
Flatten(f) == EnterFlatten(f) \/ CloseAuthority(f) \/ SendClose(f)
Command == RequestStop \/ Pause \/ Resume \/ EmergencyKill \/ ReleaseKill

OperatorNext ==
    \/ \E c \in Starter : Start(c)
    \/ \E w \in RobotWorker : Work(w)
    \/ \E f \in Flattener : Flatten(f)
    \/ Command
    \/ \E p \in Pid : Die(p)
    \/ Age

OperatorSpec == OperatorInit /\ [][OperatorNext]_operatorVars

\* A running start command and a running worker go on until they end or die;
\* nobody has to type a command.
OperatorFairSpec ==
    /\ OperatorSpec
    /\ \A c \in Starter :
        /\ WF_operatorVars(AcquireStart(c)) /\ WF_operatorVars(Launch(c))
        /\ WF_operatorVars(SetWorkerPid(c)) /\ WF_operatorVars(AbandonStart(c))
    /\ \A w \in RobotWorker : WF_operatorVars(Work(w))

-----------------------------------------------------------------------------
(* Safety. *)

\* A worker that is inside its cycle is the one the registry names, whatever
\* starts, stops, kills and releases have gone on since its heartbeat: so one
\* worker at a time reconciles, and would place orders.
ServingIsRegistered ==
    \A w \in RobotWorker : pc[w] \in Serving => reg.pid = w

\* An activated kill lets through at most the one close a flatten already has
\* its authority for.
KillStopsFlatten == \A f \in Flattener : late[f] <= 1

\* A kill is released only when whoever held the registry is gone, and a start
\* that the kill interrupted never makes its worker the registered one; and a
\* flatten that is under way sends at most one more close.
KillIsNotBypassed ==
    /\ []KillStopsFlatten
    /\ [][/\ reg.kill /\ ~reg'.kill => \A w \in RobotWorker : pc[w] \notin Serving
          /\ reg.kill /\ reg'.kill => reg'.pid \in {reg.pid, NoPid}]_operatorVars

-----------------------------------------------------------------------------
(* Liveness. *)

\* A requested stop ends the worker or the start that it is meant for.
StopEndsWorker ==
    reg.state = "STOP_REQUESTED" ~>
        reg.state # "STOP_REQUESTED" \/ ~Alive(reg.pid)
=============================================================================
