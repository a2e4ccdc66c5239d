----------------------------- MODULE Supervisor -----------------------------
(* The service manager, user/programs/serviced_c.c: starting services with    *)
(* their dependencies, stopping, restarting and probing them, and the          *)
(* supervision pass that restarts failed ones within a limit.                  *)
(*                                                                            *)
(* The manager is one thread; its recursion through dependencies is the        *)
(* `stack', the loop that runs it is `job'.  Services start, register and die  *)
(* on their own between any two of its steps.  Replies to clients, names and   *)
(* the state generation (a counter that labels transitions) are left out.      *)
EXTENDS Naturals, Sequences, FiniteSets

CONSTANTS
    Managed,        \* indices of services[]: 1..n, in table order
    Deps,           \* Deps[s]: the sequence of s's dependencies
    OnFailure,      \* services whose restart_policy is RESTART_ON_FAILURE
    RestartLimit,   \* SERVICE_RESTART_LIMIT
    Command,        \* commands clients send: a set of <<command, service>>
    MaxCommands,    \* bound: commands in a behaviour
    MaxFaults       \* bound: crashes, failed launches and kills, timeouts of a live service

ASSUME SupervisorAssumption ==
    /\ Managed = 1..Cardinality(Managed)
    /\ \A s \in Managed : \A k \in DOMAIN Deps[s] : Deps[s][k] < s
    /\ RestartLimit \in Nat \ {0}

VARIABLES
    st,         \* service->state
    failure,    \* service->last_failure
    restarts,   \* service->restart_count
    armed,      \* service->restart_at: "no" (0), "wait", or "due" (reached)
    up,         \* the name is in the kernel's registry
    born,       \* launched processes that have not registered yet
    job,        \* what the main loop is doing
    stack,      \* activations of start_service_checked, innermost last
    ret,        \* what the activation that just returned returned
    commands, faults

superVars == <<st, failure, restarts, armed, up, born, job, stack, ret, commands, faults>>

Idle == [kind |-> "idle", s |-> 0, step |-> 0, auto |-> FALSE, due |-> {}]
Job(kind, s) == [Idle EXCEPT !.kind = kind, !.s = s]

SuperInit ==
    /\ st = [s \in Managed |-> "STOPPED"]
    /\ failure = [s \in Managed |-> "NONE"]
    /\ restarts = [s \in Managed |-> 0]
    /\ armed = [s \in Managed |-> "no"]
    /\ up = [s \in Managed |-> FALSE]
    /\ born = [s \in Managed |-> 0]
    /\ job = Idle /\ stack = <<>> /\ ret = "none"
    /\ commands = 0 /\ faults = 0

Fault == faults < MaxFaults /\ faults' = faults + 1

(* fail_service, with the service's other assignments of the same step: r is   *)
(* its restart_count.  A failing service is given a new deadline, which is in  *)
(* the future of the pass that is running.                                     *)
(* A plausible slip. *)
RearmedOnce(s, r) == s \in OnFailure /\ r = 0
Rearmed(s, r) == s \in OnFailure /\ r < RestartLimit
FailService(s, why, r) ==
    /\ st' = [st EXCEPT ![s] = "FAILED"]
    /\ failure' = [failure EXCEPT ![s] = why]
    /\ armed' = IF Rearmed(s, r) THEN [armed EXCEPT ![s] = "wait"] ELSE armed

----------------------------------------------------------------------------
(* start_service_checked, one activation per stack frame.                      *)
Top == stack[Len(stack)]
Frame(s) == [s |-> s, pc |-> "look", dep |-> 1]
Replace(f) == [stack EXCEPT ![Len(stack)] = f]
Return(r) == stack' = SubSeq(stack, 1, Len(stack) - 1) /\ ret' = r
In(pc) == stack # <<>> /\ Top.pc = pc

(* A service that is already registered is running; nothing else is done.      *)
StartLook ==
    /\ In("look")
    /\ IF up[Top.s]
       THEN st' = [st EXCEPT ![Top.s] = "RUNNING"] /\ Return("ok")
       ELSE stack' = Replace([Top EXCEPT !.pc = "deps"]) /\ ret' = "none" /\ UNCHANGED st
    /\ UNCHANGED <<failure, restarts, armed, up, born, job, commands, faults>>

(* The dependencies are started in turn; the first one to fail fails s.        *)
DepFailed == ret = "fail"
StartDependency ==
    /\ In("deps") /\ ~DepFailed /\ Top.dep <= Len(Deps[Top.s])
    /\ stack' = Append(Replace([Top EXCEPT !.dep = @ + 1]), Frame(Deps[Top.s][Top.dep]))
    /\ ret' = "none"
    /\ UNCHANGED <<st, failure, restarts, armed, up, born, job, commands, faults>>
DependencyFails ==
    /\ In("deps") /\ DepFailed
    /\ FailService(Top.s, "DEPENDENCY", restarts[Top.s])
    /\ Return("fail")
    /\ UNCHANGED <<restarts, up, born, job, commands, faults>>

(* The program is launched; the launch may fail.                               *)
StartLaunch ==
    /\ In("deps") /\ ~DepFailed /\ Top.dep > Len(Deps[Top.s])
    /\ \/ /\ st' = [st EXCEPT ![Top.s] = "STARTING"]
          /\ born' = [born EXCEPT ![Top.s] = @ + 1]
          /\ stack' = Replace([Top EXCEPT !.pc = "wait"])
          /\ ret' = "none"
          /\ UNCHANGED <<failure, armed, faults>>
       \/ /\ Fault
          /\ FailService(Top.s, "LAUNCH", restarts[Top.s])
          /\ Return("fail")
          /\ UNCHANGED born
    /\ UNCHANGED <<restarts, up, job, commands>>

(* wait_for_registry ends: the service registered, or 50 ticks passed.         *)
StartWait ==
    /\ In("wait")
    /\ \/ /\ up[Top.s]
          /\ st' = [st EXCEPT ![Top.s] = "RUNNING"]
          /\ failure' = [failure EXCEPT ![Top.s] = "NONE"]
          /\ armed' = [armed EXCEPT ![Top.s] = "no"]
          /\ restarts' = IF job.auto THEN restarts ELSE [restarts EXCEPT ![Top.s] = 0]
          /\ Return("ok")
          /\ UNCHANGED faults
       \/ /\ ~up[Top.s]
          /\ IF born[Top.s] > 0 THEN Fault ELSE UNCHANGED faults
          /\ FailService(Top.s, "START_TIMEOUT", restarts[Top.s])
          /\ Return("fail")
          /\ UNCHANGED restarts
    /\ UNCHANGED <<up, born, job, commands>>

StartStep == StartLook \/ StartDependency \/ DependencyFails \/ StartLaunch \/ StartWait

----------------------------------------------------------------------------
(* supervise_services: one pass over the table with the time read at its       *)
(* start, so that a service failing during the pass waits for the next one.    *)
SuperviseBegin ==
    /\ job = Idle
    /\ job' = [Job("supervise", 1) EXCEPT !.due = {s \in Managed : armed[s] = "due"}]
    /\ UNCHANGED <<st, failure, restarts, armed, up, born, stack, ret, commands, faults>>

NextService == IF job.s + 1 \in Managed THEN [job EXCEPT !.s = @ + 1, !.step = 0] ELSE Idle

RestartDue(s) ==
    /\ s \in job.due /\ armed[s] = "due"
    /\ st[s] = "FAILED" /\ s \in OnFailure

(* The attempts are used up. *)
GiveUp(s) ==
    /\ failure' = [failure EXCEPT ![s] = "RESTART_LIMIT"]
    /\ armed' = [armed EXCEPT ![s] = "no"]

(* A running service whose name left the registry has failed.                  *)
SuperviseLook ==
    /\ job.kind = "supervise" /\ job.step = 0 /\ stack = <<>>
    /\ LET s == job.s IN
       \/ /\ st[s] = "RUNNING" /\ ~up[s]
          /\ FailService(s, "EXITED", restarts[s])
          /\ job' = NextService
          /\ UNCHANGED <<restarts, stack, ret>>
       \/ /\ ~(st[s] = "RUNNING" /\ ~up[s]) /\ ~RestartDue(s)
          /\ job' = NextService
          /\ UNCHANGED <<st, failure, armed, restarts, stack, ret>>
       \/ /\ RestartDue(s)
          /\ IF restarts[s] >= RestartLimit
             THEN GiveUp(s) /\ job' = NextService /\ UNCHANGED <<restarts, stack, ret>>
             ELSE /\ restarts' = [restarts EXCEPT ![s] = @ + 1]
                  /\ armed' = [armed EXCEPT ![s] = "no"]
                  /\ job' = [job EXCEPT !.step = 1, !.auto = TRUE]
                  /\ stack' = <<Frame(s)>> /\ ret' = "none"
                  /\ UNCHANGED failure
          /\ UNCHANGED st
    /\ UNCHANGED <<up, born, commands, faults>>

SuperviseReturn ==
    /\ job.kind = "supervise" /\ job.step = 1 /\ stack = <<>>
    /\ job' = [NextService EXCEPT !.auto = FALSE]
    /\ ret' = "none"
    /\ IF ret = "fail" /\ restarts[job.s] >= RestartLimit THEN GiveUp(job.s)
       ELSE UNCHANGED <<failure, armed>>
    /\ UNCHANGED <<st, restarts, up, born, stack, commands, faults>>

----------------------------------------------------------------------------
(* Commands.  A client's request is taken when the main loop waits.            *)
Ask(cmd, s) ==
    /\ job = Idle /\ <<cmd, s>> \in Command
    /\ commands < MaxCommands /\ commands' = commands + 1

(* START, and its bounded restart transaction before the reply.                *)
StartCommand(s) ==
    /\ Ask("START", s)
    /\ restarts' = [restarts EXCEPT ![s] = 0]
    /\ job' = Job("start", s)
    /\ stack' = <<Frame(s)>> /\ ret' = "none"
    /\ UNCHANGED <<st, failure, armed, up, born, faults>>
StartReturn ==
    /\ job.kind = "start" /\ stack = <<>>
    /\ ret' = "none"
    /\ LET s == job.s
           again == ret = "fail" /\ s \in OnFailure
       IN  \/ /\ ~again
              /\ job' = Idle
              /\ UNCHANGED <<failure, armed, restarts, stack>>
           \/ /\ again /\ job.step < RestartLimit
              /\ restarts' = [restarts EXCEPT ![s] = job.step + 1]
              /\ armed' = [armed EXCEPT ![s] = "no"]
              /\ job' = [job EXCEPT !.step = @ + 1, !.auto = TRUE]
              /\ stack' = <<Frame(s)>>
              /\ UNCHANGED failure
           \/ /\ again /\ job.step = RestartLimit
              /\ GiveUp(s)
              /\ job' = Idle
              /\ UNCHANGED <<restarts, stack>>
    /\ UNCHANGED <<st, up, born, commands, faults>>

(* has_running_dependent *)
HasRunningDependent(s) ==
    \E d \in Managed : /\ \E k \in DOMAIN Deps[d] : Deps[d][k] = s
                       /\ st[d] \in {"RUNNING", "STARTING"}

(* stop_service up to the kill; STOP is explicit, RESTART and EXIT are not.     *)
StopBegin(s, then) ==
    \/ /\ ~up[s]
       /\ st' = [st EXCEPT ![s] = "STOPPED"]
       /\ failure' = IF then.kind = "stop" THEN [failure EXCEPT ![s] = "NONE"] ELSE failure
       /\ restarts' = IF then.kind = "stop" THEN [restarts EXCEPT ![s] = 0] ELSE restarts
       /\ job' = [then EXCEPT !.step = 2]
       /\ UNCHANGED <<armed, up, faults>>
    \/ /\ up[s]
       /\ st' = [st EXCEPT ![s] = "STOPPING"]
       /\ up' = [up EXCEPT ![s] = FALSE]
       /\ job' = [then EXCEPT !.step = 1]
       /\ UNCHANGED <<failure, armed, restarts, faults>>
    \/ /\ up[s] /\ Fault
       /\ FailService(s, "STOP_TIMEOUT", restarts[s])
       /\ job' = [then EXCEPT !.step = 3]
       /\ UNCHANGED <<up, restarts>>

StopCommand(s) ==
    /\ Ask("STOP", s)
    /\ ~HasRunningDependent(s)
    /\ StopBegin(s, Job("stop", s))
    /\ UNCHANGED <<born, stack, ret>>
StopDenied(s) ==
    /\ Ask("STOP", s)
    /\ HasRunningDependent(s)
    /\ UNCHANGED <<st, failure, restarts, armed, up, born, job, stack, ret, faults>>
RestartCommand(s) ==
    /\ Ask("RESTART", s)
    /\ StopBegin(s, Job("restart", s))
    /\ UNCHANGED <<born, stack, ret>>

(* EXIT stops every service, the last of the table first, and ends the manager. *)
ExitCommand(s) ==
    /\ Ask("EXIT", s)
    /\ job' = Job("exit", Cardinality(Managed))
    /\ UNCHANGED <<st, failure, restarts, armed, up, born, stack, ret, faults>>
ExitStop ==
    /\ job.kind = "exit" /\ job.step = 0
    /\ StopBegin(job.s, job)
    /\ UNCHANGED <<born, stack, ret, commands>>

(* After the kill: the name is gone, or another instance took it meanwhile.    *)
StopWait ==
    /\ job.kind \in {"stop", "restart", "exit"} /\ job.step = 1
    /\ LET s == job.s IN
       \/ /\ ~up[s]
          /\ st' = [st EXCEPT ![s] = "STOPPED"]
          /\ failure' = [failure EXCEPT ![s] = "NONE"]
          /\ armed' = [armed EXCEPT ![s] = "no"]
          /\ restarts' = IF job.kind = "stop" THEN [restarts EXCEPT ![s] = 0] ELSE restarts
          /\ job' = [job EXCEPT !.step = 2]
       \/ /\ up[s]
          /\ FailService(s, "STOP_TIMEOUT", restarts[s])
          /\ job' = [job EXCEPT !.step = 3]
          /\ UNCHANGED restarts
    /\ UNCHANGED <<up, born, stack, ret, commands, faults>>

(* STOP replies; RESTART starts the stopped service, or reports the failure;   *)
(* EXIT goes on to the service before it, whatever the result.                 *)
StopReturn ==
    /\ job.step \in {2, 3} /\ job.kind \in {"stop", "restart", "exit"}
    /\ IF job.kind = "restart" /\ job.step = 2
       THEN /\ restarts' = [restarts EXCEPT ![job.s] = 0]
            /\ job' = Job("restarting", job.s)
            /\ stack' = <<Frame(job.s)>> /\ ret' = "none"
       ELSE /\ job' = IF job.kind # "exit" THEN Idle
                      ELSE IF job.s > 1 THEN Job("exit", job.s - 1) ELSE Job("gone", 0)
            /\ UNCHANGED <<restarts, stack, ret>>
    /\ UNCHANGED <<st, failure, armed, up, born, commands, faults>>
RestartReturn ==
    /\ job.kind = "restarting" /\ stack = <<>>
    /\ job' = Idle /\ ret' = "none"
    /\ UNCHANGED <<st, failure, restarts, armed, up, born, stack, commands, faults>>

(* crash_service: kill the process and record an exit.                         *)
CrashCommand(s) ==
    /\ Ask("CRASH", s)
    /\ IF up[s]
       THEN up' = [up EXCEPT ![s] = FALSE] /\ FailService(s, "EXITED", restarts[s])
       ELSE UNCHANGED <<up, st, failure, armed>>
    /\ UNCHANGED <<restarts, born, job, stack, ret, faults>>

(* health_service: a service that is gone has exited; one that does not answer *)
(* in time, or whose answer is not the next message, is failed too.            *)
HealthCommand(s) ==
    /\ Ask("HEALTH", s)
    /\ \/ up[s] /\ UNCHANGED <<st, failure, armed, faults>>
       \/ ~up[s] /\ FailService(s, "EXITED", restarts[s]) /\ UNCHANGED faults
       \/ up[s] /\ Fault /\ FailService(s, "HEALTH_TIMEOUT", restarts[s])
    /\ UNCHANGED <<restarts, up, born, job, stack, ret>>

CommandStep ==
    \E s \in Managed :
        \/ StartCommand(s) \/ StopCommand(s) \/ StopDenied(s)
        \/ RestartCommand(s) \/ ExitCommand(s)
        \/ CrashCommand(s) \/ HealthCommand(s)

----------------------------------------------------------------------------
(* The services: a launched process registers (or finds its name taken and     *)
(* exits) or dies first; a registered one dies.                                *)
ServiceRegisters(s) ==
    /\ born[s] > 0
    /\ born' = [born EXCEPT ![s] = @ - 1]
    /\ up' = [up EXCEPT ![s] = TRUE]
    /\ UNCHANGED <<st, failure, restarts, armed, job, stack, ret, commands, faults>>
ServiceDies(s) ==
    /\ Fault
    /\ \/ up[s] /\ up' = [up EXCEPT ![s] = FALSE] /\ UNCHANGED born
       \/ born[s] > 0 /\ born' = [born EXCEPT ![s] = @ - 1] /\ UNCHANGED up
    /\ UNCHANGED <<st, failure, restarts, armed, job, stack, ret, commands>>

(* The 20 ticks of the backoff pass.                                           *)
BackoffEnds(s) ==
    /\ armed[s] = "wait"
    /\ armed' = [armed EXCEPT ![s] = "due"]
    /\ UNCHANGED <<st, failure, restarts, up, born, job, stack, ret, commands, faults>>

ManagerStep ==
    \/ StartStep \/ SuperviseLook \/ SuperviseReturn \/ StartReturn
    \/ ExitStop \/ StopWait \/ StopReturn \/ RestartReturn

SuperNext ==
    \/ ManagerStep \/ SuperviseBegin \/ CommandStep
    \/ \E s \in Managed : ServiceRegisters(s) \/ ServiceDies(s) \/ BackoffEnds(s)

(* The manager's thread runs; its wait times out every 10 ticks; a launched    *)
(* service registers unless it dies; time passes.                              *)
SuperFairness ==
    /\ WF_superVars(ManagerStep) /\ WF_superVars(SuperviseBegin)
    /\ \A s \in Managed : WF_superVars(ServiceRegisters(s)) /\ WF_superVars(BackoffEnds(s))

SuperSpec == SuperInit /\ [][SuperNext]_superVars /\ SuperFairness

----------------------------------------------------------------------------
States == {"STOPPED", "STARTING", "RUNNING", "STOPPING", "FAILED"}

(* Types of serviced's table and of the manager's place.                       *)
SuperTypeOK ==
    /\ st \in [Managed -> States]
    /\ failure \in [Managed -> {"NONE", "DEPENDENCY", "LAUNCH", "START_TIMEOUT",
                                "STOP_TIMEOUT", "EXITED", "HEALTH_TIMEOUT", "RESTART_LIMIT"}]
    /\ restarts \in [Managed -> 0..RestartLimit]
    /\ armed \in [Managed -> {"no", "wait", "due"}]
    /\ up \in [Managed -> BOOLEAN] /\ born \in [Managed -> Nat]
    /\ job.s \in Managed \cup {0}
    /\ Len(stack) <= Cardinality(Managed) /\ ret \in {"none", "ok", "fail"}

(* The manager never forgets a failed on-failure service: between two jobs it  *)
(* has a restart scheduled, or has used up its attempts.  Failures are         *)
(* recorded in ten places, restart_at is cleared in five.                      *)
FailedIsScheduled ==
    job = Idle => \A s \in OnFailure :
        st[s] = "FAILED" => armed[s] # "no" \/ restarts[s] = RestartLimit

(* No state but those five outlives a job: STARTING and STOPPING are left by   *)
(* every return of start_service_checked and stop_service.                     *)
NothingHalfDone ==
    job = Idle => \A s \in Managed : st[s] \notin {"STARTING", "STOPPING"}

(* A service is launched only when the manager has each of its dependencies    *)
(* running, however deep the recursion that started them.                      *)
LaunchAfterDependencies ==
    [][\A s \in Managed : born'[s] > born[s] =>
          \A k \in DOMAIN Deps[s] : st[Deps[s][k]] = "RUNNING"]_superVars

(* STOP never takes a dependency away, nor does EXIT, which goes through the   *)
(* table backwards: when one of their stops ends well, no service that          *)
(* needs the stopped one is running or starting.                               *)
StopSparesDependents ==
    (job.kind \in {"stop", "exit"} /\ job.step = 2) =>
        \A d \in Managed : job.s \in {Deps[d][k] : k \in DOMAIN Deps[d]} =>
                              st[d] \notin {"RUNNING", "STARTING"}

(* A failed on-failure service does not stay failed: it leaves the state, its  *)
(* attempts are used up, or the manager exits.                                 *)
FailureHandled ==
    \A s \in OnFailure : st[s] = "FAILED" ~>
        (st[s] # "FAILED" \/ restarts[s] = RestartLimit \/ job.kind = "gone")

(* Refuted: what the supervision document says of exhaustion, it is recorded   *)
(* as RESTART_LIMIT.  The code records it when an automatic start fails, not when *)
(* a service dies again after its last successful restart.                     *)
ExhaustionRecorded ==
    job = Idle => \A s \in OnFailure :
        (st[s] = "FAILED" /\ restarts[s] = RestartLimit /\ armed[s] = "no")
            => failure[s] = "RESTART_LIMIT"

(* Refuted: what the document says of dependencies, one with an active         *)
(* dependent is not stopped.  RESTART does stop it.                                             *)
DependencyNotStopped ==
    [][\A s \in Managed : (st'[s] = "STOPPING" /\ st[s] # "STOPPING")
          => ~HasRunningDependent(s)]_superVars
=============================================================================
