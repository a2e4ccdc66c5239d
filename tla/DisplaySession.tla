--------------------------- MODULE DisplaySession ---------------------------
(***************************************************************************)
(* The service registry (kernel/service/service_registry.cpp), the display *)
(* session (kernel/graphics/display_owner.cpp) and the system calls and    *)
(* process exits that drive them.  The registry and the session state have *)
(* a lock each; a system call takes them one after the other, so a process *)
(* can die, unregister or acquire between two of its steps.  Every process *)
(* may offer one service, "window", "display" or "input"; an instance that *)
(* is restarted is another process.                                        *)
(***************************************************************************)
EXTENDS Naturals

CONSTANTS
  Proc,          \* the process instances
  Offers,        \* Offers[p]: the name p registers
  Calls,         \* Calls[p]: the system calls p makes
  Slots,         \* SERVICE_REGISTRY_CAPACITY
  MaxSession,    \* bound on the sessions begun
  MaxService     \* bound on the registrations

Slot == 1 .. Slots
Nobody == "nobody"

VARIABLES
  svc, svcNext,              \* service_table, service_generation_next
  owner, depth,              \* owner_state, owner_depth
  state, sgen,               \* session_state, session_generation
  swindow, sdisplay,         \* the session's window and display process
  alive,                     \* processes that have not ended
  at, back,                  \* each process's place, and where it returns to
  scanned, seen, goal,       \* service_prune_stale: the slot, what was read
                             \* there, and the lookup that comes after it
  peer, lease,               \* the display process found, the generation got
  logging                    \* the kernel console is drawing a character

registryVars == <<svc, svcNext>>
sessionVars == <<owner, depth, state, sgen, swindow, sdisplay>>
callVars == <<at, back, scanned, seen, goal, peer, lease>>
displayVars == <<registryVars, sessionVars, callVars, alive, logging>>

Unused == [owner |-> Nobody, name |-> "none", gen |-> 0]

Console == {"CONSOLE_ACTIVE", "CONSOLE_RESTORING", "FALLBACK"}

DisplayInit ==
  /\ svc = [i \in Slot |-> Unused] /\ svcNext = 1
  /\ owner = "NONE" /\ depth = 0
  /\ state = "CONSOLE_ACTIVE" /\ sgen = 0 /\ swindow = Nobody /\ sdisplay = Nobody
  /\ alive = Proc
  /\ at = [p \in Proc |-> "user"] /\ back = [p \in Proc |-> "user"]
  /\ scanned = [p \in Proc |-> 1] /\ seen = [p \in Proc |-> Unused]
  /\ goal = [p \in Proc |-> "none"]
  /\ peer = [p \in Proc |-> Nobody] /\ lease = [p \in Proc |-> 0]
  /\ logging = FALSE

Go(p, there) == at' = [at EXCEPT ![p] = there]

OwnerOf(name) ==
  IF \E i \in Slot : svc[i].name = name
    THEN svc[CHOOSE i \in Slot : svc[i].name = name].owner ELSE Nobody

-----------------------------------------------------------------------------
(* The registry.  Every entry point prunes the entries of dead owners      *)
(* first, slot by slot: the entry is read under the lock, its owner looked *)
(* up without it, and the entry cleared under the lock if it is the same.  *)

\* A system call begins.
Enter(p, op) ==
  /\ at[p] = "user" /\ p \in alive /\ op \in Calls[p]
  /\ goal' = [goal EXCEPT ![p] = op]
  /\ Go(p, "prune")
  /\ UNCHANGED <<registryVars, sessionVars, back, scanned, seen, peer, lease, alive, logging>>

\* service_prune_stale: the next entry whose owner is dead, or else the
\* lookup itself.
Stale(i) == svc[i].owner # Nobody /\ svc[i].owner \notin alive

PruneRead(p) ==
  /\ at[p] = "prune"
  /\ IF \E i \in scanned[p] .. Slots : Stale(i)
       THEN \E i \in scanned[p] .. Slots :
              /\ Stale(i) /\ \A j \in scanned[p] .. i - 1 : ~ Stale(j)
              /\ scanned' = [scanned EXCEPT ![p] = i]
              /\ seen' = [seen EXCEPT ![p] = svc[i]]
              /\ Go(p, "pruned") /\ UNCHANGED goal
       ELSE /\ scanned' = [scanned EXCEPT ![p] = 1]
            /\ Go(p, goal[p]) /\ goal' = [goal EXCEPT ![p] = "none"]
            /\ UNCHANGED seen
  /\ UNCHANGED <<registryVars, sessionVars, back, peer, lease, alive, logging>>

\* The entry is the one that was read: same owner, same generation.
StillStale(p) == svc[scanned[p]] = seen[p]

PruneClear(p) ==
  /\ at[p] = "pruned"
  /\ svc' = IF StillStale(p) THEN [svc EXCEPT ![scanned[p]] = Unused] ELSE svc
  /\ seen' = [seen EXCEPT ![p] = Unused]
  /\ scanned' = [scanned EXCEPT ![p] = @ + 1]
  /\ Go(p, "prune")
  /\ UNCHANGED <<svcNext, sessionVars, back, goal, peer, lease, alive, logging>>

FirstFree(i) == svc[i].owner = Nobody /\ \A j \in 1 .. i - 1 : svc[j].owner # Nobody

NameFree(name) == \A i \in Slot : svc[i].name # name

\* service_register.
Register(p) ==
  /\ at[p] = "register" /\ svcNext <= MaxService
  /\ IF NameFree(Offers[p]) /\ \E i \in Slot : FirstFree(i)
       THEN /\ \E i \in Slot :
                 /\ FirstFree(i)
                 /\ svc' = [svc EXCEPT ![i] =
                              [owner |-> p, name |-> Offers[p], gen |-> svcNext]]
            /\ svcNext' = svcNext + 1
       ELSE UNCHANGED registryVars
  /\ Go(p, "user")
  /\ UNCHANGED <<sessionVars, back, scanned, seen, goal, peer, lease, alive, logging>>

\* service_unregister by the entry's owner, then display-session recovery.
Unregister(p) ==
  /\ at[p] = "unregister"
  /\ IF OwnerOf(Offers[p]) = p
       THEN /\ svc' = [i \in Slot |-> IF svc[i].name = Offers[p] THEN Unused ELSE svc[i]]
            /\ Go(p, "recover")
       ELSE Go(p, "user") /\ UNCHANGED svc
  /\ UNCHANGED <<svcNext, sessionVars, back, scanned, seen, goal, peer, lease, alive, logging>>

-----------------------------------------------------------------------------
(* Drawing: display_owner_begin and display_owner_end around every draw.   *)

MayDraw(who) ==
  /\ owner \in {"NONE", who}
  /\ IF who = "TERMINAL" THEN state \in Console
     ELSE state \in {"CONSOLE_ACTIVE", "GUI_ACTIVE", "FALLBACK"}

DrawBegin(who) == owner' = who /\ depth' = depth + 1

DrawEnd ==
  /\ depth' = depth - 1
  /\ owner' = IF depth = 1 THEN "NONE" ELSE owner

\* Terminal::putchar, from any context.
LogBegin ==
  /\ ~ logging /\ MayDraw("TERMINAL") /\ DrawBegin("TERMINAL")
  /\ logging' = TRUE
  /\ UNCHANGED <<registryVars, state, sgen, swindow, sdisplay, callVars, alive>>

LogEnd ==
  /\ logging /\ DrawEnd
  /\ logging' = FALSE
  /\ UNCHANGED <<registryVars, state, sgen, swindow, sdisplay, callVars, alive>>

-----------------------------------------------------------------------------
(* The session.                                                            *)

ClearOwners == swindow' = Nobody /\ sdisplay' = Nobody

\* dispatch_display_session_acquire: the caller owns "window" ...
Acquire(p) ==
  /\ at[p] = "acquire"
  /\ IF OwnerOf("window") = p
       THEN Go(p, "prune") /\ goal' = [goal EXCEPT ![p] = "find"]
       ELSE Go(p, "user") /\ UNCHANGED goal
  /\ UNCHANGED <<registryVars, sessionVars, back, scanned, seen, peer, lease, alive, logging>>

\* ... the owner of "display" is looked up ...
FindDisplay(p) ==
  /\ at[p] = "find"
  /\ peer' = [peer EXCEPT ![p] = OwnerOf("display")]
  /\ Go(p, IF OwnerOf("display") = Nobody THEN "user" ELSE "begin")
  /\ UNCHANGED <<registryVars, sessionVars, back, scanned, seen, goal, lease, alive, logging>>

\* A plausible slip: a draw under way is not waited for.
QuietAssumed == TRUE

Quiet == owner = "NONE"

\* ... display_session_begin ...
SessionBegin(p) ==
  /\ at[p] = "begin" /\ sgen < MaxSession
  /\ IF state \in {"CONSOLE_ACTIVE", "FALLBACK"} /\ Quiet
       THEN /\ state' = "GUI_ACQUIRING" /\ sgen' = sgen + 1
            /\ swindow' = p /\ sdisplay' = peer[p]
            /\ lease' = [lease EXCEPT ![p] = sgen + 1]
            /\ Go(p, "copy")
       ELSE Go(p, "user") /\ UNCHANGED <<state, sgen, swindow, sdisplay, lease>>
  /\ peer' = [peer EXCEPT ![p] = Nobody]
  /\ UNCHANGED <<registryVars, owner, depth, back, scanned, seen, goal, alive, logging>>

\* ... the console is copied, which may fail, and the session committed ...
SessionCommit(p) ==
  /\ at[p] = "copy"
  /\ \/ /\ state = "GUI_ACQUIRING" /\ lease[p] = sgen
        /\ state' = "GUI_ACTIVE" /\ Go(p, "report")
     \/ UNCHANGED state /\ Go(p, "abort")
  /\ UNCHANGED <<registryVars, owner, depth, sgen, swindow, sdisplay, back,
                 scanned, seen, goal, peer, lease, alive, logging>>

\* ... display_session_abort_acquire on any failure ...
SessionAbort(p) ==
  /\ at[p] = "abort"
  /\ IF state = "GUI_ACQUIRING" /\ lease[p] = sgen
       THEN state' = "FALLBACK" /\ ClearOwners
       ELSE UNCHANGED <<state, swindow, sdisplay>>
  /\ Go(p, "redraw")
  /\ UNCHANGED <<registryVars, owner, depth, sgen, back, scanned, seen, goal, peer,
                 lease, alive, logging>>

\* ... and the session is given back if the caller cannot be told of it.
Report(p) ==
  /\ at[p] = "report"
  /\ Go(p, "user") \/ Go(p, "giveback")
  /\ UNCHANGED <<registryVars, sessionVars, back, scanned, seen, goal, peer, lease, alive, logging>>

LeaseCurrent(p) == lease[p] = sgen /\ swindow = p

\* display_session_begin_release, by the window service (release) or by the
\* acquisition that could not be reported (giveback).
BeginRelease(p) ==
  /\ at[p] \in {"release", "giveback"}
  /\ IF /\ at[p] = "release" => OwnerOf("window") = p
        /\ state = "GUI_ACTIVE" /\ LeaseCurrent(p)
       THEN state' = "CONSOLE_RESTORING" /\ Go(p, "redraw")
       ELSE Go(p, "user") /\ UNCHANGED state
  /\ UNCHANGED <<registryVars, owner, depth, sgen, swindow, sdisplay, back, scanned,
                 seen, goal, peer, lease, alive, logging>>

SessionOf(p) == swindow = p \/ sdisplay = p

\* display_session_begin_recovery.
BeginRecovery(p) ==
  /\ at[p] = "recover"
  /\ IF SessionOf(p) /\ state \in {"GUI_ACQUIRING", "GUI_ACTIVE"}
       THEN state' = "CONSOLE_RESTORING" /\ Go(p, "redraw")
       ELSE Go(p, back[p]) /\ UNCHANGED state
  /\ UNCHANGED <<registryVars, owner, depth, sgen, swindow, sdisplay, back,
                 scanned, seen, goal, peer, lease, alive, logging>>

\* restore_console_scanout: Terminal::redraw, which gives up when another
\* draw owns the screen ...
RedrawBegin(p) ==
  /\ at[p] = "redraw"
  /\ IF MayDraw("TERMINAL")
       THEN DrawBegin("TERMINAL") /\ Go(p, "redrawing")
       ELSE Go(p, "blind") /\ UNCHANGED <<owner, depth>>
  /\ UNCHANGED <<registryVars, state, sgen, swindow, sdisplay, back, scanned,
                 seen, goal, peer, lease, alive, logging>>

RedrawEnd(p) ==
  /\ at[p] = "redrawing"
  /\ DrawEnd
  /\ Go(p, "finish")
  /\ UNCHANGED <<registryVars, state, sgen, swindow, sdisplay, back, scanned, seen,
                 goal, peer, lease, alive, logging>>

\* A plausible slip: the session keeps its owners.
FinishedStays == UNCHANGED <<state, swindow, sdisplay>>

Finished == state' = "CONSOLE_ACTIVE" /\ ClearOwners

\* ... and display_session_finish_restore, whatever the redraw returned.
FinishRestore(p) ==
  /\ at[p] \in {"finish", "blind"}
  /\ IF state \in {"CONSOLE_RESTORING", "FALLBACK"}
       THEN Finished ELSE UNCHANGED <<state, swindow, sdisplay>>
  /\ Go(p, back[p])
  /\ UNCHANGED <<registryVars, owner, depth, sgen, back, scanned, seen, goal,
                 peer, lease, alive, logging>>

\* dispatch_graphics_present_surface: authority and session are checked ...
Present(p) ==
  /\ at[p] = "present"
  /\ Go(p, IF OwnerOf("display") = p /\ (state = "GUI_ACTIVE" => sdisplay = p)
             THEN "gop" ELSE "user")
  /\ UNCHANGED <<registryVars, sessionVars, back, scanned, seen, goal, peer, lease, alive, logging>>

\* ... then GOPDriver::present_surface takes the screen and draws.
PresentBegin(p) ==
  /\ at[p] = "gop"
  /\ IF MayDraw("GOP")
       THEN DrawBegin("GOP") /\ Go(p, "drawing")
       ELSE Go(p, "user") /\ UNCHANGED <<owner, depth>>
  /\ UNCHANGED <<registryVars, state, sgen, swindow, sdisplay, back, scanned,
                 seen, goal, peer, lease, alive, logging>>

PresentEnd(p) ==
  /\ at[p] = "drawing"
  /\ DrawEnd
  /\ Go(p, "user")
  /\ UNCHANGED <<registryVars, state, sgen, swindow, sdisplay, back, scanned, seen,
                 goal, peer, lease, alive, logging>>

\* process_finish: the process is dead, then its session is recovered
\* (display_session_process_cleanup), then its services are unregistered.
Exit(p) ==
  /\ at[p] = "user" /\ p \in alive
  /\ alive' = alive \ {p}
  /\ Go(p, "recover") /\ back' = [back EXCEPT ![p] = "forget"]
  /\ UNCHANGED <<registryVars, sessionVars, scanned, seen, goal, peer, lease, logging>>

UnregisterOwner(p) ==
  /\ at[p] = "forget"
  /\ svc' = [i \in Slot |-> IF svc[i].owner = p THEN Unused ELSE svc[i]]
  /\ Go(p, "gone")
  /\ UNCHANGED <<svcNext, sessionVars, back, scanned, seen, goal, peer, lease, alive, logging>>

Inside(p) ==
  \/ PruneRead(p) \/ PruneClear(p) \/ Register(p) \/ Unregister(p)
  \/ Acquire(p) \/ FindDisplay(p) \/ SessionBegin(p) \/ SessionCommit(p)
  \/ SessionAbort(p) \/ Report(p) \/ BeginRelease(p) \/ BeginRecovery(p)
  \/ RedrawBegin(p) \/ RedrawEnd(p) \/ FinishRestore(p)
  \/ Present(p) \/ PresentBegin(p) \/ PresentEnd(p) \/ UnregisterOwner(p)

DisplayNext ==
  \/ \E p \in Proc :
       \/ Inside(p) \/ Exit(p)
       \/ \E op \in Calls[p] : Enter(p, op)
  \/ LogBegin \/ LogEnd

\* A system call or an exit that has begun runs on.
DisplayFairness == \A p \in Proc : WF_displayVars(Inside(p))

DisplaySpec == DisplayInit /\ [][DisplayNext]_displayVars /\ DisplayFairness

-----------------------------------------------------------------------------
Drawers(who) ==
  IF who = "GOP" THEN {p \in Proc : at[p] = "drawing"}
  ELSE {p \in Proc : at[p] = "redrawing"} \cup (IF logging THEN {Nobody} ELSE {})

\* Types of the registry and the session.
DisplayTypeOK ==
  /\ svc \in [Slot -> [owner : Proc \cup {Nobody}, name : {"window", "display", "input", "none"},
                       gen : 0 .. MaxService]]
  /\ state \in {"CONSOLE_ACTIVE", "GUI_ACQUIRING", "GUI_ACTIVE", "CONSOLE_RESTORING", "FALLBACK"}
  /\ owner \in {"NONE", "TERMINAL", "GOP"} /\ (owner = "NONE" <=> depth = 0)

\* Console output never reaches the screen while a GUI session is being
\* acquired or is active, although a draw runs outside the lock and may
\* straddle any number of session changes.
NoConsoleOverGui ==
  Drawers("TERMINAL") # {} => owner = "TERMINAL" /\ state \in Console

\* The two renderers never draw at the same time.
OneRenderer == Drawers("TERMINAL") = {} \/ Drawers("GOP") = {}

\* A session has owners exactly while it is held or being taken back, and
\* a process that holds the current lease is its window service: a lease
\* of an earlier session opens nothing.
SessionOwned ==
  /\ state \in {"GUI_ACQUIRING", "GUI_ACTIVE"} => swindow # Nobody /\ sdisplay # Nobody
  /\ state = "CONSOLE_ACTIVE" => swindow = Nobody /\ sdisplay = Nobody
  /\ \A p \in Proc : (lease[p] = sgen /\ swindow # Nobody) => swindow = p

\* A window service that is gone leaves no session behind it.
WindowOwnerLive ==
  state \in {"GUI_ACQUIRING", "GUI_ACTIVE"} => at[swindow] # "gone"

\* Neither does a display service that is gone.  Refuted: the display
\* service may die between the lookup of FindDisplay and SessionBegin.
SessionOwnersLive ==
  state \in {"GUI_ACQUIRING", "GUI_ACTIVE"} => at[swindow] # "gone" /\ at[sdisplay] # "gone"

\* The console becomes active again only after it was redrawn.  Refuted:
\* redraw gives up while a present owns the screen, and the restore ends
\* all the same.
RestoreRedraws ==
  [][(state = "CONSOLE_RESTORING" /\ state' = "CONSOLE_ACTIVE") =>
       \A p \in Proc : at[p] = "blind" => at'[p] = "blind"]_displayVars

\* Two live registrations never share a name, and a process that is gone has
\* none.
NamesUnique ==
  /\ \A i, j \in Slot : svc[i].name # "none" /\ svc[i].name = svc[j].name => i = j
  /\ \A i \in Slot : svc[i].owner # Nobody => at[svc[i].owner] # "gone"

\* Only its owner's call or its owner's death removes a registration: a
\* prune that read a stale entry never clears the one that replaced it.
RegistrationStays ==
  [][\A i \in Slot :
       (svc[i].owner # Nobody /\ svc'[i] # svc[i]) =>
          svc[i].owner \notin alive \/ at[svc[i].owner] = "unregister"]_displayVars

\* A session change that has begun ends.
HandoffEnds ==
  (state \in {"GUI_ACQUIRING", "CONSOLE_RESTORING", "FALLBACK"})
    ~> (state \in {"GUI_ACTIVE", "CONSOLE_ACTIVE"})
=============================================================================
