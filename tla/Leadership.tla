----------------------------- MODULE Leadership -----------------------------
(***************************************************************************)
(* Which process runs the round engine.  Every process asks once, when it  *)
(* starts, for a session-level advisory lock on a connection of its own;   *)
(* the one that gets it starts the timer that runs the ticks.  The server  *)
(* frees the lock when it finds the session gone, which may be later than  *)
(* the death of its process, and earlier than the process learns of it.    *)
(***************************************************************************)
EXTENDS Naturals

CONSTANT Processes   \* the processes of the deployment

VARIABLES
  proc,   \* the state of each process
  lock    \* whose session holds the advisory lock

vars == <<proc, lock>>

Free == "free"
Ghost == "ghost"     \* held by the session of a process that is gone

ASSUME ProcessesAssumption == {Free, Ghost} \cap Processes = {}

\* tick looks at the games one after the other.
LastGame == 2

\* game is the one the tick in flight looks at, 0 between ticks; cut says that
\* the server ended the session and the process does not know.
Process == [pc : {"down", "asking", "up", "releasing", "closed"},
            leader : BOOLEAN, timer : BOOLEAN, stopped : BOOLEAN,
            game : 0..LastGame, cut : BOOLEAN]

Down == [pc |-> "down", leader |-> FALSE, timer |-> FALSE, stopped |-> FALSE,
         game |-> 0, cut |-> FALSE]

-----------------------------------------------------------------------------
(* start *)

\* onApplicationBootstrap connects the lock's client.
Boot(p) ==
  /\ proc[p].pc = "down"
  /\ proc' = [proc EXCEPT ![p].pc = "asking"]
  /\ UNCHANGED lock

\* Mutation of TryAcquire: the answer of pg_try_advisory_lock is not looked at.
AcquireAnyway(p) ==
  /\ proc[p].pc = "asking"
  /\ lock' = IF lock = Free THEN p ELSE lock
  /\ proc' = [proc EXCEPT ![p].pc = "up", ![p].leader = TRUE, ![p].timer = TRUE]

\* The only question a process ever asks: a leader starts its timer, a follower
\* stays one.
TryAcquire(p) ==
  /\ proc[p].pc = "asking"
  /\ IF lock = Free
       THEN /\ lock' = p
            /\ proc' = [proc EXCEPT ![p].pc = "up", ![p].leader = TRUE,
                                    ![p].timer = TRUE]
       ELSE /\ UNCHANGED lock
            /\ proc' = [proc EXCEPT ![p].pc = "up"]

-----------------------------------------------------------------------------
(* the tick loop *)

\* The timer fires; safeTick returns at once while a tick is in flight or the
\* engine has stopped.
SafeTick(p) ==
  /\ proc[p].timer
  /\ proc[p].game = 0
  /\ ~ proc[p].stopped
  /\ proc' = [proc EXCEPT ![p].game = 1]
  /\ UNCHANGED lock

TickGame(p) ==
  /\ proc[p].game # 0
  /\ proc' = [proc EXCEPT ![p].game = IF @ = LastGame THEN 0 ELSE @ + 1]
  /\ UNCHANGED lock

\* An error ends the tick, whatever game it looked at, and is logged.
TickFails(p) ==
  /\ proc[p].game # 0
  /\ proc' = [proc EXCEPT ![p].game = 0]
  /\ UNCHANGED lock

-----------------------------------------------------------------------------
(* the end of a process *)

\* Mutation of Close: the timer goes on while the lock is released.
CloseStillTicking(p) ==
  /\ proc[p].pc = "up"
  /\ proc' = [proc EXCEPT ![p].pc = "releasing"]
  /\ UNCHANGED lock

\* onModuleDestroy, when the application is closed.  A tick in flight goes on.
Close(p) ==
  /\ proc[p].pc = "up"
  /\ proc' = [proc EXCEPT ![p].pc = "releasing", ![p].stopped = TRUE,
                          ![p].timer = FALSE]
  /\ UNCHANGED lock

\* release unlocks, if it believes to lead, and ends the session either way.
Release(p) ==
  /\ proc[p].pc = "releasing"
  /\ lock' = IF lock = p THEN Free ELSE lock
  /\ proc' = [proc EXCEPT ![p].pc = "closed", ![p].leader = FALSE]

\* The process is gone; what it had in flight is rolled back, and its session
\* stays until the server notices.
Die(p) ==
  /\ proc[p].pc # "down"
  /\ proc' = [proc EXCEPT ![p] = Down]
  /\ lock' = IF lock = p THEN Ghost ELSE lock

\* The server ends the session of a leader that is still there.  A follower never
\* uses its session again, so nothing depends on it.
CutSession(p) ==
  /\ proc[p].pc = "up"
  /\ proc[p].leader /\ ~ proc[p].cut
  /\ proc' = [proc EXCEPT ![p].cut = TRUE]
  /\ lock' = IF lock = p THEN Free ELSE lock

NoticeGhost ==
  /\ lock = Ghost
  /\ lock' = Free
  /\ UNCHANGED proc

-----------------------------------------------------------------------------
Init ==
  /\ proc = [p \in Processes |-> Down]
  /\ lock = Free

RunTick(p) == TickGame(p) \/ TickFails(p)

Next ==
  \/ \E p \in Processes :
       \/ Boot(p) \/ TryAcquire(p)
       \/ SafeTick(p) \/ RunTick(p)
       \/ Close(p) \/ Release(p) \/ Die(p) \/ CutSession(p)
  \/ NoticeGhost

Spec == Init /\ [][Next]_vars

\* Processes are restarted; what they wait for comes back; the timer fires; the
\* server finds out.  Nothing has to die, or to be closed, or to be cut off.
Fairness ==
  /\ \A p \in Processes :
       /\ WF_vars(Boot(p)) /\ WF_vars(TryAcquire(p))
       /\ WF_vars(SafeTick(p)) /\ WF_vars(RunTick(p))
       /\ WF_vars(Release(p))
       /\ WF_vars(proc[p].pc = "closed" /\ Die(p))
  /\ WF_vars(NoticeGhost)

FairSpec == Spec /\ Fairness

-----------------------------------------------------------------------------
(* properties *)

TypeOK ==
  /\ proc \in [Processes -> Process]
  /\ lock \in Processes \cup {Free, Ghost}

Ticking(p) == proc[p].game # 0

\* Two processes are in the middle of a tick at once only if one of them is
\* shutting down, its last tick still in flight, or was cut off by the server.
OneEngine ==
  \A p, q \in Processes :
    p # q /\ Ticking(p) /\ Ticking(q) =>
      \E x \in {p, q} : proc[x].stopped \/ proc[x].cut

\* No process starts a tick without the lock, unless it was cut off from it.
TicksStartUnderTheLock ==
  [][\A p \in Processes : ~ Ticking(p) /\ Ticking(p)' => lock = p \/ proc[p].cut]_vars

\* What leader-election.service.ts says of the lock: it "is released automatically
\* if the process dies, so a crashed leader does not wedge the system".  Once all
\* processes are up for good, one of them ticks.
CrashedLeaderDoesNotWedge ==
  <>[](\A p \in Processes : proc[p].pc = "up") => []<>(\E p \in Processes : Ticking(p))

=============================================================================
