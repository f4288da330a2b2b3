------------------------------- MODULE Workers -------------------------------
(***************************************************************************)
(* server.max-worker: the parent of server.c forks its workers, starts new *)
(* ones for those that go away, and passes SIGHUP and the end of the       *)
(* server on to its process group - which it is itself a member of.  The   *)
(* handlers of signals only set flags; the parent reads them before it     *)
(* wait()s and when a signal has interrupted wait().                       *)
(***************************************************************************)
EXTENDS Integers, FiniteSets

CONSTANTS
    Procs,                  \* the worker processes there can be at one time
    max_worker,             \* srv->srvconf.max_worker
    MaxSignals,             \* bound: signals from outside
    MaxDeaths               \* bound: workers that die by themselves

WorkersAssumption ==
    /\ {max_worker, MaxSignals, MaxDeaths} \subseteq Nat
    /\ IsFiniteSet(Procs) /\ Cardinality(Procs) >= max_worker /\ max_worker > 0
    /\ "parent" \notin Procs

VARIABLES
    flag,                   \* process -> its flags
    worker,                 \* kernel: worker -> "none", "alive", or "zombie"
    num_childs,
    parent,                 \* where the parent is
    pending,                \* process -> signals to be delivered to it
    signals, deaths,        \* signals from outside and deaths so far
    cycled,                 \* history: how often a process opened its logs again
    hups                    \* history: SIGHUPs from outside

vars == <<flag, worker, num_childs, parent, pending, signals, deaths, cycled, hups>>

Parent == "parent"
All    == Procs \cup {Parent}
Alive  == {w \in Procs : worker[w] = "alive"}
Flags  == [srv_shutdown : BOOLEAN, graceful_shutdown : BOOLEAN, handle_sig_hup : BOOLEAN,
           forwarded_sig_hup : BOOLEAN]

TypeOK ==
    /\ flag \in [All -> Flags] /\ worker \in [Procs -> {"none", "alive", "zombie"}]
    /\ num_childs \in 0..max_worker
    /\ parent \in {"loop", "fork", "wait", "blocked", "interrupted", "cycled", "forward",
                  "exit", "gone", "failed"}
    /\ pending \in [All -> SUBSET {"INT", "TERM", "HUP"}]
    /\ signals \in 0..MaxSignals /\ deaths \in 0..MaxDeaths
    /\ cycled \in [All -> Nat] /\ hups \in 0..MaxSignals

Init ==
    /\ flag = [p \in All |-> [srv_shutdown |-> FALSE, graceful_shutdown |-> FALSE,
                         handle_sig_hup |-> FALSE, forwarded_sig_hup |-> FALSE]]
    /\ worker = [w \in Procs |-> "none"]
    /\ num_childs = max_worker /\ parent = "loop"
    /\ pending = [p \in All |-> {}]
    /\ signals = 0 /\ deaths = 0
    /\ cycled = [p \in All |-> 0] /\ hups = 0

Over == parent \in {"gone", "failed"}
Group == Alive \cup (IF Over THEN {} ELSE {Parent})        \* the process group

-----------------------------------------------------------------------------
(***************************************************************************)
(* Signals.                                                                *)
(***************************************************************************)
\* one from outside, for the parent or (as from a terminal) for the whole group
Signal(sig) ==
    /\ signals < MaxSignals /\ ~Over
    /\ \E to \in {{Parent}, Group} :
          pending' = [p \in All |-> IF p \in to THEN pending[p] \cup {sig} ELSE pending[p]]
    /\ signals' = signals + 1 /\ hups' = IF sig = "HUP" THEN hups + 1 ELSE hups
    /\ UNCHANGED <<flag, worker, num_childs, parent, deaths, cycled>>

\* mutant: the parent does not know its own signal
HupNoted(f) == [f EXCEPT !.handle_sig_hup = TRUE]
OnHup(f) == IF f.forwarded_sig_hup THEN [f EXCEPT !.forwarded_sig_hup = FALSE]
            ELSE [f EXCEPT !.handle_sig_hup = TRUE]

\* sigaction_handler()
Handled(f, sig) ==
    CASE sig = "TERM" -> [f EXCEPT !.srv_shutdown = TRUE]
      [] sig = "INT"  -> [f EXCEPT !.graceful_shutdown = TRUE,
                                   !.srv_shutdown = @ \/ f.graceful_shutdown]
      [] sig = "HUP"  -> OnHup(f)

\* ... which ends a wait() of the parent, unless that has found a worker before
Deliver(p) ==
    /\ p \in Group
    /\ p = Parent /\ parent = "blocked" => "zombie" \notin {worker[w] : w \in Procs}
    /\ \E sig \in pending[p] :
          /\ flag' = [flag EXCEPT ![p] = Handled(@, sig)]
          /\ pending' = [pending EXCEPT ![p] = @ \ {sig}]
    /\ parent' = IF p = Parent /\ parent = "blocked" THEN "interrupted" ELSE parent
    /\ UNCHANGED <<worker, num_childs, signals, deaths, cycled, hups>>

-----------------------------------------------------------------------------
(***************************************************************************)
(* The parent: main() from the first fork() on.  Its pending signals are   *)
(* delivered when a system call returns.                                   *)
(***************************************************************************)
At(label) == parent = label /\ pending[Parent] = {}
Counters == <<signals, deaths, hups>>

Loop ==
    /\ At("loop")
    /\ parent' = IF flag[Parent].srv_shutdown \/ flag[Parent].graceful_shutdown THEN "exit"
                 ELSE IF num_childs > 0 THEN "fork" ELSE "wait"
    /\ UNCHANGED <<flag, worker, num_childs, pending, cycled, Counters>>

\* the new worker inherits the flags
Fork ==
    /\ At("fork")
    /\ \E w \in Procs :
          /\ worker[w] = "none"
          /\ worker' = [worker EXCEPT ![w] = "alive"]
          /\ flag' = [flag EXCEPT ![w] = flag[Parent]]
          /\ pending' = [pending EXCEPT ![w] = {}] /\ cycled' = [cycled EXCEPT ![w] = 0]
    /\ num_childs' = num_childs - 1 /\ parent' = "loop"
    /\ UNCHANGED Counters

ForkFailed ==
    /\ At("fork") /\ parent' = "failed"
    /\ UNCHANGED <<flag, worker, num_childs, pending, cycled, Counters>>

NotCounted == num_childs' = num_childs          \* mutant: a worker that is gone is not missed
CountedDown == num_childs' = num_childs - 1      \* mutant: it is taken for the number of workers that run
Counted == num_childs' = num_childs + 1

\* wait() finds a worker that is gone, or waits
Reap ==
    /\ parent \in {"wait", "blocked"}
    /\ \E w \in Procs : worker[w] = "zombie" /\ worker' = [worker EXCEPT ![w] = "none"]
    /\ Counted /\ parent' = "loop"
    /\ UNCHANGED <<flag, pending, cycled, Counters>>

Block ==
    /\ At("wait") /\ \A w \in Procs : worker[w] # "zombie"
    /\ parent' = "blocked"
    /\ UNCHANGED <<flag, worker, num_childs, pending, cycled, Counters>>

\* EINTR: log_error_cycle() on SIGHUP, ...
Interrupted ==
    /\ At("interrupted")
    /\ IF flag[Parent].handle_sig_hup
       THEN /\ flag' = [flag EXCEPT ![Parent].handle_sig_hup = FALSE]
            /\ cycled' = [cycled EXCEPT ![Parent] = @ + 1] /\ parent' = "cycled"
       ELSE parent' = "loop" /\ UNCHANGED <<flag, cycled>>
    /\ UNCHANGED <<worker, num_childs, pending, Counters>>

Cycled ==
    /\ At("cycled")
    /\ IF flag[Parent].forwarded_sig_hup THEN parent' = "loop" /\ UNCHANGED flag
       ELSE parent' = "forward" /\ flag' = [flag EXCEPT ![Parent].forwarded_sig_hup = TRUE]
    /\ UNCHANGED <<worker, num_childs, pending, cycled, Counters>>

KillGroup(sig, to) ==
    pending' = [p \in All |-> IF p \in to THEN pending[p] \cup {sig} ELSE pending[p]]

\* ... and kill(0, SIGHUP)
ForwardHup ==
    /\ At("forward") /\ KillGroup("HUP", Group) /\ parent' = "loop"
    /\ UNCHANGED <<flag, worker, num_childs, cycled, Counters>>

OnTermOnly == IF flag[Parent].srv_shutdown THEN Group ELSE {}   \* mutant
Told == Group

\* "for the parent this is the exit-point"
Exit ==
    /\ At("exit")
    /\ KillGroup(IF flag[Parent].graceful_shutdown THEN "INT" ELSE "TERM", Told)
    /\ parent' = "gone"
    /\ UNCHANGED <<flag, worker, num_childs, cycled, Counters>>

-----------------------------------------------------------------------------
(***************************************************************************)
(* A worker: its main loop reads the flags.                                *)
(***************************************************************************)
WorkerCycles(w) ==
    /\ worker[w] = "alive" /\ flag[w].handle_sig_hup
    /\ flag' = [flag EXCEPT ![w].handle_sig_hup = FALSE]
    /\ cycled' = [cycled EXCEPT ![w] = @ + 1]
    /\ UNCHANGED <<worker, num_childs, parent, pending, Counters>>

WorkerEnds(w) ==
    /\ worker[w] = "alive" /\ (flag[w].srv_shutdown \/ flag[w].graceful_shutdown)
    /\ worker' = [worker EXCEPT ![w] = "zombie"]
    /\ UNCHANGED <<flag, num_childs, parent, pending, cycled, Counters>>

WorkerDies(w) ==
    /\ worker[w] = "alive" /\ deaths < MaxDeaths
    /\ worker' = [worker EXCEPT ![w] = "zombie"] /\ deaths' = deaths + 1
    /\ UNCHANGED <<flag, num_childs, parent, pending, cycled, signals, hups>>

ParentSteps == Loop \/ Fork \/ ForkFailed \/ Reap \/ Block \/ Interrupted \/ Cycled
               \/ ForwardHup \/ Exit \/ Deliver(Parent)
WorkerSteps(w) == Deliver(w) \/ WorkerCycles(w) \/ WorkerEnds(w)

Next == \/ ParentSteps
        \/ \E w \in Procs : WorkerSteps(w) \/ WorkerDies(w)
        \/ \E sig \in {"INT", "TERM", "HUP"} : Signal(sig)

\* every process goes on; a worker that is told to end does so
Fairness == WF_vars(ParentSteps) /\ \A w \in Procs : WF_vars(WorkerSteps(w))

Spec == Init /\ [][Next]_vars /\ Fairness

-----------------------------------------------------------------------------
(***************************************************************************)
(* Properties.                                                             *)
(***************************************************************************)

(***************************************************************************)
(* Every worker that is missing is counted, neither twice nor never, while *)
(* workers die and the parent's wait() is interrupted.                     *)
(***************************************************************************)
WorkersCounted ==
    num_childs + Cardinality({w \in Procs : worker[w] # "none"}) = max_worker

(***************************************************************************)
(* The parent gets every SIGHUP that it sends to its group itself: it does *)
(* not answer that with another one, whatever comes in between.            *)
(***************************************************************************)
HupsEnd == cycled[Parent] <= hups

(***************************************************************************)
(* When the parent has left, no worker goes on serving: each was told to   *)
(* end, even one that was forked while the signal came.                    *)
(***************************************************************************)
Stopping(w) == \/ flag[w].srv_shutdown \/ flag[w].graceful_shutdown
               \/ pending[w] \cap {"INT", "TERM"} # {}
NoneForgotten == parent = "gone" => \A w \in Alive : Stopping(w)

(***************************************************************************)
(* Both together: no worker is lost, neither to the parent nor by it.      *)
(***************************************************************************)
NoneLost == WorkersCounted /\ NoneForgotten

(***************************************************************************)
(* Workers that are missing are started again unless the server ends (or a *)
(* fork() fails, with which the parent leaves the others alone).           *)
(***************************************************************************)
Ending == flag[Parent].srv_shutdown \/ flag[Parent].graceful_shutdown
Replaced == Cardinality(Alive) < max_worker ~> Cardinality(Alive) = max_worker \/ Ending \/ Over

(***************************************************************************)
(* NEWS:342 on server.max-worker: "fixed forwarding a SIGINT and SIGHUP    *)
(* when using max-workers".                                                *)
(***************************************************************************)
StopForwarded == Ending ~> Over
=============================================================================
