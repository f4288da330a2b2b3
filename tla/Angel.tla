-------------------------------- MODULE Angel --------------------------------
(***************************************************************************)
(* lighttpd-angel.c: a process that starts the server, forwards signals to *)
(* it, starts it again when it crashes, and starts a second one beside it  *)
(* for a graceful restart.  Its signal handlers interrupt the main loop    *)
(* between any two steps, and (sa_mask is empty) each other.               *)
(*                                                                         *)
(* Between fork() and execvp() a child still has the angel's handlers, and *)
(* acts on a signal with its own copy of "pid": the angel's last child     *)
(* ("forked"), and 0, its whole process group, once the result of fork()   *)
(* is assigned ("named").  After execvp() any signal kills it ("young")    *)
(* until it has handlers of its own ("running").                           *)
(***************************************************************************)
EXTENDS Integers, Sequences, FiniteSets

CONSTANTS
    MaxChildren,            \* bound: fork()s
    MaxSignals              \* bound: signals from outside

AngelAssumption == MaxChildren \in Nat \ {0} /\ MaxSignals \in Nat

VARIABLES
    pid,                    \* the child the angel looks after, or -1
    child,                  \* kernel: state of every child ever forked
    coming,                 \* kernel: children with a SIGINT or SIGTERM to be delivered
    told,                   \* history: children that such a signal was sent to
    start_process, is_shutdown,
    main,                   \* where the main loop is
    pending,                \* signals to be delivered to the angel
    handlers,               \* handlers that sleep or wait, the innermost last
    signals                 \* signals sent so far

flags == <<start_process, is_shutdown>>
kills == <<coming, told>>
vars  == <<pid, child, kills, flags, main, pending, handlers, signals>>

Children == 1..MaxChildren
NoPid    == -1
In(states) == {c \in Children : child[c] \in states}
Serving == {"forked", "named", "young", "running"}
Zombies == In({"exited", "crashed"})
Alive   == In(Serving \cup {"ending"})

Occurs(s, x) == \E k \in DOMAIN s : s[k] = x

TypeOK ==
    /\ pid \in Children \cup {NoPid}
    /\ child \in [Children -> {"none", "ending", "exited", "crashed", "gone"} \cup Serving]
    /\ coming \subseteq told /\ told \subseteq Children
    /\ {start_process, is_shutdown} \subseteq BOOLEAN
    /\ main \in {"check", "fork", "assign", "started", "wait", "blocked", "done", "failed"}
    /\ pending \subseteq {"INT", "TERM", "HUP", "CHLD"}
    /\ handlers \in {<<>>} \cup {<<h>> : h \in {"hup", "chld", "chld_over"}}
                    \cup {<<"hup", h>> : h \in {"chld", "chld_over"}} \cup {<<"chld_over", "hup">>}
    /\ signals \in 0..MaxSignals

Init ==
    /\ pid = NoPid /\ child = [c \in Children |-> "none"] /\ coming = {} /\ told = {}
    /\ start_process = TRUE /\ is_shutdown = FALSE
    /\ main = "check" /\ pending = {} /\ handlers = <<>>
    /\ signals = 0

Over == main \in {"done", "failed"}

-----------------------------------------------------------------------------
(***************************************************************************)
(* Children and the signals from outside.                                  *)
(***************************************************************************)
Dies(c, how) ==
    /\ child' = [child EXCEPT ![c] = how] /\ coming' = coming \ {c}
    /\ pending' = pending \cup {"CHLD"}

Grows(c, from, to) == child[c] = from /\ child' = [child EXCEPT ![c] = to]

ChildLives(c) ==
    /\ \/ /\ c \notin coming
          /\ Grows(c, "forked", "named") \/ Grows(c, "named", "young") \/ Grows(c, "young", "running")
          /\ UNCHANGED <<coming, pending>>
       \/ child[c] \in Serving \cup {"ending"} /\ \E how \in {"exited", "crashed"} : Dies(c, how)
    /\ UNCHANGED <<pid, told, flags, main, handlers, signals>>

\* kill() for SIGINT or SIGTERM, from one child or, "taken" = {}, from the angel
Kill(whom, taken) ==
    /\ coming' = (coming \ taken) \cup (whom \cap In(Serving))
    /\ told' = told \cup (whom \cap In(Serving))

\* the angel's handler in a child: kill() for the child that was forked before it, or
\* (-1) every other process, or (0) the process group: itself too, and so for ever
TakesForked(c) ==
    /\ child[c] = "forked" /\ UNCHANGED child
    /\ IF c = 1 THEN Kill(Children \ {c}, {c}) /\ pending' = pending \cup {"INT"}
       ELSE Kill({c - 1}, {c}) /\ UNCHANGED pending

TakesNamed(c) ==
    /\ child[c] = "named" /\ UNCHANGED child
    /\ Kill(Children, {}) /\ pending' = pending \cup {"INT"}

ChildTakes(c) ==
    /\ c \in coming
    /\ \/ TakesForked(c) \/ TakesNamed(c)
       \/ child[c] = "young" /\ Dies(c, "crashed") /\ UNCHANGED told
       \/ Grows(c, "running", "ending") /\ Kill({}, {c}) /\ UNCHANGED pending
    /\ UNCHANGED <<pid, flags, main, handlers, signals>>

Signal(sig) ==
    /\ ~Over /\ signals < MaxSignals
    /\ pending' = pending \cup {sig} /\ signals' = signals + 1
    /\ UNCHANGED <<pid, child, kills, flags, main, handlers>>

-----------------------------------------------------------------------------
(***************************************************************************)
(* The signal handlers.                                                    *)
(***************************************************************************)
\* kill(pid, sig): -1 is every process there is but the angel itself
Hit == IF pid = NoPid THEN Children ELSE {pid}

Nested == handlers # <<>>
Top == handlers[Len(handlers)]

\* a signal is delivered: a waitpid() that is under way ends (unless it has found
\* its child first), and so does a wait() of the SIGCHLD handler
Deliver(sig) ==
    /\ sig \in pending /\ ~Over
    /\ ~(main = "blocked" /\ ~Nested /\ pid \in Zombies)
    /\ main' = IF main = "blocked" THEN "check" ELSE main

Interrupted == [k \in DOMAIN handlers |-> IF handlers[k] = "chld" THEN "chld_over" ELSE handlers[k]]

Forward(sig) ==
    /\ Deliver(sig) /\ Kill(Hit, {})
    /\ pending' = pending \ {sig} /\ handlers' = Interrupted
    /\ UNCHANGED <<pid, child, flags, signals>>

NotTold == UNCHANGED kills      \* mutant: the old server is not told
Told == Kill(Hit, {})

Reentered(h) == TRUE        \* mutant: the signal is not blocked in its own handler
Unblocked(h) == ~Occurs(handlers, h)

Hup ==
    /\ Deliver("HUP") /\ Unblocked("hup")
    /\ Told
    /\ pending' = pending \ {"HUP"} /\ handlers' = Append(Interrupted, "hup")
    /\ UNCHANGED <<pid, child, flags, signals>>

\* the usleep() is over
HupEnds ==
    /\ Nested /\ Top = "hup"
    /\ start_process' = TRUE
    /\ handlers' = SubSeq(handlers, 1, Len(handlers) - 1)
    /\ UNCHANGED <<pid, child, kills, is_shutdown, main, pending, signals>>

Reap(c) == child' = [child EXCEPT ![c] = "gone"]

\* wait() takes any child that has died, or waits for one
Chld ==
    /\ Deliver("CHLD") /\ Unblocked("chld") /\ Unblocked("chld_over")
    /\ pending' = pending \ {"CHLD"}
    /\ \/ \E c \in Zombies : Reap(c) /\ UNCHANGED handlers
       \/ Zombies = {} /\ Alive = {} /\ UNCHANGED <<child, handlers>>
       \/ Zombies = {} /\ Alive # {} /\ handlers' = Append(handlers, "chld") /\ UNCHANGED child
    /\ UNCHANGED <<pid, kills, flags, signals>>

ChldEnds ==
    /\ Nested
    /\ \/ Top = "chld" /\ \E c \in Zombies : Reap(c)
       \/ Top = "chld_over" /\ UNCHANGED child
    /\ handlers' = SubSeq(handlers, 1, Len(handlers) - 1)
    /\ UNCHANGED <<pid, kills, flags, main, pending, signals>>

-----------------------------------------------------------------------------
(***************************************************************************)
(* main().  A pending signal is delivered when a system call returns,      *)
(* before main() goes on.                                                  *)
(***************************************************************************)
At(label) == main = label /\ ~Nested /\ pending = {}
Goto(label) == main' = label
Stable == <<kills, pending, handlers, signals>>

Check ==
    /\ At("check")
    /\ Goto(IF is_shutdown THEN "done" ELSE IF start_process THEN "fork" ELSE "wait")
    /\ UNCHANGED <<pid, child, flags, Stable>>

\* fork(), whose result is not yet in "pid", or which fails
Fork ==
    /\ At("fork")
    /\ \/ /\ Goto("assign")
          /\ \E c \in Children : Grows(c, "none", "forked") /\ \A d \in 1..(c - 1) : child[d] # "none"
          /\ UNCHANGED pid
       \/ Goto("failed") /\ pid' = NoPid /\ UNCHANGED child
    /\ UNCHANGED <<flags, Stable>>

Newest == CHOOSE c \in Children : child[c] # "none" /\ \A d \in Children : d > c => child[d] = "none"

Assign ==
    /\ At("assign") /\ Goto("started") /\ pid' = Newest
    /\ UNCHANGED <<child, flags, Stable>>

Started ==
    /\ At("started") /\ Goto("wait") /\ start_process' = FALSE
    /\ UNCHANGED <<pid, child, is_shutdown, Stable>>

Any == Zombies                           \* mutant: waitpid(-1, ...)
Mine == {pid} \cap Zombies

\* waitpid() has found the child (its SIGCHLD is still pending): a normal exit ends
\* the angel, a crash does not
Found ==
    /\ main \in {"wait", "blocked"} /\ ~Nested
    /\ \E c \in Mine :
          /\ Reap(c)
          /\ is_shutdown' = (is_shutdown \/ child[c] = "exited")
          /\ start_process' = (start_process \/ child[c] = "crashed")
    /\ Goto("check") /\ UNCHANGED <<pid, Stable>>

\* ECHILD: there is no such child
NoChild ==
    /\ At("wait") /\ pid \notin Alive \cup Zombies
    /\ is_shutdown' = (is_shutdown \/ ~start_process)
    /\ Goto("check") /\ UNCHANGED <<pid, child, start_process, Stable>>

Block ==
    /\ At("wait") /\ Mine = {} /\ pid \in Alive
    /\ Goto("blocked") /\ UNCHANGED <<pid, child, flags, Stable>>

Handlers == Hup \/ HupEnds \/ Chld \/ ChldEnds \/ \E sig \in {"INT", "TERM"} : Forward(sig)
Main == Check \/ Fork \/ Assign \/ Started \/ Found \/ NoChild \/ Block

Next == \/ Main \/ Handlers
        \/ \E sig \in {"INT", "TERM", "HUP"} : Signal(sig)
        \/ \E c \in Children : ChildLives(c) \/ ChildTakes(c)

\* the angel and the kernel go on, and a server that is told to end does so
Ends(c) == ChildTakes(c) \/ (child[c] = "ending" /\ ChildLives(c))
Fairness == WF_vars(Main \/ Handlers) /\ \A c \in Children : WF_vars(Ends(c))

Spec == Init /\ [][Next]_vars /\ Fairness

-----------------------------------------------------------------------------
(***************************************************************************)
(* Properties.                                                             *)
(***************************************************************************)

(***************************************************************************)
(* There is never a second server beside one that was not told to end:     *)
(* whenever the angel forks, its last server is dead or was sent a signal. *)
(***************************************************************************)
Untold == In(Serving) \ told
OneServer == Cardinality(Untold) <= 1

(***************************************************************************)
(* The angel does not go while there is a server it has not told.          *)
(***************************************************************************)
NoOrphan == Over => Untold = {}

(***************************************************************************)
(* Both together: the angel tells every server before it starts the next   *)
(* or ends, wherever a handler has interrupted main() or a handler.        *)
(***************************************************************************)
AngelSafe == OneServer /\ NoOrphan

(***************************************************************************)
(* A start that a signal handler or a crash has asked for does not wait    *)
(* for ever: the angel forks, or it ends, unless a child has taken the     *)
(* signal that was to end it between fork() and execvp().                  *)
(***************************************************************************)
Escaped == \E c \in told : child[c] \in Serving /\ (child[c] \in {"forked", "named"} \/ c \notin coming)
StartTaken == start_process ~> ~start_process \/ Over \/ Escaped
=============================================================================
