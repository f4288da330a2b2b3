---------------------------- MODULE ProcessProofs -----------------------------
(***************************************************************************)
(* Who starts processes and looks after them: the parent of                *)
(* server.max-worker, and the angel.  What they promise, for any number of *)
(* workers, children, signals and deaths.                                  *)
(***************************************************************************)
EXTENDS Workers, FiniteSetTheorems, SequenceTheorems, TLAPS

CONSTANT MaxChildren
VARIABLES pid, child, coming, told, start_process, is_shutdown, main, waiting, handlers, sent
A == INSTANCE Angel WITH pending <- waiting, signals <- sent

-----------------------------------------------------------------------------
(***************************************************************************)
(* Types.                                                                  *)
(***************************************************************************)
Places == {"loop", "fork", "wait", "blocked", "interrupted", "cycled", "forward",
           "exit", "gone", "failed"}

\* the part that needs no counting
Shape ==
    /\ flag \in [All -> Flags] /\ worker \in [Procs -> {"none", "alive", "zombie"}]
    /\ parent \in Places
    /\ pending \in [All -> SUBSET {"INT", "TERM", "HUP"}]
    /\ cycled \in [All -> Nat]

LEMMA ShapeInit == Init => Shape
BY DEF Init, Shape, Places, Flags

LEMMA HandledFlags ==
    ASSUME NEW f \in Flags, NEW sig \in {"INT", "TERM", "HUP"}
    PROVE  Handled(f, sig) \in Flags
<1>1. CASE sig = "TERM" BY <1>1 DEF Handled, Flags
<1>2. CASE sig = "INT" BY <1>2 DEF Handled, Flags
<1>3. CASE sig = "HUP"
  <2>1. OnHup(f) \in Flags BY DEF OnHup, Flags
  <2>2. Handled(f, sig) = OnHup(f) BY <1>3 DEF Handled
  <2> QED BY <2>1, <2>2
<1> QED BY <1>1, <1>2, <1>3

\* signals that reach a set of processes
LEMMA MoreSignals ==
    ASSUME Shape, NEW sig \in {"INT", "TERM", "HUP"}, NEW to,
           pending' = [p \in All |-> IF p \in to THEN pending[p] \cup {sig} ELSE pending[p]]
    PROVE  pending' \in [All -> SUBSET {"INT", "TERM", "HUP"}]
BY DEF Shape

\* log_error_cycle() after SIGHUP
LEMMA Noted ==
    ASSUME Shape, NEW p \in All
    PROVE  /\ [flag EXCEPT ![p].handle_sig_hup = FALSE] \in [All -> Flags]
           /\ [cycled EXCEPT ![p] = @ + 1] \in [All -> Nat]
<1>1. flag \in [All -> Flags] /\ cycled \in [All -> Nat] BY DEF Shape
<1>2. [flag[p] EXCEPT !.handle_sig_hup = FALSE] \in Flags BY <1>1 DEF Flags
<1>3. [flag EXCEPT ![p].handle_sig_hup = FALSE]
        = [flag EXCEPT ![p] = [flag[p] EXCEPT !.handle_sig_hup = FALSE]]
  OBVIOUS
<1>4. [flag EXCEPT ![p] = [flag[p] EXCEPT !.handle_sig_hup = FALSE]] \in [All -> Flags]
  BY <1>1, <1>2
<1>5. cycled[p] + 1 \in Nat BY <1>1
<1>6. [cycled EXCEPT ![p] = @ + 1] \in [All -> Nat] BY <1>1, <1>5
<1> QED BY <1>3, <1>4, <1>6

LEMMA ShapeStep == Shape /\ [Next]_vars => Shape'
<1> SUFFICES ASSUME Shape, [Next]_vars PROVE Shape'
  OBVIOUS
<1> USE DEF Counters
<1>1. ASSUME NEW sig \in {"INT", "TERM", "HUP"}, Signal(sig) PROVE Shape'
  <2>1. pending' \in [All -> SUBSET {"INT", "TERM", "HUP"}]
    BY <1>1, MoreSignals DEF Signal
  <2> QED BY <1>1, <2>1 DEF Shape, Signal
<1>2. ASSUME NEW p \in All, Deliver(p) PROVE Shape'
  <2>1. PICK sig \in pending[p] : /\ flag' = [flag EXCEPT ![p] = Handled(@, sig)]
                                  /\ pending' = [pending EXCEPT ![p] = @ \ {sig}]
    BY <1>2 DEF Deliver
  <2>2. sig \in {"INT", "TERM", "HUP"} /\ flag[p] \in Flags BY <2>1 DEF Shape
  <2>3. Handled(flag[p], sig) \in Flags BY <2>2, HandledFlags
  <2>4. flag' \in [All -> Flags] BY <2>1, <2>3 DEF Shape
  <2>5. pending' \in [All -> SUBSET {"INT", "TERM", "HUP"}] BY <2>1 DEF Shape
  <2>6. parent' \in Places /\ UNCHANGED <<worker, cycled>>
    BY <1>2 DEF Deliver, Shape, Places
  <2> QED BY <2>4, <2>5, <2>6 DEF Shape
<1>3. CASE Loop
  <2>1. parent' \in Places BY <1>3 DEF Loop, Places
  <2> QED BY <1>3, <2>1 DEF Shape, Loop
<1>4. CASE Fork
  <2>1. PICK w \in Procs : /\ worker' = [worker EXCEPT ![w] = "alive"]
                           /\ flag' = [flag EXCEPT ![w] = flag[Parent]]
                           /\ pending' = [pending EXCEPT ![w] = {}]
                           /\ cycled' = [cycled EXCEPT ![w] = 0]
    BY <1>4 DEF Fork
  <2>2. Parent \in All /\ w \in All BY DEF All
  <2>3. flag' \in [All -> Flags] BY <2>1, <2>2 DEF Shape
  <2>4. pending' \in [All -> SUBSET {"INT", "TERM", "HUP"}] BY <2>1 DEF Shape
  <2>5. cycled' \in [All -> Nat] /\ worker' \in [Procs -> {"none", "alive", "zombie"}]
    BY <2>1 DEF Shape
  <2>6. parent' \in Places BY <1>4 DEF Fork, Places
  <2> QED BY <2>3, <2>4, <2>5, <2>6 DEF Shape
<1>5. CASE ForkFailed BY <1>5 DEF Shape, ForkFailed, Places
<1>6. CASE Reap BY <1>6 DEF Shape, Reap, Places
<1>7. CASE Block BY <1>7 DEF Shape, Block, Places
<1>8. CASE Interrupted
  <2>1. Parent \in All BY DEF All
  <2>2. \/ /\ flag' = [flag EXCEPT ![Parent].handle_sig_hup = FALSE]
           /\ cycled' = [cycled EXCEPT ![Parent] = @ + 1]
        \/ flag' = flag /\ cycled' = cycled
    BY <1>8 DEF Interrupted
  <2>3. flag' \in [All -> Flags] /\ cycled' \in [All -> Nat]
    <3>1. flag \in [All -> Flags] /\ cycled \in [All -> Nat] BY DEF Shape
    <3>2. /\ [flag EXCEPT ![Parent].handle_sig_hup = FALSE] \in [All -> Flags]
          /\ [cycled EXCEPT ![Parent] = @ + 1] \in [All -> Nat]
      BY <2>1, Noted
    <3> QED BY <2>2, <3>1, <3>2
  <2>4. parent' \in Places /\ UNCHANGED <<worker, pending>>
    BY <1>8 DEF Interrupted, Places
  <2> QED BY <2>3, <2>4 DEF Shape
<1>9. CASE Cycled
  <2>1. Parent \in All BY DEF All
  <2>2. \/ flag' = [flag EXCEPT ![Parent].forwarded_sig_hup = TRUE]
        \/ flag' = flag
    BY <1>9 DEF Cycled
  <2>3. flag' \in [All -> Flags]
    <3>1. flag \in [All -> Flags] BY DEF Shape
    <3> QED BY <2>1, <2>2, <3>1 DEF Flags
  <2>4. parent' \in Places /\ UNCHANGED <<worker, pending, cycled>>
    BY <1>9 DEF Cycled, Places
  <2> QED BY <2>3, <2>4 DEF Shape
<1>10. CASE ForwardHup
  <2>1. pending' \in [All -> SUBSET {"INT", "TERM", "HUP"}]
    BY <1>10, MoreSignals DEF ForwardHup, KillGroup
  <2> QED BY <1>10, <2>1 DEF Shape, ForwardHup, Places
<1>11. CASE Exit
  <2>1. pending' \in [All -> SUBSET {"INT", "TERM", "HUP"}]
    BY <1>11, MoreSignals DEF Exit, KillGroup
  <2> QED BY <1>11, <2>1 DEF Shape, Exit, Places
<1>12. ASSUME NEW w \in Procs, WorkerCycles(w) PROVE Shape'
  <2>1. /\ flag' = [flag EXCEPT ![w].handle_sig_hup = FALSE]
        /\ cycled' = [cycled EXCEPT ![w] = @ + 1] /\ w \in All
    BY <1>12 DEF WorkerCycles, All
  <2>2. flag' \in [All -> Flags] /\ cycled' \in [All -> Nat] BY <2>1, Noted
  <2> QED BY <1>12, <2>2 DEF Shape, WorkerCycles
<1>13. ASSUME NEW w \in Procs, WorkerEnds(w) \/ WorkerDies(w) PROVE Shape'
  BY <1>13 DEF Shape, WorkerEnds, WorkerDies
<1>14. CASE UNCHANGED vars BY <1>14 DEF vars, Shape
<1> QED
  BY <1>1, <1>2, <1>3, <1>4, <1>5, <1>6, <1>7, <1>8, <1>9, <1>10, <1>11, <1>12, <1>13, <1>14
     DEF Next, ParentSteps, WorkerSteps, All


-----------------------------------------------------------------------------
(***************************************************************************)
(* NoneForgotten.                                                          *)
(***************************************************************************)

\* who is told to end stays told
LEMMA StoppingStays ==
    ASSUME Shape, NEW w \in Procs, Deliver(w), Stopping(w)
    PROVE  Stopping(w)'
<1>1. PICK sig \in pending[w] : /\ flag' = [flag EXCEPT ![w] = Handled(@, sig)]
                                /\ pending' = [pending EXCEPT ![w] = @ \ {sig}]
  BY DEF Deliver
<1>2. w \in All /\ sig \in {"INT", "TERM", "HUP"} /\ flag[w] \in Flags
  BY <1>1 DEF Shape, All
<1>3. flag'[w] = Handled(flag[w], sig) /\ pending'[w] = pending[w] \ {sig}
  BY <1>1, <1>2 DEF Shape
<1>4. CASE sig = "TERM"
  <2>1. flag'[w].srv_shutdown = TRUE BY <1>2, <1>3, <1>4 DEF Handled, Flags
  <2> QED BY <2>1 DEF Stopping
<1>5. CASE sig = "INT"
  <2>1. flag'[w].graceful_shutdown = TRUE BY <1>2, <1>3, <1>5 DEF Handled, Flags
  <2> QED BY <2>1 DEF Stopping
<1>6. CASE sig = "HUP"
  <2>1. flag'[w] = OnHup(flag[w]) BY <1>3, <1>6 DEF Handled
  <2>2. /\ flag'[w].srv_shutdown = flag[w].srv_shutdown
        /\ flag'[w].graceful_shutdown = flag[w].graceful_shutdown
    BY <1>2, <2>1 DEF OnHup, Flags
  <2>3. pending[w] \cap {"INT", "TERM"} \subseteq pending'[w] \cap {"INT", "TERM"}
    BY <1>3, <1>6
  <2> QED BY <2>2, <2>3 DEF Stopping
<1> QED BY <1>2, <1>4, <1>5, <1>6

LEMMA NoneForgottenStep ==
    ASSUME WorkersAssumption PROVE Shape /\ NoneForgotten /\ [Next]_vars => NoneForgotten'
<1> SUFFICES ASSUME Shape, NoneForgotten, [Next]_vars, parent' = "gone", NEW w \in Alive'
             PROVE  Stopping(w)'
  BY DEF NoneForgotten
<1> USE DEF Counters
<1>0. w \in Procs /\ w \in All /\ w # Parent /\ worker'[w] = "alive"
  BY DEF WorkersAssumption, Alive, All, Parent
<1>1. ASSUME NEW sig \in {"INT", "TERM", "HUP"}, Signal(sig) PROVE Stopping(w)'
  BY <1>1 DEF Signal, Over
<1>2. ASSUME NEW p \in All, Deliver(p) PROVE Stopping(w)'
  <2>1. parent = "gone" /\ worker' = worker /\ p \in Group
    BY <1>2 DEF Deliver
  <2>2. Stopping(w) BY <1>0, <2>1 DEF NoneForgotten, Alive
  <2>3. CASE p = w BY <1>0, <1>2, <2>2, <2>3, StoppingStays
  <2>4. CASE p # w
    <3>1. flag'[w] = flag[w] /\ pending'[w] = pending[w]
      BY <1>0, <1>2, <2>4 DEF Deliver, Shape
    <3> QED BY <2>2, <3>1 DEF Stopping
  <2> QED BY <2>3, <2>4
<1>3. CASE \/ Loop \/ Fork \/ ForkFailed \/ Reap \/ Block \/ Interrupted \/ Cycled
           \/ ForwardHup
  BY <1>3 DEF Loop, Fork, ForkFailed, Reap, Block, Interrupted, Cycled, ForwardHup
<1>4. CASE Exit
  <2>1. w \in Group BY <1>0, <1>4 DEF Exit, Group, Alive
  <2>2. PICK sig \in {"INT", "TERM"} :
            pending' = [p \in All |-> IF p \in Group THEN pending[p] \cup {sig} ELSE pending[p]]
    BY <1>4 DEF Exit, KillGroup, Told
  <2>3. sig \in pending'[w] BY <1>0, <2>1, <2>2
  <2> QED BY <2>3 DEF Stopping
<1>5. ASSUME NEW v \in Procs, WorkerCycles(v) \/ WorkerEnds(v) \/ WorkerDies(v)
      PROVE  Stopping(w)'
  <2>1. parent = "gone" /\ pending' = pending /\ worker[w] = "alive"
    BY <1>0, <1>5 DEF WorkerCycles, WorkerEnds, WorkerDies, Shape
  <2>2. Stopping(w) BY <1>0, <2>1 DEF NoneForgotten, Alive
  <2>3. /\ flag'[w].srv_shutdown = flag[w].srv_shutdown
        /\ flag'[w].graceful_shutdown = flag[w].graceful_shutdown
    <3>1. CASE flag' = flag BY <3>1
    <3>2. CASE flag' = [flag EXCEPT ![v].handle_sig_hup = FALSE]
      <4>1. flag \in [All -> Flags] /\ v \in All BY DEF Shape, All
      <4>2. flag'[w] = flag[w] \/ flag'[w] = [flag[w] EXCEPT !.handle_sig_hup = FALSE]
        BY <1>0, <3>2, <4>1
      <4>3. flag[w] \in Flags BY <1>0, <4>1
      <4> QED BY <4>2, <4>3 DEF Flags
    <3> QED BY <1>5, <3>1, <3>2 DEF WorkerCycles, WorkerEnds, WorkerDies
  <2> QED BY <2>1, <2>2, <2>3 DEF Stopping
<1>6. CASE UNCHANGED vars
  <2>1. parent = "gone" /\ flag' = flag /\ pending' = pending /\ worker' = worker
    BY <1>6 DEF vars
  <2> QED BY <1>0, <2>1 DEF NoneForgotten, Alive, Stopping
<1> QED
  BY <1>1, <1>2, <1>3, <1>4, <1>5, <1>6 DEF Next, ParentSteps, WorkerSteps, All

(***************************************************************************)
(* NoneForgotten: when the parent has left, every worker that runs was     *)
(* told to end, even one that was forked while the signal came.            *)
(***************************************************************************)
THEOREM WorkersNoneForgotten == ASSUME WorkersAssumption PROVE Spec => []NoneForgotten
<1>1. Init => NoneForgotten BY DEF Init, NoneForgotten
<1>2. Shape /\ NoneForgotten /\ [Next]_vars => NoneForgotten' BY NoneForgottenStep
<1> QED BY <1>1, <1>2, ShapeInit, ShapeStep, PTL DEF Spec

-----------------------------------------------------------------------------
(***************************************************************************)
(* HupsEnd.  A SIGHUP from outside is on its way to the parent, noted by   *)
(* it, or has opened the logs again.  One more may be the parent's own:    *)
(* then forwarded_sig_hup is set.                                          *)
(***************************************************************************)
One(b) == IF b THEN 1 ELSE 0

Coming    == "HUP" \in pending[Parent]
OnItsWay  == parent = "forward"
Noticed   == flag[Parent].handle_sig_hup
Forwarded == flag[Parent].forwarded_sig_hup

HupsAdded ==
    /\ hups \in Nat
    /\ cycled[Parent] + One(Noticed) + One(Coming) + One(OnItsWay) <= hups + One(Forwarded)
    /\ Forwarded => Coming \/ OnItsWay

LEMMA HupsBounded == Shape /\ HupsAdded => HupsEnd
<1> SUFFICES ASSUME Shape, HupsAdded PROVE cycled[Parent] <= hups
  BY DEF HupsEnd
<1>1. cycled[Parent] \in Nat /\ hups \in Nat BY DEF Shape, HupsAdded, All
<1>2. CASE Forwarded
  <2>1. One(Coming) + One(OnItsWay) >= 1 BY <1>2 DEF HupsAdded, One
  <2> QED BY <1>1, <1>2, <2>1 DEF HupsAdded, One
<1>3. CASE ~Forwarded BY <1>1, <1>3 DEF HupsAdded, One
<1> QED BY <1>2, <1>3

LEMMA HupsStep ==
    ASSUME WorkersAssumption PROVE Shape /\ HupsAdded /\ [Next]_vars => HupsAdded'
<1> SUFFICES ASSUME Shape, HupsAdded, [Next]_vars PROVE HupsAdded'
  OBVIOUS
<1> USE DEF Counters
<1>0. /\ Parent \in All /\ cycled[Parent] \in Nat /\ hups \in Nat
      /\ flag[Parent] \in Flags /\ cycled \in [All -> Nat]
      /\ flag \in [All -> Flags] /\ pending \in [All -> SUBSET {"INT", "TERM", "HUP"}]
  BY DEF Shape, HupsAdded, All
<1> DEFINE Same == /\ cycled'[Parent] = cycled[Parent] /\ hups' = hups
                   /\ (Noticed' <=> Noticed) /\ (Coming' <=> Coming)
                   /\ (OnItsWay' <=> OnItsWay) /\ (Forwarded' <=> Forwarded)
<1>same. Same => HupsAdded' BY DEF HupsAdded, One
<1>1. ASSUME NEW sig \in {"INT", "TERM", "HUP"}, Signal(sig) PROVE HupsAdded'
  <2>1. /\ cycled' = cycled /\ flag' = flag /\ parent' = parent
        /\ hups' = (IF sig = "HUP" THEN hups + 1 ELSE hups)
        /\ pending'[Parent] = pending[Parent] \/ pending'[Parent] = pending[Parent] \cup {sig}
    BY <1>0, <1>1 DEF Signal
  <2>2. CASE sig = "HUP"
    <3>1. hups' = hups + 1 /\ (Coming => Coming') /\ (Noticed' <=> Noticed)
          /\ (OnItsWay' <=> OnItsWay) /\ (Forwarded' <=> Forwarded)
      BY <2>1, <2>2 DEF Coming, Noticed, OnItsWay, Forwarded
    <3>2. One(Coming') <= One(Coming) + 1 BY DEF One
    <3> QED BY <1>0, <2>1, <3>1, <3>2 DEF HupsAdded, One
  <2>3. CASE sig # "HUP"
    <3>1. Same BY <2>1, <2>3 DEF Coming, Noticed, OnItsWay, Forwarded
    <3> QED BY <3>1, <1>same
  <2> QED BY <2>2, <2>3
<1>2. CASE Deliver(Parent)
  <2>1. PICK sig \in pending[Parent] :
            /\ flag' = [flag EXCEPT ![Parent] = Handled(@, sig)]
            /\ pending' = [pending EXCEPT ![Parent] = @ \ {sig}]
    BY <1>2 DEF Deliver
  <2>2. /\ flag'[Parent] = Handled(flag[Parent], sig)
        /\ pending'[Parent] = pending[Parent] \ {sig}
        /\ cycled' = cycled /\ hups' = hups /\ sig \in {"INT", "TERM", "HUP"}
    BY <1>0, <1>2, <2>1 DEF Deliver
  <2>3. OnItsWay' <=> OnItsWay BY <1>2 DEF Deliver, OnItsWay
  <2>4. CASE sig # "HUP"
    <3>1. Coming' <=> Coming BY <2>2, <2>4 DEF Coming
    <3>2. /\ flag'[Parent].handle_sig_hup = flag[Parent].handle_sig_hup
          /\ flag'[Parent].forwarded_sig_hup = flag[Parent].forwarded_sig_hup
      <4>1. CASE sig = "TERM" BY <1>0, <2>2, <4>1 DEF Handled, Flags
      <4>2. CASE sig = "INT" BY <1>0, <2>2, <4>2 DEF Handled, Flags
      <4> QED BY <2>2, <2>4, <4>1, <4>2
    <3>3. Same BY <2>2, <2>3, <3>1, <3>2 DEF Noticed, Forwarded
    <3> QED BY <3>3, <1>same
  <2>5. CASE sig = "HUP"
    <3>1. Coming /\ ~Coming' BY <2>1, <2>2, <2>5 DEF Coming
    <3>2. flag'[Parent] = OnHup(flag[Parent]) BY <2>2, <2>5 DEF Handled
    <3>3. CASE Forwarded
      <4>1. ~Forwarded' /\ (Noticed' <=> Noticed)
        BY <1>0, <3>2, <3>3 DEF OnHup, Forwarded, Noticed, Flags
      <4> QED BY <1>0, <2>2, <2>3, <3>1, <3>3, <4>1 DEF HupsAdded, One
    <3>4. CASE ~Forwarded
      <4>1. ~Forwarded' /\ Noticed'
        BY <1>0, <3>2, <3>4 DEF OnHup, Forwarded, Noticed, Flags
      <4>2. One(Noticed') <= One(Noticed) + 1 BY DEF One
      <4> QED BY <1>0, <2>2, <2>3, <3>1, <3>4, <4>1, <4>2 DEF HupsAdded, One
    <3> QED BY <3>3, <3>4
  <2> QED BY <2>4, <2>5
<1>3. ASSUME NEW w \in Procs,
             Deliver(w) \/ WorkerCycles(w) \/ WorkerEnds(w) \/ WorkerDies(w)
      PROVE  HupsAdded'
  <2>1. w # Parent /\ w \in All BY DEF WorkersAssumption, Parent, All
  <2>2. parent' = parent /\ hups' = hups
    BY <1>3, <2>1 DEF Deliver, WorkerCycles, WorkerEnds, WorkerDies
  <2>3. flag'[Parent] = flag[Parent] /\ pending'[Parent] = pending[Parent]
    BY <1>0, <1>3, <2>1 DEF Deliver, WorkerCycles, WorkerEnds, WorkerDies
  <2>4. cycled'[Parent] = cycled[Parent]
    BY <1>0, <1>3, <2>1 DEF Deliver, WorkerCycles, WorkerEnds, WorkerDies
  <2>5. Same BY <2>2, <2>3, <2>4 DEF Noticed, Coming, OnItsWay, Forwarded
  <2> QED BY <2>5, <1>same
<1>4. CASE Loop \/ ForkFailed \/ Reap \/ Block
  <2>1. /\ flag' = flag /\ pending' = pending /\ cycled' = cycled /\ hups' = hups
        /\ parent # "forward" /\ parent' # "forward"
    BY <1>4 DEF Loop, ForkFailed, Reap, Block, At
  <2>2. Same BY <2>1 DEF Noticed, Coming, OnItsWay, Forwarded
  <2> QED BY <2>2, <1>same
<1>5. CASE Fork
  <2>1. PICK w \in Procs : /\ flag' = [flag EXCEPT ![w] = flag[Parent]]
                           /\ pending' = [pending EXCEPT ![w] = {}]
                           /\ cycled' = [cycled EXCEPT ![w] = 0]
    BY <1>5 DEF Fork
  <2>2. w # Parent BY DEF WorkersAssumption, Parent
  <2>3. /\ flag'[Parent] = flag[Parent] /\ pending'[Parent] = pending[Parent]
        /\ cycled'[Parent] = cycled[Parent]
    BY <1>0, <2>1, <2>2
  <2>4. parent # "forward" /\ parent' # "forward" /\ hups' = hups BY <1>5 DEF Fork, At
  <2>5. Same BY <2>3, <2>4 DEF Noticed, Coming, OnItsWay, Forwarded
  <2> QED BY <2>5, <1>same
<1>6. CASE Interrupted
  <2>1. parent # "forward" /\ parent' # "forward" /\ hups' = hups /\ pending' = pending
    BY <1>6 DEF Interrupted, At
  <2>2. CASE Noticed
    <3>1. /\ flag' = [flag EXCEPT ![Parent] = [flag[Parent] EXCEPT !.handle_sig_hup = FALSE]]
          /\ cycled' = [cycled EXCEPT ![Parent] = @ + 1]
      BY <1>6, <2>2 DEF Interrupted, Noticed
    <3>2. cycled'[Parent] = cycled[Parent] + 1 BY <1>0, <3>1
    <3>3. flag'[Parent] = [flag[Parent] EXCEPT !.handle_sig_hup = FALSE] BY <1>0, <3>1
    <3>4. ~Noticed' /\ (Forwarded' <=> Forwarded)
      BY <1>0, <3>3 DEF Noticed, Forwarded, Flags
    <3>5. (Coming' <=> Coming) /\ (OnItsWay' <=> OnItsWay) BY <2>1 DEF Coming, OnItsWay
    <3> QED BY <1>0, <2>1, <2>2, <3>2, <3>4, <3>5 DEF HupsAdded, One
  <2>3. CASE ~Noticed
    <3>1. flag' = flag /\ cycled' = cycled BY <1>6, <2>3 DEF Interrupted, Noticed
    <3>2. Same BY <2>1, <3>1 DEF Noticed, Coming, OnItsWay, Forwarded
    <3> QED BY <3>2, <1>same
  <2> QED BY <2>2, <2>3
<1>7. CASE Cycled
  <2>1. parent # "forward" /\ hups' = hups /\ pending' = pending /\ cycled' = cycled
    BY <1>7 DEF Cycled, At
  <2>2. CASE Forwarded
    <3>1. flag' = flag /\ parent' # "forward" BY <1>7, <2>2 DEF Cycled, Forwarded
    <3>2. Same BY <2>1, <3>1 DEF Noticed, Coming, OnItsWay, Forwarded
    <3> QED BY <3>2, <1>same
  <2>3. CASE ~Forwarded
    <3>1. /\ flag' = [flag EXCEPT ![Parent] = [flag[Parent] EXCEPT !.forwarded_sig_hup = TRUE]]
          /\ parent' = "forward"
      BY <1>7, <2>3 DEF Cycled, Forwarded
    <3>2. flag'[Parent] = [flag[Parent] EXCEPT !.forwarded_sig_hup = TRUE] BY <1>0, <3>1
    <3>3. Forwarded' /\ (Noticed' <=> Noticed)
      BY <1>0, <3>2 DEF Noticed, Forwarded, Flags
    <3>4. (Coming' <=> Coming) /\ OnItsWay' /\ ~OnItsWay BY <2>1, <3>1 DEF Coming, OnItsWay
    <3> QED BY <1>0, <2>1, <2>3, <3>3, <3>4 DEF HupsAdded, One
  <2> QED BY <2>2, <2>3
<1>8. CASE ForwardHup
  <2>1. /\ parent = "forward" /\ parent' = "loop" /\ hups' = hups /\ cycled' = cycled
        /\ flag' = flag /\ pending[Parent] = {} /\ Parent \in Group
    BY <1>8 DEF ForwardHup, At, Group, Over
  <2>2. pending'[Parent] = pending[Parent] \cup {"HUP"}
    BY <1>0, <1>8, <2>1 DEF ForwardHup, KillGroup
  <2>3. ~Coming /\ Coming' /\ OnItsWay /\ ~OnItsWay'
    BY <2>1, <2>2 DEF Coming, OnItsWay
  <2>4. (Noticed' <=> Noticed) /\ (Forwarded' <=> Forwarded) BY <2>1 DEF Noticed, Forwarded
  <2> QED BY <1>0, <2>1, <2>3, <2>4 DEF HupsAdded, One
<1>9. CASE Exit
  <2>1. /\ parent # "forward" /\ parent' # "forward" /\ hups' = hups /\ cycled' = cycled
        /\ flag' = flag
    BY <1>9 DEF Exit, At
  <2>2. \E sig \in {"INT", "TERM"} :
            pending' = [p \in All |-> IF p \in Group THEN pending[p] \cup {sig} ELSE pending[p]]
    BY <1>9 DEF Exit, KillGroup, Told
  <2>3. Coming' <=> Coming BY <1>0, <2>2 DEF Coming
  <2>4. Same BY <2>1, <2>3 DEF Noticed, OnItsWay, Forwarded
  <2> QED BY <2>4, <1>same
<1>10. CASE UNCHANGED vars
  <2>1. Same BY <1>10 DEF vars, Noticed, Coming, OnItsWay, Forwarded
  <2> QED BY <2>1, <1>same
<1> QED
  BY <1>1, <1>2, <1>3, <1>4, <1>5, <1>6, <1>7, <1>8, <1>9, <1>10
     DEF Next, ParentSteps, WorkerSteps

(***************************************************************************)
(* HupsEnd: the parent does not answer its own SIGHUP with another one: it *)
(* opens its logs again at most as often as there were SIGHUPs from        *)
(* outside.                                                                *)
(***************************************************************************)
THEOREM WorkersHupsEnd == ASSUME WorkersAssumption PROVE Spec => []HupsEnd
<1>1. Init => HupsAdded
  BY DEF Init, HupsAdded, One, Noticed, Coming, OnItsWay, Forwarded, All
<1>2. Shape /\ HupsAdded /\ [Next]_vars => HupsAdded' BY HupsStep
<1> QED BY <1>1, <1>2, ShapeInit, ShapeStep, HupsBounded, PTL DEF Spec

-----------------------------------------------------------------------------
(***************************************************************************)
(* WorkersCounted and the types of the counters.  The parent only forks a  *)
(* worker while one is missing.                                            *)
(***************************************************************************)
There == {w \in Procs : worker[w] # "none"}

Counts ==
    /\ num_childs \in 0..max_worker
    /\ num_childs + Cardinality(There) = max_worker
    /\ parent = "fork" => num_childs > 0
    /\ signals \in 0..MaxSignals /\ hups \in Nat /\ hups <= signals
    /\ deaths \in 0..MaxDeaths

LEMMA Constants ==
    ASSUME WorkersAssumption
    PROVE  max_worker \in Nat /\ MaxSignals \in Nat /\ MaxDeaths \in Nat /\ IsFiniteSet(Procs)
BY DEF WorkersAssumption

LEMMA ThereFinite ==
    ASSUME WorkersAssumption PROVE IsFiniteSet(There) /\ Cardinality(There) \in Nat
BY Constants, FS_Subset, FS_CardinalityType DEF There

LEMMA CountsInit == ASSUME WorkersAssumption PROVE Init => Counts
<1> SUFFICES ASSUME Init PROVE Counts OBVIOUS
<1>1. There = {} BY DEF Init, There
<1>2. Cardinality(There) = 0 BY <1>1, FS_EmptySet
<1> QED BY <1>2, Constants DEF Init, Counts

LEMMA CountsStep ==
    ASSUME WorkersAssumption PROVE Shape /\ Counts /\ [Next]_vars => Counts'
<1> SUFFICES ASSUME Shape, Counts, [Next]_vars PROVE Counts'
  OBVIOUS
<1>0. /\ num_childs \in 0..max_worker /\ Cardinality(There) \in Nat /\ IsFiniteSet(There)
      /\ worker \in [Procs -> {"none", "alive", "zombie"}]
  BY ThereFinite DEF Shape, Counts
<1>same. ASSUME There' = There, num_childs' = num_childs, UNCHANGED <<signals, hups, deaths>>,
                parent' = "fork" => num_childs > 0
         PROVE  Counts'
  BY <1>same DEF Counts
<1>1. ASSUME NEW sig \in {"INT", "TERM", "HUP"}, Signal(sig) PROVE Counts'
  <2>1. /\ There' = There /\ num_childs' = num_childs /\ parent' = parent /\ deaths' = deaths
        /\ signals < MaxSignals /\ signals' = signals + 1
        /\ hups' = hups \/ hups' = hups + 1
    BY <1>1 DEF Signal, There
  <2>2. signals' \in 0..MaxSignals /\ hups' \in Nat /\ hups' <= signals'
    BY <2>1, Constants DEF Counts
  <2> QED BY <2>1, <2>2 DEF Counts
<1>2. ASSUME NEW p \in All, Deliver(p) PROVE Counts'
  <2>1. /\ There' = There /\ num_childs' = num_childs /\ UNCHANGED <<signals, hups, deaths>>
        /\ parent' = parent \/ parent' = "interrupted"
    BY <1>2 DEF Deliver, There
  <2> QED BY <2>1, <1>same DEF Counts
<1>3. CASE \/ ForkFailed \/ Block \/ Interrupted \/ Cycled \/ ForwardHup \/ Exit
           \/ \E w \in Procs : WorkerCycles(w)
  <2>1. /\ There' = There /\ num_childs' = num_childs /\ UNCHANGED <<signals, hups, deaths>>
        /\ parent' = parent \/ parent' # "fork"
    BY <1>3 DEF ForkFailed, Block, Interrupted, Cycled, ForwardHup, Exit, WorkerCycles, Counters,
                There
  <2> QED BY <2>1, <1>same DEF Counts
<1>4. CASE Loop
  <2>1. There' = There /\ num_childs' = num_childs /\ UNCHANGED <<signals, hups, deaths>>
    BY <1>4 DEF Loop, Counters, There
  <2>2. parent' = "fork" => num_childs > 0 BY <1>4 DEF Loop
  <2> QED BY <2>1, <2>2, <1>same
<1>5. CASE Fork
  <2>1. PICK w \in Procs : worker[w] = "none" /\ worker' = [worker EXCEPT ![w] = "alive"]
    BY <1>5 DEF Fork
  <2>2. There' = There \cup {w} /\ w \notin There BY <1>0, <2>1 DEF There
  <2>3. Cardinality(There') = Cardinality(There) + 1 BY <1>0, <2>2, FS_AddElement
  <2>4. num_childs > 0 /\ num_childs' = num_childs - 1 /\ parent' = "loop"
        /\ UNCHANGED <<signals, hups, deaths>>
    BY <1>5 DEF Fork, At, Counts, Counters
  <2>5. num_childs' \in 0..max_worker BY <1>0, <2>4, Constants
  <2>6. num_childs' + Cardinality(There') = max_worker
    BY <1>0, <2>3, <2>4, Constants DEF Counts
  <2>7. Cardinality(There)' = Cardinality(There') OBVIOUS
  <2> QED BY <2>4, <2>5, <2>6, <2>7 DEF Counts
<1>6. CASE Reap
  <2>1. PICK w \in Procs : worker[w] = "zombie" /\ worker' = [worker EXCEPT ![w] = "none"]
    BY <1>6 DEF Reap
  <2>2. There' = There \ {w} /\ w \in There BY <1>0, <2>1 DEF There
  <2>3. Cardinality(There') = Cardinality(There) - 1 /\ Cardinality(There') \in Nat
    BY <1>0, <2>2, FS_RemoveElement, FS_CardinalityType
  <2>4. num_childs' = num_childs + 1 /\ parent' = "loop" /\ UNCHANGED <<signals, hups, deaths>>
    BY <1>6 DEF Reap, Counted, Counters
  <2>5. num_childs' + Cardinality(There') = max_worker
    BY <1>0, <2>3, <2>4, Constants DEF Counts
  <2>6. num_childs' \in 0..max_worker BY <1>0, <2>3, <2>4, <2>5, Constants
  <2>7. Cardinality(There)' = Cardinality(There') OBVIOUS
  <2> QED BY <2>4, <2>5, <2>6, <2>7 DEF Counts
<1>7. ASSUME NEW w \in Procs, WorkerEnds(w) \/ WorkerDies(w) PROVE Counts'
  <2>1. worker[w] = "alive" /\ worker' = [worker EXCEPT ![w] = "zombie"]
    BY <1>7 DEF WorkerEnds, WorkerDies
  <2>2. There' = There BY <1>0, <2>1 DEF There
  <2>3. num_childs' = num_childs /\ parent' = parent /\ UNCHANGED <<signals, hups>>
    <3>1. CASE WorkerEnds(w) BY <3>1 DEF WorkerEnds, Counters
    <3>2. CASE WorkerDies(w) BY <3>2 DEF WorkerDies
    <3> QED BY <1>7, <3>1, <3>2
  <2>4. deaths' = deaths \/ (deaths < MaxDeaths /\ deaths' = deaths + 1)
    <3>1. CASE WorkerEnds(w) BY <3>1 DEF WorkerEnds, Counters
    <3>2. CASE WorkerDies(w) BY <3>2 DEF WorkerDies
    <3> QED BY <1>7, <3>1, <3>2
  <2>5. deaths' \in 0..MaxDeaths BY <2>4, Constants DEF Counts
  <2> QED BY <2>2, <2>3, <2>5 DEF Counts
<1>8. CASE UNCHANGED vars BY <1>8 DEF vars, Counts, There
<1> QED
  BY <1>1, <1>2, <1>3, <1>4, <1>5, <1>6, <1>7, <1>8
     DEF Next, ParentSteps, WorkerSteps, All

(***************************************************************************)
(* WorkersCounted: every worker that is missing is counted, neither twice  *)
(* nor never.                                                              *)
(***************************************************************************)
THEOREM WorkersAllCounted == ASSUME WorkersAssumption PROVE Spec => []WorkersCounted
<1>1. Counts => WorkersCounted BY DEF Counts, WorkersCounted, There
<1>2. (Init => Counts) /\ (Shape /\ Counts /\ [Next]_vars => Counts') BY CountsInit, CountsStep
<1> QED BY <1>1, <1>2, ShapeInit, ShapeStep, PTL DEF Spec

(***************************************************************************)
(* Every variable keeps its type: the number of missing workers stays      *)
(* between none and all.                                                   *)
(***************************************************************************)
THEOREM WorkersTypeOK == ASSUME WorkersAssumption PROVE Spec => []TypeOK
<1>1. Shape /\ Counts => TypeOK
  <2> SUFFICES ASSUME Shape, Counts PROVE TypeOK OBVIOUS
  <2>1. hups \in 0..MaxSignals BY Constants DEF Counts
  <2> QED BY <2>1 DEF Shape, Counts, TypeOK, Places
<1>2. (Init => Counts) /\ (Shape /\ Counts /\ [Next]_vars => Counts') BY CountsInit, CountsStep
<1> QED BY <1>1, <1>2, ShapeInit, ShapeStep, PTL DEF Spec

(***************************************************************************)
(* No worker is lost, neither to the parent nor by it.                     *)
(***************************************************************************)
THEOREM WorkersNoneLost == ASSUME WorkersAssumption PROVE Spec => []NoneLost
BY WorkersAllCounted, WorkersNoneForgotten, PTL DEF NoneLost

-----------------------------------------------------------------------------
(***************************************************************************)
(* The angel: its handlers interrupt main() and each other, and still no   *)
(* second server is started beside one that was not told to end.           *)
(***************************************************************************)

(***************************************************************************)
(* The child that was forked last: its number is the highest in use.       *)
(***************************************************************************)
Latest(c) == child[c] # "none" /\ \A d \in A!Children : d > c => child[d] = "none"

(***************************************************************************)
(* The inductive invariant.  Children are forked one after the other, and  *)
(* only one of them may serve that was not told to end: the one "pid"      *)
(* names, or between fork() and the assignment of its result the latest.   *)
(***************************************************************************)
ServingInv ==
    /\ main = "assign" => \E c \in A!Children : Latest(c) /\ A!Untold \subseteq {c}
    /\ main # "assign" => A!Untold \subseteq {pid}
    /\ \A c, d \in A!Children : d < c /\ child[c] # "none" => child[d] # "none"

(***************************************************************************)
(* Nobody is untold where main() may fork or end.  start_process is TRUE, *)
(* or about to become so in a handler that sleeps, only after the server   *)
(* was told to end or has died; what a handler sets before main() has      *)
(* looked at the child it has just forked, main() clears.                  *)
(***************************************************************************)
StartInv ==
    /\ main \in {"fork", "done", "failed"} => A!Untold = {}
    /\ start_process /\ main \in {"check", "wait", "blocked"} => A!Untold = {}
    /\ A!Occurs(handlers, "hup") /\ main \notin {"assign", "started"} => A!Untold = {}
    /\ is_shutdown => main \in {"check", "done"} /\ A!Untold = {}

AngelInv == A!TypeOK /\ ServingInv /\ StartInv

\* the handlers that may be active at once, the innermost last
Stacks == {<<>>} \cup {<<h>> : h \in {"hup", "chld", "chld_over"}}
          \cup {<<"hup", h>> : h \in {"chld", "chld_over"}} \cup {<<"chld_over", "hup">>}

Names == {"hup", "chld", "chld_over"}

\* one more handler on a stack of one, and one less on a stack of two
LEMMA StackOfTwo ==
    ASSUME NEW g \in Names, NEW h \in Names
    PROVE  Append(<<g>>, h) = <<g, h>> /\ SubSeq(<<g, h>>, 1, 1) = <<g>>
<1>1. <<g>> \in Seq(Names) /\ <<g, h>> \in Seq(Names) OBVIOUS
<1>2. Len(<<g>>) = 1 /\ Len(<<g, h>>) = 2 OBVIOUS
<1>3. Append(<<g>>, h) = <<g, h>>
  <2>1. /\ Append(<<g>>, h) \in Seq(Names) /\ Len(Append(<<g>>, h)) = 2
        /\ Append(<<g>>, h)[1] = g /\ Append(<<g>>, h)[2] = h
    BY <1>1, <1>2, AppendProperties
  <2>2. \A i \in 1..2 : Append(<<g>>, h)[i] = <<g, h>>[i]
    <3>1. \A i \in 1..2 : i = 1 \/ i = 2 OBVIOUS
    <3> QED BY <2>1, <3>1
  <2> QED BY <1>1, <1>2, <2>1, <2>2, SeqEqual
<1>4. SubSeq(<<g, h>>, 1, 1) = <<g>>
  <2>1. /\ SubSeq(<<g, h>>, 1, 1) \in Seq(Names) /\ Len(SubSeq(<<g, h>>, 1, 1)) = 1
        /\ SubSeq(<<g, h>>, 1, 1)[1] = g
    BY <1>1, <1>2, SubSeqProperties
  <2>2. \A i \in 1..1 : SubSeq(<<g, h>>, 1, 1)[i] = <<g>>[i]
    <3>1. \A i \in 1..1 : i = 1 OBVIOUS
    <3> QED BY <2>1, <3>1
  <2> QED BY <1>1, <1>2, <2>1, <2>2, SeqEqual
<1> QED BY <1>3, <1>4

\* A signal marks the SIGCHLD handler it interrupts and leaves the others as they are.
LEMMA InterruptedStack ==
    ASSUME handlers \in Stacks
    PROVE  /\ A!Interrupted \in Stacks
           /\ A!Occurs(A!Interrupted, "hup") <=> A!Occurs(handlers, "hup")
           /\ ~A!Occurs(handlers, "hup") => Append(A!Interrupted, "hup") \in Stacks
<1>1. CASE handlers = <<>>
  <2>1. A!Interrupted = <<>> BY <1>1 DEF A!Interrupted
  <2> QED BY <1>1, <2>1 DEF Stacks, A!Occurs
<1>2. CASE handlers = <<"hup">>
  <2>1. A!Interrupted = <<"hup">> BY <1>2 DEF A!Interrupted
  <2> QED BY <1>2, <2>1 DEF Stacks, A!Occurs
<1>3. CASE handlers = <<"chld">> \/ handlers = <<"chld_over">>
  <2>1. A!Interrupted = <<"chld_over">> BY <1>3 DEF A!Interrupted
  <2>2. ~A!Occurs(handlers, "hup") /\ ~A!Occurs(A!Interrupted, "hup") BY <1>3, <2>1 DEF A!Occurs
  <2>3. Append(<<"chld_over">>, "hup") = <<"chld_over", "hup">> BY StackOfTwo DEF Names
  <2> QED BY <2>1, <2>2, <2>3 DEF Stacks
<1>4. CASE handlers = <<"hup", "chld">> \/ handlers = <<"hup", "chld_over">>
  <2>1. A!Interrupted = <<"hup", "chld_over">> BY <1>4 DEF A!Interrupted
  <2>2. A!Occurs(handlers, "hup") BY <1>4 DEF A!Occurs
  <2> QED BY <1>4, <2>1, <2>2 DEF Stacks, A!Occurs
<1>5. CASE handlers = <<"chld_over", "hup">>
  <2>1. A!Interrupted = <<"chld_over", "hup">> BY <1>5 DEF A!Interrupted
  <2>2. A!Occurs(handlers, "hup") BY <1>5 DEF A!Occurs
  <2> QED BY <1>5, <2>1, <2>2 DEF Stacks, A!Occurs
<1> QED BY <1>1, <1>2, <1>3, <1>4, <1>5 DEF Stacks

\* A handler that returns leaves the one it interrupted.
LEMMA ReturnedStack ==
    ASSUME handlers \in Stacks, handlers # <<>>
    PROVE  /\ SubSeq(handlers, 1, Len(handlers) - 1) \in Stacks
           /\ A!Occurs(SubSeq(handlers, 1, Len(handlers) - 1), "hup") => A!Occurs(handlers, "hup")
           /\ A!Top = "hup" => A!Occurs(handlers, "hup")
<1> DEFINE rest == SubSeq(handlers, 1, Len(handlers) - 1)
<1>1. ASSUME NEW h \in {"hup", "chld", "chld_over"}, handlers = <<h>>
      PROVE  /\ rest \in Stacks /\ (A!Occurs(rest, "hup") => A!Occurs(handlers, "hup"))
             /\ A!Top = "hup" => A!Occurs(handlers, "hup")
  <2>1. rest = <<>> /\ A!Top = h BY <1>1 DEF A!Top
  <2> QED BY <1>1, <2>1 DEF Stacks, A!Occurs
<1>2. ASSUME NEW g \in {"hup", "chld_over"}, NEW h \in {"hup", "chld", "chld_over"},
             handlers = <<g, h>>
      PROVE  /\ rest \in Stacks /\ (A!Occurs(rest, "hup") => A!Occurs(handlers, "hup"))
             /\ A!Top = "hup" => A!Occurs(handlers, "hup")
  <2>1. Len(handlers) = 2 /\ handlers[2] = h BY <1>2
  <2>2. SubSeq(<<g, h>>, 1, 1) = <<g>> BY StackOfTwo DEF Names
  <2>3. A!Top = h BY <2>1 DEF A!Top
  <2>4. rest = <<g>> BY <1>2, <2>1, <2>2
  <2> QED BY <1>2, <2>3, <2>4 DEF Stacks, A!Occurs
<1> QED BY <1>1, <1>2 DEF Stacks

\* the states a child may be in
ChildStates == {"none", "ending", "exited", "crashed", "gone"} \cup A!Serving

(***************************************************************************)
(* Whatever happens to a child after its fork(), it is not one that was    *)
(* never forked, none begins to serve, and what was sent stays sent.       *)
(***************************************************************************)
Fewer ==
    /\ child' \in [A!Children -> ChildStates]
    /\ coming' \subseteq told' /\ told' \subseteq A!Children
    /\ \A c \in A!Children : child'[c] = "none" <=> child[c] = "none"
    /\ A!Untold' \subseteq A!Untold

\* kill() tells every server it is sent to, and does nothing to another.
LEMMA KillTells ==
    ASSUME A!TypeOK, NEW whom, NEW taken, A!Kill(whom, taken), UNCHANGED child
    PROVE  Fewer /\ A!Untold' = A!Untold \ whom
<1>1. A!In(A!Serving)' = A!In(A!Serving) /\ A!In(A!Serving) \subseteq A!Children BY DEF A!In
<1>2. /\ told' = told \cup (whom \cap A!In(A!Serving))
      /\ coming' = (coming \ taken) \cup (whom \cap A!In(A!Serving))
  BY DEF A!Kill
<1>3. A!Untold' = A!Untold \ whom BY <1>1, <1>2 DEF A!Untold
<1>4. coming' \subseteq told' /\ told' \subseteq A!Children BY <1>1, <1>2 DEF A!TypeOK
<1> QED BY <1>3, <1>4 DEF Fewer, A!TypeOK, ChildStates

\* One child dies, is collected, or goes on between its fork() and its end.
LEMMA OneChanges ==
    ASSUME A!TypeOK, NEW c \in A!Children, child[c] # "none",
           NEW how \in ChildStates \ {"none"},
           how \in A!Serving => child[c] \in A!Serving,
           child' = [child EXCEPT ![c] = how],
           told \subseteq told', told' \subseteq A!Children, coming' \subseteq told'
    PROVE  Fewer
<1>1. \A d \in A!Children : child'[d] = IF d = c THEN how ELSE child[d] BY DEF A!TypeOK
<1>2. child' \in [A!Children -> ChildStates]
  BY DEF A!TypeOK, ChildStates
<1>3. A!Untold' \subseteq A!Untold BY <1>1 DEF A!Untold, A!In
<1> QED BY <1>1, <1>2, <1>3 DEF Fewer

LEMMA Unchanged == ASSUME A!TypeOK, UNCHANGED <<child, coming, told>> PROVE Fewer
BY DEF A!TypeOK, Fewer, A!In, A!Untold, ChildStates

\* A child that has died is collected.
LEMMA Collected == ASSUME A!TypeOK, NEW c \in A!Zombies, A!Reap(c), UNCHANGED <<coming, told>> PROVE Fewer
<1>1. c \in A!Children /\ child[c] # "none" BY DEF A!Zombies, A!In
<1> QED BY <1>1, OneChanges DEF A!Reap, A!TypeOK, ChildStates, A!Serving

\* Where main() stays away from "assign", or stays there, only a new "pid" could matter.
LEMMA ServingKept ==
    ASSUME ServingInv, Fewer, UNCHANGED pid, main' = main \/ (main # "assign" /\ main' # "assign")
    PROVE  ServingInv'
<1>1. \A c, d \in A!Children : d < c /\ child'[c] # "none" => child'[d] # "none"
  BY DEF ServingInv, Fewer
<1>2. CASE main = "assign"
  <2>1. PICK c \in A!Children : Latest(c) /\ A!Untold \subseteq {c} BY <1>2 DEF ServingInv
  <2>2. Latest(c)' BY <2>1 DEF Latest, Fewer
  <2> QED BY <1>1, <1>2, <2>1, <2>2 DEF ServingInv, Fewer
<1>3. CASE main # "assign" BY <1>1, <1>3 DEF ServingInv, Fewer
<1> QED BY <1>2, <1>3

\* Every handler of a signal keeps the invariant, whatever it interrupts.
LEMMA HandlersKeep == AngelInv /\ A!Handlers => AngelInv'
<1> SUFFICES ASSUME AngelInv, A!Handlers PROVE AngelInv'
  OBVIOUS
<1>0. A!TypeOK /\ ServingInv /\ StartInv /\ handlers \in Stacks BY DEF AngelInv, A!TypeOK, Stacks
<1>1. ASSUME NEW sig, A!Deliver(sig)
      PROVE  /\ main' = main \/ (main = "blocked" /\ main' = "check")
             /\ main \notin {"done", "failed"}
  BY <1>1 DEF A!Deliver, A!Over
<1>2. CASE A!Hup
  <2>1. /\ main' = main \/ (main = "blocked" /\ main' = "check")
        /\ main \notin {"done", "failed"}
    BY <1>1, <1>2 DEF A!Hup
  <2>2. A!Kill(A!Hit, {}) /\ UNCHANGED <<pid, child, start_process, is_shutdown, sent>>
        /\ handlers' = Append(A!Interrupted, "hup") /\ ~A!Occurs(handlers, "hup")
    BY <1>2 DEF A!Hup, A!Told, A!Unblocked, A!flags
  <2>3. Fewer /\ A!Untold' = A!Untold \ A!Hit BY <1>0, <2>2, KillTells
  <2>4. ServingInv' BY <1>0, <2>1, <2>2, <2>3, ServingKept
  <2>5. main # "assign" => A!Untold' = {}
    <3>1. CASE pid = A!NoPid BY <2>3, <3>1 DEF A!Hit, A!In, A!Untold
    <3>2. CASE pid # A!NoPid BY <1>0, <2>3, <3>2 DEF A!Hit, ServingInv
    <3> QED BY <3>1, <3>2
  <2>6. StartInv' BY <1>0, <2>1, <2>2, <2>3, <2>5 DEF StartInv, Fewer
  <2>7. handlers' \in Stacks BY <1>0, <2>2, InterruptedStack
  <2>8. waiting' \subseteq {"INT", "TERM", "HUP", "CHLD"} BY <1>0, <1>2 DEF A!Hup, A!TypeOK
  <2>9. A!TypeOK' BY <1>0, <2>1, <2>2, <2>3, <2>7, <2>8 DEF A!TypeOK, Stacks, Fewer, ChildStates
  <2> QED BY <2>4, <2>6, <2>9 DEF AngelInv
<1>3. ASSUME NEW sig \in {"INT", "TERM"}, A!Forward(sig) PROVE AngelInv'
  <2>1. /\ main' = main \/ (main = "blocked" /\ main' = "check")
        /\ main \notin {"done", "failed"}
    BY <1>1, <1>3 DEF A!Forward
  <2>2. A!Kill(A!Hit, {}) /\ UNCHANGED <<pid, child, start_process, is_shutdown, sent>>
        /\ handlers' = A!Interrupted
    BY <1>3 DEF A!Forward, A!flags
  <2>3. Fewer BY <1>0, <2>2, KillTells
  <2>4. ServingInv' BY <1>0, <2>1, <2>2, <2>3, ServingKept
  <2>5. handlers' \in Stacks /\ (A!Occurs(handlers', "hup") => A!Occurs(handlers, "hup"))
    BY <1>0, <2>2, InterruptedStack
  <2>6. StartInv' BY <1>0, <2>1, <2>2, <2>3, <2>5 DEF StartInv, Fewer, A!Occurs
  <2>7. waiting' \subseteq {"INT", "TERM", "HUP", "CHLD"} BY <1>0, <1>3 DEF A!Forward, A!TypeOK
  <2>8. A!TypeOK' BY <1>0, <2>1, <2>2, <2>3, <2>5, <2>7 DEF A!TypeOK, Stacks, Fewer, ChildStates
  <2> QED BY <2>4, <2>6, <2>8 DEF AngelInv
<1>4. CASE A!HupEnds
  <2>1. /\ UNCHANGED <<pid, child, coming, told, is_shutdown, main, waiting, sent>>
        /\ start_process' = TRUE
        /\ handlers # <<>> /\ A!Top = "hup"
        /\ handlers' = SubSeq(handlers, 1, Len(handlers) - 1)
    BY <1>4 DEF A!HupEnds, A!Nested, A!kills
  <2>2. handlers' \in Stacks /\ A!Occurs(handlers, "hup") BY <1>0, <2>1, ReturnedStack
  <2>3. Fewer BY <1>0, <1>1, <2>1, Unchanged
  <2>4. ServingInv' BY <1>0, <2>1, <2>3, ServingKept
  <2>5. StartInv' BY <1>0, <2>1, <2>2 DEF StartInv, A!In, A!Untold
  <2>6. A!TypeOK' BY <1>0, <2>1, <2>2 DEF A!TypeOK, Stacks
  <2> QED BY <2>4, <2>5, <2>6 DEF AngelInv
<1>5. CASE A!Chld
  <2>1. /\ main' = main \/ (main = "blocked" /\ main' = "check")
        /\ main \notin {"done", "failed"}
    BY <1>1, <1>5 DEF A!Chld
  <2>2. UNCHANGED <<pid, coming, told, start_process, is_shutdown, sent>>
    BY <1>5 DEF A!Chld, A!flags, A!kills
  <2>3. Fewer BY <1>0, <1>5, <2>2, Collected, Unchanged DEF A!Chld
  <2>4. ServingInv' BY <1>0, <2>1, <2>2, <2>3, ServingKept
  <2>5. handlers' \in Stacks /\ (A!Occurs(handlers', "hup") => A!Occurs(handlers, "hup"))
    <3>1. CASE UNCHANGED handlers BY <1>0, <3>1
    <3>2. CASE handlers' = Append(handlers, "chld")
      <4>1. ~A!Occurs(handlers, "chld") /\ ~A!Occurs(handlers, "chld_over")
        BY <1>5 DEF A!Chld, A!Unblocked
      <4>2. CASE handlers = <<>>
        <5>1. handlers' = <<"chld">> BY <3>2, <4>2
        <5> QED BY <4>2, <5>1 DEF Stacks, A!Occurs
      <4>3. CASE handlers = <<"hup">>
        <5>1. handlers' = <<"hup", "chld">> BY <3>2, <4>3, StackOfTwo DEF Names
        <5>2. A!Occurs(handlers, "hup") BY <4>3 DEF A!Occurs
        <5> QED BY <5>1, <5>2 DEF Stacks
      <4>4. handlers \in {<<>>, <<"hup">>} BY <1>0, <4>1 DEF Stacks, A!Occurs
      <4> QED BY <4>2, <4>3, <4>4
    <3> QED BY <1>5, <3>1, <3>2 DEF A!Chld
  <2>6. StartInv' BY <1>0, <2>1, <2>2, <2>3, <2>5 DEF StartInv, Fewer, A!Occurs
  <2>7. waiting' \subseteq {"INT", "TERM", "HUP", "CHLD"} BY <1>0, <1>5 DEF A!Chld, A!TypeOK
  <2>8. A!TypeOK' BY <1>0, <2>1, <2>2, <2>3, <2>5, <2>7 DEF A!TypeOK, Stacks, Fewer, ChildStates
  <2> QED BY <2>4, <2>6, <2>8 DEF AngelInv
<1>6. CASE A!ChldEnds
  <2>1. /\ UNCHANGED <<pid, coming, told, start_process, is_shutdown, main, waiting, sent>>
        /\ handlers # <<>> /\ handlers' = SubSeq(handlers, 1, Len(handlers) - 1)
    BY <1>6 DEF A!ChldEnds, A!Nested, A!flags, A!kills
  <2>2. handlers' \in Stacks /\ (A!Occurs(handlers', "hup") => A!Occurs(handlers, "hup"))
    BY <1>0, <2>1, ReturnedStack
  <2>3. Fewer BY <1>0, <1>6, <2>1, Collected, Unchanged DEF A!ChldEnds
  <2>4. ServingInv' BY <1>0, <2>1, <2>3, ServingKept
  <2>5. StartInv' BY <1>0, <2>1, <2>2, <2>3 DEF StartInv, Fewer, A!Occurs
  <2>6. A!TypeOK' BY <1>0, <2>1, <2>2, <2>3 DEF A!TypeOK, Stacks, Fewer, ChildStates
  <2> QED BY <2>4, <2>5, <2>6 DEF AngelInv
<1> QED BY <1>2, <1>3, <1>4, <1>5, <1>6 DEF A!Handlers

\* main() keeps the invariant; it takes a step only while no handler is active.
LEMMA MainKeeps == AngelInv /\ A!Main => AngelInv'
<1> SUFFICES ASSUME AngelInv, A!Main PROVE AngelInv'
  OBVIOUS
<1>0. A!TypeOK /\ ServingInv /\ StartInv BY DEF AngelInv
<1>1. /\ handlers = <<>> /\ UNCHANGED <<coming, told, handlers, waiting, sent>>
      /\ ~A!Occurs(handlers', "hup")
  <2>1. handlers = <<>> /\ UNCHANGED <<coming, told, handlers, waiting, sent>>
    BY DEF A!Main, A!Check, A!Fork, A!Assign, A!Started, A!Found, A!NoChild, A!Block, A!At, A!Nested, A!Stable, A!kills
  <2> QED BY <2>1 DEF A!Occurs
<1> USE DEF A!Goto
<1>2. CASE A!Check
  <2>1. /\ main = "check" /\ UNCHANGED <<pid, child, start_process, is_shutdown>>
        /\ main' = IF is_shutdown THEN "done" ELSE IF start_process THEN "fork" ELSE "wait"
    BY <1>2 DEF A!Check, A!At, A!flags
  <2>2. Fewer BY <1>0, <1>1, <2>1, Unchanged
  <2>3. ServingInv' BY <1>0, <2>1, <2>2, ServingKept
  <2>4. StartInv' BY <1>0, <1>1, <2>1 DEF StartInv, A!In, A!Untold
  <2>5. A!TypeOK' BY <1>0, <1>1, <2>1 DEF A!TypeOK
  <2> QED BY <2>3, <2>4, <2>5 DEF AngelInv
<1>3. CASE A!Fork
  <2>0. main = "fork" /\ UNCHANGED <<start_process, is_shutdown>> /\ A!Untold = {}
    BY <1>0, <1>3 DEF A!Fork, A!At, A!flags, StartInv
  <2>1. CASE main' = "failed" /\ pid' = A!NoPid /\ UNCHANGED child
    <3>1. A!Untold' = {} BY <1>1, <2>0, <2>1 DEF A!In, A!Untold
    <3>2. ServingInv' BY <1>0, <2>1, <3>1 DEF ServingInv
    <3>3. StartInv' BY <1>0, <1>1, <2>0, <2>1, <3>1 DEF StartInv
    <3>4. A!TypeOK' BY <1>0, <1>1, <2>0, <2>1 DEF A!TypeOK
    <3> QED BY <3>2, <3>3, <3>4 DEF AngelInv
  <2>2. ASSUME main' = "assign", UNCHANGED pid, NEW c \in A!Children, child[c] = "none",
               \A d \in 1..(c - 1) : child[d] # "none",
               child' = [child EXCEPT ![c] = "forked"]
        PROVE  AngelInv'
    <3>1. \A d \in A!Children : child'[d] = IF d = c THEN "forked" ELSE child[d]
      BY <1>0, <2>2 DEF A!TypeOK
    <3>2. \A d \in A!Children : d > c => child[d] = "none"
      <4>1. \A d \in A!Children : c < d /\ child[d] # "none" => child[c] # "none"
        BY <1>0 DEF ServingInv
      <4> QED BY <2>2, <4>1 DEF A!Children
    <3>3. c \in Int /\ \A d \in A!Children : d \in Int /\ (d < c => d \in 1..(c - 1))
      BY DEF A!Children
    <3>4. A!Untold' \subseteq {c} BY <1>1, <2>0, <3>1 DEF A!In, A!Untold
    <3>5. Latest(c)' BY <3>1, <3>2, <3>3 DEF Latest
    <3>6. \A d, e \in A!Children : e < d /\ child'[d] # "none" => child'[e] # "none"
      <4> SUFFICES ASSUME NEW d \in A!Children, NEW e \in A!Children, e < d, child'[d] # "none",
                          e # c
                   PROVE  child[e] # "none"
        BY <3>1
      <4>1. CASE d = c BY <2>2, <3>3, <4>1
      <4>2. CASE d # c BY <1>0, <3>1, <4>2 DEF ServingInv
      <4> QED BY <4>1, <4>2
    <3>7. ServingInv' BY <2>2, <3>4, <3>5, <3>6 DEF ServingInv
    <3>8. StartInv' BY <1>0, <1>1, <2>0, <2>2 DEF StartInv
    <3>9. A!TypeOK' BY <1>0, <1>1, <2>0, <2>2 DEF A!TypeOK, A!Serving
    <3> QED BY <3>7, <3>8, <3>9 DEF AngelInv
  <2> QED BY <1>3, <2>1, <2>2 DEF A!Fork, A!Grows
<1>4. CASE A!Assign
  <2>1. /\ main = "assign" /\ main' = "started" /\ pid' = A!Newest
        /\ UNCHANGED <<child, start_process, is_shutdown>>
    BY <1>4 DEF A!Assign, A!At, A!flags
  <2>2. PICK c \in A!Children : Latest(c) /\ A!Untold \subseteq {c}
    BY <1>0, <2>1 DEF ServingInv
  <2>3. \A d \in A!Children : Latest(d) => d = c
    BY <2>2 DEF Latest, A!Children
  <2>4. A!Newest = c BY <2>2, <2>3 DEF A!Newest, Latest
  <2>5. ServingInv' BY <1>0, <1>1, <2>1, <2>2, <2>4 DEF ServingInv, A!In, A!Untold
  <2>6. StartInv' BY <1>0, <1>1, <2>1 DEF StartInv
  <2>7. A!TypeOK' BY <1>0, <1>1, <2>1, <2>4 DEF A!TypeOK
  <2> QED BY <2>5, <2>6, <2>7 DEF AngelInv
<1>5. CASE A!Started
  <2>1. /\ main = "started" /\ main' = "wait" /\ start_process' = FALSE
        /\ UNCHANGED <<pid, child, is_shutdown>>
    BY <1>5 DEF A!Started, A!At
  <2>2. Fewer BY <1>0, <1>1, <2>1, Unchanged
  <2>3. ServingInv' BY <1>0, <2>1, <2>2, ServingKept
  <2>4. StartInv' BY <1>0, <1>1, <2>1 DEF StartInv
  <2>5. A!TypeOK' BY <1>0, <1>1, <2>1 DEF A!TypeOK
  <2> QED BY <2>3, <2>4, <2>5 DEF AngelInv
<1>6. CASE A!Found
  <2>1. PICK c \in A!Mine :
          /\ A!Reap(c)
          /\ is_shutdown' = (is_shutdown \/ child[c] = "exited")
          /\ start_process' = (start_process \/ child[c] = "crashed")
    BY <1>6 DEF A!Found
  <2>2. main \in {"wait", "blocked"} /\ main' = "check" /\ UNCHANGED pid BY <1>6 DEF A!Found
  <2>3. c = pid /\ c \in A!Children /\ child[c] \in {"exited", "crashed"}
    BY <2>1 DEF A!Mine, A!Zombies, A!In, A!Untold
  <2>4. Fewer BY <1>0, <1>1, <2>1, <2>3, Collected DEF A!Mine
  <2>5. A!Untold = {} BY <1>0, <2>2, <2>3 DEF ServingInv, A!In, A!Untold, A!Serving
  <2>6. ServingInv' BY <1>0, <2>2, <2>4, ServingKept
  <2>7. StartInv' BY <1>1, <2>2, <2>4, <2>5 DEF StartInv, Fewer
  <2>8. is_shutdown' \in BOOLEAN /\ start_process' \in BOOLEAN BY <2>1
  <2>9. A!TypeOK' BY <1>0, <1>1, <2>2, <2>4, <2>8 DEF A!TypeOK, Fewer, ChildStates
  <2> QED BY <2>6, <2>7, <2>9 DEF AngelInv
<1>7. CASE A!NoChild
  <2>1. /\ main = "wait" /\ main' = "check" /\ UNCHANGED <<pid, child, start_process>>
        /\ pid \notin A!Alive /\ is_shutdown' = (is_shutdown \/ ~start_process)
    BY <1>7 DEF A!NoChild, A!At
  <2>2. Fewer BY <1>0, <1>1, <2>1, Unchanged
  <2>3. A!Untold = {} BY <1>0, <2>1 DEF ServingInv, A!Alive, A!In, A!Untold, A!Serving
  <2>4. ServingInv' BY <1>0, <2>1, <2>2, ServingKept
  <2>5. StartInv' BY <1>1, <2>1, <2>2, <2>3 DEF StartInv, Fewer
  <2>6. is_shutdown' \in BOOLEAN BY <2>1
  <2>7. A!TypeOK' BY <1>0, <1>1, <2>1, <2>6 DEF A!TypeOK
  <2> QED BY <2>4, <2>5, <2>7 DEF AngelInv
<1>8. CASE A!Block
  <2>1. /\ main = "wait" /\ main' = "blocked"
        /\ UNCHANGED <<pid, child, start_process, is_shutdown>>
    BY <1>8 DEF A!Block, A!At, A!flags
  <2>2. Fewer BY <1>0, <1>1, <2>1, Unchanged
  <2>3. ServingInv' BY <1>0, <2>1, <2>2, ServingKept
  <2>4. StartInv' BY <1>0, <1>1, <2>1 DEF StartInv, A!In, A!Untold
  <2>5. A!TypeOK' BY <1>0, <1>1, <2>1 DEF A!TypeOK
  <2> QED BY <2>3, <2>4, <2>5 DEF AngelInv
<1> QED BY <1>2, <1>3, <1>4, <1>5, <1>6, <1>7, <1>8 DEF A!Main

\* A child, whatever it does with a signal, and a signal from outside start nothing.
LEMMA OutsideKeeps ==
    ASSUME AngelInv, MaxSignals \in Nat,
           \/ \E sig \in {"INT", "TERM", "HUP"} : A!Signal(sig)
           \/ \E c \in A!Children : A!ChildLives(c) \/ A!ChildTakes(c)
    PROVE  AngelInv'
<1>0. A!TypeOK /\ ServingInv /\ StartInv BY DEF AngelInv
<1>1. ASSUME NEW sig \in {"INT", "TERM", "HUP"}, A!Signal(sig) PROVE AngelInv'
  <2>1. /\ UNCHANGED <<pid, child, coming, told, start_process, is_shutdown, main, handlers>>
        /\ waiting' = waiting \cup {sig} /\ sent' = sent + 1 /\ sent < MaxSignals
    BY <1>1 DEF A!Signal, A!flags, A!kills
  <2>2. Fewer BY <1>0, <2>1, Unchanged
  <2>3. ServingInv' BY <1>0, <2>1, <2>2, ServingKept
  <2>4. StartInv' BY <1>0, <2>1 DEF StartInv, A!In, A!Untold
  <2>5. sent' \in 0..MaxSignals BY <1>0, <2>1 DEF A!TypeOK
  <2>6. A!TypeOK' BY <1>0, <2>1, <2>5 DEF A!TypeOK
  <2> QED BY <2>3, <2>4, <2>6 DEF AngelInv
<1>2. ASSUME UNCHANGED <<pid, start_process, is_shutdown, main, handlers, sent>>, Fewer,
             waiting' \subseteq waiting \cup {"CHLD", "INT"}
      PROVE  AngelInv'
  <2>1. ServingInv' BY <1>0, <1>2, ServingKept
  <2>2. StartInv' BY <1>0, <1>2 DEF StartInv, Fewer
  <2>3. A!TypeOK' BY <1>0, <1>2 DEF A!TypeOK, Fewer, ChildStates
  <2> QED BY <2>1, <2>2, <2>3 DEF AngelInv
<1>3. ASSUME NEW c \in A!Children, NEW how \in {"exited", "crashed"}, A!Dies(c, how), UNCHANGED told,
             child[c] \in A!Serving \cup {"ending"}
      PROVE  Fewer /\ waiting' = waiting \cup {"CHLD"}
  BY <1>0, <1>3, OneChanges DEF A!Dies, A!TypeOK, A!Serving, ChildStates
<1>4. ASSUME NEW c \in A!Children, A!ChildLives(c) PROVE AngelInv'
  <2>1. UNCHANGED <<pid, told, start_process, is_shutdown, main, handlers, sent>>
    BY <1>4 DEF A!ChildLives, A!flags
  <2>2. ASSUME NEW from \in A!Serving, NEW to \in A!Serving, A!Grows(c, from, to), UNCHANGED coming
        PROVE  Fewer
    BY <1>0, <2>1, <2>2, OneChanges DEF A!Grows, A!TypeOK, A!Serving, ChildStates
  <2>3. Fewer /\ waiting' \subseteq waiting \cup {"CHLD", "INT"}
    BY <1>3, <1>4, <2>1, <2>2 DEF A!ChildLives, A!Serving
  <2> QED BY <1>2, <2>1, <2>3
<1>5. ASSUME NEW c \in A!Children, A!ChildTakes(c) PROVE AngelInv'
  <2>1. UNCHANGED <<pid, start_process, is_shutdown, main, handlers, sent>>
    BY <1>5 DEF A!ChildTakes, A!flags
  <2>2. CASE A!TakesForked(c) \/ A!TakesNamed(c)
    <3>1. Fewer BY <1>0, <2>2, KillTells DEF A!TakesForked, A!TakesNamed
    <3>2. waiting' \subseteq waiting \cup {"CHLD", "INT"} BY <2>2 DEF A!TakesForked, A!TakesNamed
    <3> QED BY <1>2, <2>1, <3>1, <3>2
  <2>3. CASE child[c] = "young" /\ A!Dies(c, "crashed") /\ UNCHANGED told
    BY <1>2, <1>3, <2>1, <2>3 DEF A!Serving
  <2>4. CASE A!Grows(c, "running", "ending") /\ A!Kill({}, {c}) /\ UNCHANGED waiting
    <3>1. told' = told /\ coming' \subseteq coming BY <2>4 DEF A!Kill
    <3>2. Fewer BY <1>0, <2>4, <3>1, OneChanges DEF A!Grows, A!TypeOK, A!Serving, ChildStates
    <3> QED BY <1>2, <2>1, <2>4, <3>2
  <2> QED BY <1>5, <2>2, <2>3, <2>4 DEF A!ChildTakes
<1> QED BY <1>1, <1>4, <1>5

-----------------------------------------------------------------------------
(***************************************************************************)
(* The invariant holds in every state; its types say that at most two of   *)
(* the angel's handlers are active at once.                                *)
(***************************************************************************)
THEOREM AngelInvariant == ASSUME A!AngelAssumption PROVE A!Spec => []AngelInv
<1>1. MaxSignals \in Nat /\ MaxChildren \in Nat BY DEF A!AngelAssumption
<1>2. A!Init => AngelInv
  <2> SUFFICES ASSUME A!Init PROVE AngelInv
    OBVIOUS
  <2>1. A!Untold = {} BY DEF A!Init, A!In, A!Untold, A!Serving
  <2>2. /\ child \in [A!Children -> ChildStates] /\ coming = {} /\ told = {}
        /\ 0 \in 0..MaxSignals
    BY <1>1 DEF A!Init, ChildStates
  <2>5. A!TypeOK BY <2>2 DEF A!Init, A!TypeOK, ChildStates
  <2>3. ServingInv BY <2>1 DEF A!Init, ServingInv
  <2>4. StartInv BY <2>1 DEF A!Init, StartInv
  <2> QED BY <2>5, <2>3, <2>4 DEF AngelInv
<1>3. AngelInv /\ [A!Next]_A!vars => AngelInv'
  <2> SUFFICES ASSUME AngelInv, [A!Next]_A!vars PROVE AngelInv'
    OBVIOUS
  <2>1. CASE UNCHANGED A!vars
    BY <2>1 DEF A!vars, A!flags, A!kills, AngelInv, A!TypeOK, ServingInv, StartInv, A!In, A!Untold, Latest
  <2> QED BY <1>1, <2>1, HandlersKeep, MainKeeps, OutsideKeeps DEF A!Next
<1> QED BY <1>2, <1>3, PTL DEF A!Spec

(***************************************************************************)
(* At no time are there two servers that were not told to end, and the     *)
(* angel does not end beside one, however its handlers interrupt it, and   *)
(* whatever a child that still has them does with the signal.              *)
(***************************************************************************)
THEOREM AngelSafeHolds == ASSUME A!AngelAssumption PROVE A!Spec => []A!AngelSafe
<1>1. AngelInv => A!AngelSafe
  <2> SUFFICES ASSUME AngelInv PROVE A!OneServer /\ A!NoOrphan
    BY DEF A!AngelSafe
  <2>1. \E x : A!Untold \subseteq {x}
    <3>1. CASE main = "assign" BY <3>1 DEF AngelInv, ServingInv
    <3>2. CASE main # "assign" BY <3>2 DEF AngelInv, ServingInv
    <3> QED BY <3>1, <3>2
  <2>2. PICK x : A!Untold \subseteq {x} BY <2>1
  <2>3. IsFiniteSet({x}) /\ Cardinality({x}) = 1 BY FS_Singleton
  <2>4. Cardinality(A!Untold) <= Cardinality({x}) BY <2>2, <2>3, FS_Subset
  <2>5. A!OneServer
    <3>1. A!Cardinality(A!Untold) = Cardinality(A!Untold) BY DEF A!Cardinality, Cardinality, A!IsFiniteSet, IsFiniteSet
    <3> QED BY <2>3, <2>4, <3>1 DEF A!OneServer
  <2>6. A!NoOrphan BY DEF AngelInv, StartInv, A!NoOrphan, A!Over
  <2> QED BY <2>5, <2>6
<1> QED BY <1>1, AngelInvariant, PTL
=============================================================================
