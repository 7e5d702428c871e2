----------------------------- MODULE AttemptLog -----------------------------
(***************************************************************************)
(* What the delivery of scan jobs promises: a log of the attempts at each  *)
(* job, of which only the last is ever open, and one executor that begins  *)
(* an attempt in the very step that records its acceptance.  Each attempt  *)
(* is therefore executed at most once, and no two attempts at one job are  *)
(* open together, whatever happens to requests, answers and processes.     *)
(* How an attempt was closed, and which outcome the job got, is left open. *)
(***************************************************************************)
EXTENDS Naturals, Sequences

CONSTANTS
    Jobs,
    Nobody      \* no attempt is executed

VARIABLES
    log,        \* by job, the states of the attempts at it, in the order they were made
    exec        \* the attempt that is executed, as job and number, or Nobody

Init ==
    /\ log = [j \in Jobs |-> <<>>]
    /\ exec = Nobody

(* What an attempt may become. *)
After(a) ==
    CASE a = "offered"  -> {"offered", "accepted", "closed"}
      [] a = "accepted" -> {"accepted", "running", "closed"}
      [] a = "running"  -> {"running", "closed"}
      [] a = "closed"   -> {"closed"}

(* The last attempt goes on; or all are closed and another is made. *)
JobStep(old, new) ==
    \/ /\ Len(new) = Len(old)
       /\ \A i \in 1 .. Len(old) : new[i] \in IF i = Len(old) THEN After(old[i]) ELSE {"closed"}
    \/ /\ Len(new) = Len(old) + 1
       /\ \A i \in 1 .. Len(old) : new[i] = "closed"
       /\ new[Len(new)] = "offered"

(* The executor begins the last attempt at j as it is accepted. *)
Begins(j) ==
    LET n == Len(log[j]) IN
    /\ exec = Nobody
    /\ n > 0 /\ Len(log'[j]) = n
    /\ log[j][n] = "offered" /\ log'[j][n] = "accepted"
    /\ exec' = <<j, n>>

Next ==
    /\ DOMAIN log' = Jobs
    /\ \A j \in Jobs : JobStep(log[j], log'[j])
    /\ exec' \in {exec, Nobody} \/ \E j \in Jobs : Begins(j)

Spec == Init /\ [][Next]_<<log, exec>>
=============================================================================
