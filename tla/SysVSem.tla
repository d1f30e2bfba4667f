------------------------------ MODULE SysVSem ------------------------------
(***************************************************************************)
(* System V semaphores as the programs use them: semop on an array of      *)
(* operations, IPC_NOWAIT and SEM_UNDO.  External to the repository.       *)
(***************************************************************************)
EXTENDS Integers, Sequences

\* One element of the array: semaphore, change (0 waits for zero) and flags.
Sop(s, d, nowait, undo) == [sem |-> s, op |-> d, nowait |-> nowait, undo |-> undo]

Stuck(v, o) == IF o.op = 0 THEN v[o.sem] # 0 ELSE v[o.sem] + o.op < 0

(***************************************************************************)
(* One operation after others: call holds the values they left, what the   *)
(* caller's exit will add to each semaphore, and how the call stands.  The *)
(* first operation that cannot be done decides: with IPC_NOWAIT the call   *)
(* fails, without it the caller sleeps.                                    *)
(***************************************************************************)
Try(call, o) ==
  IF call.result # "done" THEN call
  ELSE IF Stuck(call.val, o) THEN [call EXCEPT !.result = IF o.nowait THEN "fail" ELSE "block"]
  ELSE [val |-> [call.val EXCEPT ![o.sem] = @ + o.op],
        adj |-> IF o.undo THEN [call.adj EXCEPT ![o.sem] = @ - o.op] ELSE call.adj,
        result |-> "done"]

(***************************************************************************)
(* semop with the one to three operations the programs pass.  A sleeper    *)
(* tries its whole array again at every change of the set, so a call can   *)
(* sleep first and fail later.                                             *)
(***************************************************************************)
Semop(val, adj, ops) ==
  LET none == [val |-> val, adj |-> adj, result |-> "done"]
  IN  CASE Len(ops) = 1 -> Try(none, ops[1])
        [] Len(ops) = 2 -> Try(Try(none, ops[1]), ops[2])
        [] Len(ops) = 3 -> Try(Try(Try(none, ops[1]), ops[2]), ops[3])

\* The exit of a process applies its adjustments; a value stops at zero.
Undone(val, adj) ==
  [s \in DOMAIN val |-> IF val[s] + adj[s] < 0 THEN 0 ELSE val[s] + adj[s]]
===========================================================================
