--------------------------- MODULE BackupRequest ----------------------------
(***************************************************************************)
(* What the operator promises about backups and restores, without its      *)
(* jobs, queues and caches: every resource stands for one operation, which *)
(* is run once, and whose outcome the resource reports for good.           *)
(***************************************************************************)

CONSTANT Requests

VARIABLES
    report,   \* what the resource of each request says
    op        \* how far its operation has come

vars == <<report, op>>

TypeOK ==
    /\ report \in [Requests -> {"none", "asked", "complete", "failed", "deleted"}]
    /\ op \in [Requests -> {"none", "active", "complete", "failed"}]

Init ==
    /\ report = [q \in Requests |-> "none"]
    /\ op = [q \in Requests |-> "none"]

Ask(q) ==
    /\ report[q] = "none"
    /\ report' = [report EXCEPT ![q] = "asked"]
    /\ UNCHANGED op

\* The operation of a resource that exists starts only once.
Launch(q) ==
    /\ \/ report[q] = "asked" /\ op[q] = "none"
       \/ report[q] = "deleted"
    /\ op' = [op EXCEPT ![q] = "active"]
    /\ UNCHANGED report

End(q) ==
    /\ op[q] = "active"
    /\ \E how \in {"complete", "failed"} : op' = [op EXCEPT ![q] = how]
    /\ UNCHANGED report

\* Only the outcome of the request's own operation is reported.
Report(q) ==
    /\ report[q] = "asked" /\ op[q] \in {"complete", "failed"}
    /\ report' = [report EXCEPT ![q] = op[q]]
    /\ UNCHANGED op

Delete(q) ==
    /\ report[q] \in {"asked", "complete", "failed"}
    /\ report' = [report EXCEPT ![q] = "deleted"]
    /\ UNCHANGED op

Next == \E q \in Requests :
            Ask(q) \/ Launch(q) \/ End(q) \/ Report(q) \/ Delete(q)

Spec == Init /\ [][Next]_vars

=============================================================================
