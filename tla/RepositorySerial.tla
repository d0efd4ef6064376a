-------------------------- MODULE RepositorySerial --------------------------
(***************************************************************************)
(* What the run coordinator promises to its callers, without saying how:   *)
(* work on a repository is serialized, every run moves forward through the *)
(* statuses of internal/core/model.go, and the one exception to "one       *)
(* unsettled run per repository" is a backup that has done its work and    *)
(* handed the repository to the retention run that follows it.             *)
(***************************************************************************)
EXTENDS Naturals, FiniteSets

CONSTANTS
    Runs,    \* run records
    Repos,   \* repositories
    NoRepo   \* repository of a record that does not exist yet, not in Repos

VARIABLES
    status,   \* run -> its status, "none" before it is accepted
    repo,     \* run -> the repository it works on
    relieved  \* backups that handed their repository to a follow-up run

vars == <<status, repo, relieved>>

ActiveStatus == {"starting", "running"}
TerminalStatus == {"success", "failed", "canceled", "interrupted"}
Statuses == {"none"} \cup ActiveStatus \cup TerminalStatus

\* The runs that still own repository q: unsettled and not relieved.
Owning(q) ==
    {r \in Runs : repo[r] = q /\ status[r] \in ActiveStatus /\ r \notin relieved}

Init ==
    /\ status = [r \in Runs |-> "none"]
    /\ repo = [r \in Runs |-> NoRepo]
    /\ relieved = {}

\* A run is accepted on a repository nothing owns.
Accept(r, q) ==
    /\ status[r] = "none"
    /\ Owning(q) = {}
    /\ status' = [status EXCEPT ![r] = "starting"]
    /\ repo' = [repo EXCEPT ![r] = q]
    /\ UNCHANGED relieved

\* Backup b, its work done, is relieved by the follow-up run r.
Follow(b, r, q) ==
    /\ status[b] \in ActiveStatus
    /\ b \notin relieved
    /\ status[r] = "none"
    /\ Owning(q) \subseteq {b}
    /\ status' = [status EXCEPT ![r] = "starting"]
    /\ repo' = [repo EXCEPT ![r] = q]
    /\ relieved' = relieved \cup {b}

Start(r) ==
    /\ status[r] = "starting"
    /\ status' = [status EXCEPT ![r] = "running"]
    /\ UNCHANGED <<repo, relieved>>

\* A run ends once. A relieved backup can only have succeeded, unless its
\* process dies first.
Settle(r, s) ==
    /\ status[r] \in ActiveStatus
    /\ r \in relieved => s \in {"success", "interrupted"}
    /\ status' = [status EXCEPT ![r] = s]
    /\ UNCHANGED <<repo, relieved>>

AcceptRun(r) == \E q \in Repos : Accept(r, q)
FollowRun(r) == \E b \in Runs, q \in Repos : Follow(b, r, q)
SettleRun(r) == \E s \in TerminalStatus : Settle(r, s)

Next == \E r \in Runs : AcceptRun(r) \/ FollowRun(r) \/ Start(r) \/ SettleRun(r)

Spec == Init /\ [][Next]_vars

TypeOK ==
    /\ status \in [Runs -> Statuses]
    /\ repo \in [Runs -> Repos \cup {NoRepo}]
    /\ relieved \subseteq Runs

\* At most one run owns a repository at a time.
Serialized == \A q \in Repos : \A r, s \in Owning(q) : r = s
=============================================================================
