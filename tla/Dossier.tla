------------------------------- MODULE Dossier -------------------------------
(***************************************************************************)
(* Distillation proposals and how an approved one gets into the dossier     *)
(* file, its git repository and the cache the prompts are built from        *)
(* (src/internal/dossier: service.go, applier.go, proposal_store.go,        *)
(* loader.go).                                                              *)
(*                                                                         *)
(* Every proposal has a source of its own.  Text is the set of proposals    *)
(* whose draft it contains, and stands for its hash as well; a draft that   *)
(* does not fit its section is refused without a trace and left out.  Two   *)
(* requests may apply at a time: ExecuteApply takes no lock.  Reads and     *)
(* writes of the file are atomic here.  A crash loses the requests and the  *)
(* cache; the database, the file and the repository survive.                *)
(***************************************************************************)
EXTENDS Naturals

CONSTANTS Proposal,
          Request,        \* requests that may apply at the same time
          NoProposal,
          MaxCrashes      \* bound

Text == SUBSET Proposal
Held == {{}} \cup {{t} : t \in Text}     \* one text, or none

ASSUME DossierAssumption ==
    NoProposal \notin Proposal /\ MaxCrashes \in Nat

VARIABLES status,     \* of each proposal; "none": there is none of its source
          base,       \* the text a proposal was made against
          file, index, head,    \* the text on disk, staged and committed
          cache,      \* what the loader holds
          load,       \* the text a load has read and not stored yet
          apply,      \* the requests: place, proposal, the text they read
          crashes,
          overlapped  \* history: two of these operations overlapped

store == <<status, base>>
git == <<index, head>>
vars == <<status, base, file, index, head, cache, load, apply, crashes, overlapped>>

Status == {"none", "pending", "approved", "rejected", "applied"}
PC == {"idle", "read", "write", "add", "commit", "sha", "mark", "invalidate",
       "restore", "reset"}

TypeOK ==
    /\ status \in [Proposal -> Status]
    /\ base \in [Proposal -> Text]
    /\ file \in Text /\ index \in Text /\ head \in Text
    /\ cache \in Held /\ load \in Held
    /\ apply \in [Request -> [pc : PC, proposal : Proposal \cup {NoProposal},
                              original : Text]]
    /\ \A x \in Request : apply[x].proposal = NoProposal <=> apply[x].pc = "idle"
    /\ crashes \in 0..MaxCrashes
    /\ overlapped \in BOOLEAN

Idle == [pc |-> "idle", proposal |-> NoProposal, original |-> {}]

Init ==
    /\ status = [p \in Proposal |-> "none"]
    /\ base = [p \in Proposal |-> {}]
    /\ file = {} /\ index = {} /\ head = {}
    /\ cache = {} /\ load = {}
    /\ apply = [x \in Request |-> Idle]
    /\ crashes = 0
    /\ overlapped = FALSE

Busy(x) == apply[x].pc # "idle"
Loading == load # {}
At(x, pc) == apply[x].pc = pc
Goto(x, pc) == apply' = [apply EXCEPT ![x].pc = pc]
(* A bug to look for: a request that is over keeps its proposal.            *)
DoneHolding(x) == Goto(x, "idle")
Done(x) == apply' = [apply EXCEPT ![x] = Idle]
Note(overlap) == overlapped' = (overlapped \/ overlap)
-----------------------------------------------------------------------------
(* CreateProposal: one per source.  The hash of the text it is made against *)
(* is the proposer's, who may have asked for it long ago.                   *)
Propose(p) ==
    /\ status[p] = "none"
    /\ status' = [status EXCEPT ![p] = "pending"]
    /\ \E text \in SUBSET (Proposal \ {p}) : base' = [base EXCEPT ![p] = text]
    /\ UNCHANGED <<file, index, head, cache, load, apply, crashes, overlapped>>

(* A bug to look for: the verdict is not compared with the state before.    *)
DecideAgain(p) ==
    /\ status[p] \in {"pending", "approved"}
    /\ \E verdict \in {"approved", "rejected"} :
         status' = [status EXCEPT ![p] = verdict]
    /\ UNCHANGED <<base, file, index, head, cache, load, apply, crashes, overlapped>>

(* ApproveProposal and RejectProposal, by somebody else than the proposer.  *)
Decide(p) ==
    /\ status[p] = "pending"
    /\ \E verdict \in {"approved", "rejected"} :
         status' = [status EXCEPT ![p] = verdict]
    /\ UNCHANGED <<base, file, index, head, cache, load, apply, crashes, overlapped>>
-----------------------------------------------------------------------------
(* ExecuteApply of the target dog: the proposal is approved ...             *)
Begin(x, p) ==
    /\ ~Busy(x) /\ status[p] = "approved"
    /\ apply' = [apply EXCEPT ![x] = [pc |-> "read", proposal |-> p, original |-> {}]]
    /\ Note(Loading \/ \E y \in Request : Busy(y))
    /\ UNCHANGED <<store, file, git, cache, load, crashes>>

(* ... the file is what it was made against (PrepareDraft) ...              *)
Read(x) ==
    /\ At(x, "read")
    /\ IF file = base[apply[x].proposal]
       THEN apply' = [apply EXCEPT ![x] = [pc |-> "write", proposal |-> @.proposal,
                                           original |-> file]]
       ELSE Done(x)
    /\ UNCHANGED <<store, file, git, cache, load, crashes, overlapped>>

(* ... it is written, staged and committed; each command of git may fail,   *)
(* and a commit of nothing does.                                            *)
Write(x) ==
    /\ At(x, "write")
    /\ file' = apply[x].original \cup {apply[x].proposal}
    /\ Goto(x, "add")
    /\ UNCHANGED <<store, git, cache, load, crashes, overlapped>>

Add(x) ==
    /\ At(x, "add")
    /\ index' = file
    /\ Goto(x, "commit")
    /\ UNCHANGED <<store, file, head, cache, load, crashes, overlapped>>

Commit(x) ==
    /\ At(x, "commit") /\ index # head
    /\ head' = index
    /\ Goto(x, "sha")
    /\ UNCHANGED <<store, file, index, cache, load, crashes, overlapped>>

Sha(x) ==
    /\ At(x, "sha") /\ Goto(x, "mark")
    /\ UNCHANGED <<store, file, git, cache, load, crashes, overlapped>>

(* A bug to look for: a failed command of git is not noticed.               *)
GitFailsUnnoticed(x) ==
    /\ apply[x].pc \in {"add", "commit", "sha"}
    /\ Goto(x, "mark")
    /\ UNCHANGED <<store, file, git, cache, load, crashes, overlapped>>

GitFails(x) ==
    /\ apply[x].pc \in {"add", "commit", "sha"}
    /\ Goto(x, "restore")
    /\ UNCHANGED <<store, file, git, cache, load, crashes, overlapped>>

(* A bug to look for: the rollback keeps what was staged.                   *)
RestoreStaged(x) ==
    /\ At(x, "restore")
    /\ file' = index
    /\ Goto(x, "reset")
    /\ UNCHANGED <<store, git, cache, load, crashes, overlapped>>

(* The rollback: the text that was read, and nothing staged ...             *)
Restore(x) ==
    /\ At(x, "restore")
    /\ file' = apply[x].original
    /\ Goto(x, "reset")
    /\ UNCHANGED <<store, git, cache, load, crashes, overlapped>>

(* ... unless git fails again, which is ignored.                            *)
Reset(x) ==
    /\ At(x, "reset")
    /\ index' \in {head, index}
    /\ Done(x)
    /\ UNCHANGED <<store, file, head, cache, load, crashes, overlapped>>

(* MarkApplied, whose failure is not an error, and the cache.               *)
Mark(x) ==
    /\ At(x, "mark")
    /\ LET p == apply[x].proposal IN
       status' = [status EXCEPT ![p] = IF @ = "approved" THEN "applied" ELSE @]
    /\ Goto(x, "invalidate")
    /\ UNCHANGED <<base, file, git, cache, load, crashes, overlapped>>

(* A bug to look for: the loader is not told.                               *)
InvalidateNot(x) ==
    /\ At(x, "invalidate")
    /\ Done(x)
    /\ UNCHANGED <<store, file, git, cache, load, crashes, overlapped>>

Invalidate(x) ==
    /\ At(x, "invalidate")
    /\ cache' = {}
    /\ Done(x)
    /\ UNCHANGED <<store, file, git, load, crashes, overlapped>>
-----------------------------------------------------------------------------
(* loadCached on a miss: the file is read outside the lock, then stored.    *)
LoadRead ==
    /\ cache = {} /\ ~Loading
    /\ load' = {file}
    /\ Note(\E x \in Request : Busy(x))
    /\ UNCHANGED <<store, file, git, cache, apply, crashes>>

LoadStore ==
    /\ Loading
    /\ cache' = load /\ load' = {}
    /\ UNCHANGED <<store, file, git, apply, crashes, overlapped>>

Crash ==
    /\ crashes < MaxCrashes
    /\ apply' = [x \in Request |-> Idle]
    /\ cache' = {} /\ load' = {}
    /\ crashes' = crashes + 1
    /\ UNCHANGED <<store, file, git, overlapped>>

Step(x) ==
    \/ Read(x) \/ Write(x) \/ Add(x) \/ Commit(x) \/ Sha(x)
    \/ GitFails(x) \/ Restore(x) \/ Reset(x) \/ Mark(x) \/ Invalidate(x)

Next ==
    \/ \E p \in Proposal : Propose(p) \/ Decide(p)
    \/ \E x \in Request : Step(x) \/ \E p \in Proposal : Begin(x, p)
    \/ LoadRead \/ LoadStore
    \/ Crash

Spec == Init /\ [][Next]_vars
-----------------------------------------------------------------------------
(* The dossier, staged and committed too, only ever holds drafts that were  *)
(* approved: also while two requests apply, fail and roll back over each    *)
(* other, and after a crash in the middle (proposal.go:43-44).              *)
OnlyApprovedText ==
    \A p \in file \cup index \cup head : status[p] \in {"approved", "applied"}

(* Unless operations overlapped: what is applied stays, in the file and in  *)
(* the repository, through the failures and rollbacks of later proposals    *)
(* and through crashes ...                                                  *)
AppliedStays ==
    ~overlapped => \A p \in Proposal :
        status[p] = "applied" => p \in file /\ p \in head

(* ... a request that fails leaves the file as its proposal needs it, so a  *)
(* retry does not meet a dirty tree (service.go:97-98) ...                  *)
RetryStartsClean ==
    ~overlapped => \A x \in Request :
        At(x, "reset") => file = base[apply[x].proposal]

(* ... and between applies the prompts are built from the file as it is     *)
(* (loader.go:92-98): a restart begins with an empty cache.                 *)
CacheIsFresh ==
    ~overlapped /\ (\A x \in Request : ~Busy(x)) => cache \subseteq {file}

(* "apply re-hashes and rejects on mismatch (stale-write optimistic lock)"  *)
(* (proposal.go:68-69): no apply undoes another.                            *)
(* It does not hold: README, "Disagreements".                               *)
NoLostUpdate == \A p \in Proposal : status[p] = "applied" => p \in file
=============================================================================
