--------------------------- MODULE Dossier_proofs ---------------------------
(***************************************************************************)
(* Proofs about Dossier.  The invariant says, for a request that has the    *)
(* file to itself, what each place of ExecuteApply has made of the text on  *)
(* disk, the staged and the committed one; while operations overlap only    *)
(* the origin of the text is left of it.                                    *)
(***************************************************************************)
EXTENDS Dossier, TLAPS

Approved == {p \in Proposal : status[p] \in {"approved", "applied"}}
Applied == {p \in Proposal : status[p] = "applied"}

OnlyApproved ==
    /\ file \subseteq Approved /\ index \subseteq Approved /\ head \subseteq Approved
    /\ \A x \in Request : apply[x].original \subseteq Approved
    /\ \A x \in Request : Busy(x) => apply[x].proposal \in Approved

Alone ==
    \A x \in Request : Busy(x) => load = {} /\ \A y \in Request : Busy(y) => x = y

Attempt(x) ==
    /\ apply[x].pc = "read" => cache \subseteq {file}
    /\ apply[x].pc \in {"write", "reset"} => file = apply[x].original
    /\ apply[x].pc \in {"add", "commit", "sha", "restore"} =>
         file = apply[x].original \cup {apply[x].proposal}
    /\ apply[x].pc \in {"write", "add", "commit", "sha", "restore", "reset"} =>
         /\ apply[x].original = base[apply[x].proposal]
         /\ Applied \subseteq apply[x].original
         /\ cache \subseteq {apply[x].original}
    /\ apply[x].pc = "commit" => index = file
    /\ apply[x].pc = "sha" => head = file
    /\ apply[x].pc = "mark" => apply[x].proposal \in file \cap head
-----------------------------------------------------------------------------
(* What Goto and Done do to the requests.                                   *)
LEMMA GotoMoves ==
    ASSUME TypeOK, NEW x \in Request, NEW pc, Goto(x, pc)
    PROVE  /\ apply'[x].pc = pc
           /\ apply'[x].proposal = apply[x].proposal
           /\ apply'[x].original = apply[x].original
           /\ \A y \in Request : y # x => apply'[y] = apply[y]
  BY DEF TypeOK, Goto

LEMMA DoneRests ==
    ASSUME TypeOK, NEW x \in Request, Done(x)
    PROVE  /\ apply'[x].pc = "idle" /\ apply'[x].original = {}
           /\ \A y \in Request : y # x => apply'[y] = apply[y]
  BY DEF TypeOK, Done, Idle


Entry == [pc : PC, proposal : Proposal \cup {NoProposal}, original : Text]

ApplyOK ==
    /\ apply \in [Request -> Entry]
    /\ \A x \in Request : apply[x].proposal = NoProposal <=> apply[x].pc = "idle"

StoreOK ==
    /\ status \in [Proposal -> Status]
    /\ base \in [Proposal -> Text]
    /\ file \in Text /\ index \in Text /\ head \in Text
    /\ cache \in Held /\ load \in Held
    /\ crashes \in 0..MaxCrashes
    /\ overlapped \in BOOLEAN

LEMMA Typed == TypeOK <=> ApplyOK /\ StoreOK
  BY DEF TypeOK, ApplyOK, StoreOK, Entry

(* A request that moves on, or is over, is still a request.                 *)
LEMMA PutTypes ==
    ASSUME ApplyOK, NEW x \in Request, NEW e \in Entry,
           e.proposal = NoProposal <=> e.pc = "idle",
           apply' = [apply EXCEPT ![x] = e]
    PROVE  ApplyOK'
<1>1. apply' \in [Request -> Entry]
  BY DEF ApplyOK
<1>2. ASSUME NEW y \in Request PROVE apply'[y].proposal = NoProposal <=> apply'[y].pc = "idle"
  <2>1. CASE y = x
    BY <2>1 DEF ApplyOK
  <2>2. CASE y # x
    BY <2>2 DEF ApplyOK
  <2> QED
    BY <2>1, <2>2
<1> QED
  BY <1>1, <1>2 DEF ApplyOK

LEMMA GotoTypes ==
    ASSUME ApplyOK, NEW x \in Request, Busy(x), NEW pc \in PC \ {"idle"}, Goto(x, pc)
    PROVE  ApplyOK'
<1> DEFINE e == [pc |-> pc, proposal |-> apply[x].proposal, original |-> apply[x].original]
<1>1. apply[x] \in Entry
  BY DEF ApplyOK
<1>2. e \in Entry /\ e.proposal # NoProposal /\ e.pc # "idle"
  BY <1>1 DEF Entry, ApplyOK, Busy
<1>3. [apply[x] EXCEPT !.pc = pc] = e
  BY <1>1 DEF Entry
<1>4. apply' = [apply EXCEPT ![x] = e]
  BY <1>3 DEF Goto
<1> HIDE DEF e
<1> QED
  BY <1>2, <1>4, PutTypes

LEMMA DoneTypes ==
    ASSUME ApplyOK, NEW x \in Request, Done(x) PROVE ApplyOK'
<1>1. Idle \in Entry /\ Idle.proposal = NoProposal /\ Idle.pc = "idle"
  BY DEF Idle, Entry, PC, Text
<1>2. apply' = [apply EXCEPT ![x] = Idle]
  BY DEF Done
<1> QED
  BY <1>1, <1>2, PutTypes
-----------------------------------------------------------------------------
(* The type invariant alone.                                                *)
LEMMA TypeInit == Init => TypeOK
<1> SUFFICES ASSUME Init PROVE TypeOK
  OBVIOUS
<1>1. StoreOK
  <2>1. crashes \in 0..MaxCrashes
    BY DossierAssumption DEF Init
  <2>2. status \in [Proposal -> Status] /\ base \in [Proposal -> Text]
    BY DEF Init, Status, Text
  <2>3. file \in Text /\ index \in Text /\ head \in Text /\ cache \in Held /\ load \in Held
    BY DEF Init, Text, Held
  <2> QED
    BY <2>1, <2>2, <2>3 DEF StoreOK, Init
<1>2. ApplyOK
  BY DEF Init, ApplyOK, Entry, Idle, PC, Text
<1> QED
  BY <1>1, <1>2, Typed

LEMMA TypeStep == ApplyOK /\ StoreOK /\ [Next]_vars => (ApplyOK /\ StoreOK)'
<1> SUFFICES ASSUME ApplyOK, StoreOK, [Next]_vars PROVE (ApplyOK /\ StoreOK)'
  OBVIOUS
<1> USE DEF Text, Held, Status
<1>1. ASSUME NEW p \in Proposal, Propose(p) \/ Decide(p) PROVE (ApplyOK /\ StoreOK)'
  <2>1. StoreOK'
    BY <1>1 DEF Propose, Decide, StoreOK
  <2>2. ApplyOK'
    BY <1>1 DEF Propose, Decide, ApplyOK
  <2> QED
    BY <2>1, <2>2
<1>2. ASSUME NEW x \in Request, NEW p \in Proposal, Begin(x, p) PROVE (ApplyOK /\ StoreOK)'
  <2> DEFINE e == [pc |-> "read", proposal |-> p, original |-> {}]
  <2>1. e \in Entry /\ e.proposal # NoProposal /\ e.pc # "idle"
    BY DossierAssumption DEF Entry, PC
  <2>2. apply' = [apply EXCEPT ![x] = e]
    BY <1>2 DEF Begin
  <2>3. StoreOK'
    BY <1>2 DEF Begin, StoreOK, store, git, Note
  <2> HIDE DEF e
  <2> QED
    BY <2>1, <2>2, <2>3, PutTypes
<1>3. ASSUME NEW x \in Request, Read(x) PROVE (ApplyOK /\ StoreOK)'
  <2>1. StoreOK'
    BY <1>3 DEF Read, StoreOK, store, git
  <2>2. CASE Done(x)
    BY <2>1, <2>2, DoneTypes
  <2>3. CASE ~Done(x)
    <3> DEFINE e == [pc |-> "write", proposal |-> apply[x].proposal, original |-> file]
    <3>1. apply[x] \in Entry /\ apply[x].proposal # NoProposal
      BY <1>3 DEF ApplyOK, Read, At
    <3>2. e \in Entry /\ e.proposal # NoProposal /\ e.pc # "idle"
      BY <3>1 DEF Entry, PC, StoreOK
    <3>3. apply' = [apply EXCEPT ![x] = e]
      BY <1>3, <2>3 DEF Read
    <3> HIDE DEF e
    <3> QED
      BY <2>1, <3>2, <3>3, PutTypes
  <2> QED
    BY <2>2, <2>3
<1>4. ASSUME NEW x \in Request,
             Write(x) \/ Add(x) \/ Commit(x) \/ Sha(x) \/ GitFails(x) \/ Restore(x) \/ Mark(x)
      PROVE  (ApplyOK /\ StoreOK)'
  <2>1. Busy(x) /\ \E pc \in PC \ {"idle"} : Goto(x, pc)
    BY <1>4 DEF Write, Add, Commit, Sha, GitFails, Restore, Mark, At, Busy, PC
  <2>2. CASE Write(x) \/ Restore(x)
    <3>1. apply[x] \in Entry /\ apply[x].proposal \in Proposal
      BY <2>1 DEF ApplyOK, Entry, Busy
    <3>2. file' \in Text
      BY <2>2, <3>1 DEF Write, Restore, Entry
    <3> QED
      BY <2>1, <2>2, <3>2, GotoTypes DEF Write, Restore, StoreOK, store, git
  <2>3. CASE Add(x) \/ Commit(x) \/ Sha(x) \/ GitFails(x)
    BY <2>1, <2>3, GotoTypes DEF Add, Commit, Sha, GitFails, StoreOK, store, git
  <2>4. CASE Mark(x)
    BY <2>1, <2>4, GotoTypes DEF Mark, StoreOK, store, git
  <2> QED
    BY <1>4, <2>2, <2>3, <2>4
<1>5. ASSUME NEW x \in Request, Reset(x) \/ Invalidate(x) PROVE (ApplyOK /\ StoreOK)'
  BY <1>5, DoneTypes DEF Reset, Invalidate, StoreOK, store, git
<1>6. CASE LoadRead
  BY <1>6 DEF LoadRead, Note, store, git, ApplyOK, StoreOK
<1>7. CASE LoadStore
  BY <1>7 DEF LoadStore, store, git, ApplyOK, StoreOK
<1>8. CASE Crash
  <2>1. crashes' \in 0..MaxCrashes
    BY <1>8, DossierAssumption DEF Crash, StoreOK
  <2>2. StoreOK'
    BY <1>8, <2>1 DEF Crash, store, git, StoreOK
  <2>3. ApplyOK'
    BY <1>8 DEF Crash, ApplyOK, Idle, Entry, PC
  <2> QED
    BY <2>2, <2>3
<1>9. CASE UNCHANGED vars
  BY <1>9 DEF vars, ApplyOK, StoreOK
<1> QED
  BY <1>1, <1>2, <1>3, <1>4, <1>5, <1>6, <1>7, <1>8, <1>9 DEF Next, Step

LEMMA TypeNext == TypeOK /\ [Next]_vars => TypeOK'
  BY Typed, TypeStep, PTL

(* TypeOK is an invariant of the dossier pipeline for every number of       *)
(* proposals and requests (service.go:99-151).                              *)
THEOREM TypeCorrect == Spec => []TypeOK
  BY TypeInit, TypeNext, PTL DEF Spec
-----------------------------------------------------------------------------
(* Only approved text goes anywhere.                                        *)
LEMMA ApprovedInit == Init => OnlyApproved
  BY DossierAssumption DEF Init, OnlyApproved, Approved, Idle, Busy

LEMMA ApprovedNext == TypeOK /\ OnlyApproved /\ [Next]_vars => OnlyApproved'
<1> SUFFICES ASSUME TypeOK, OnlyApproved, [Next]_vars PROVE OnlyApproved'
  OBVIOUS
<1>1. ASSUME NEW p \in Proposal, Propose(p) \/ Decide(p) PROVE OnlyApproved'
  <2>1. status[p] \in {"none", "pending"} /\ \A q \in Proposal : q # p => status'[q] = status[q]
    BY <1>1 DEF Propose, Decide, TypeOK
  <2>2. Approved \subseteq Approved'
    BY <2>1 DEF Approved
  <2>3. UNCHANGED <<file, index, head, apply>>
    BY <1>1 DEF Propose, Decide
  <2> QED
    BY <2>2, <2>3 DEF OnlyApproved, Busy
<1>2. ASSUME NEW x \in Request, NEW p \in Proposal, Begin(x, p) PROVE OnlyApproved'
  <2>1. /\ apply'[x].proposal = p /\ apply'[x].original = {}
        /\ \A y \in Request : y # x => apply'[y] = apply[y]
    BY <1>2 DEF Begin, TypeOK
  <2>2. UNCHANGED <<status, file, index, head>> /\ p \in Approved
    BY <1>2 DEF Begin, Approved, store, git
  <2> QED
    BY <2>1, <2>2 DEF OnlyApproved, Approved, Busy
<1>3. ASSUME NEW x \in Request, Read(x) PROVE OnlyApproved'
  <2>1. UNCHANGED <<status, file, index, head>> /\ Busy(x)
    BY <1>3 DEF Read, store, git, At, Busy
  <2>2. CASE Done(x)
    BY <2>1, <2>2, DoneRests DEF OnlyApproved, Approved, Busy
  <2>3. CASE ~Done(x)
    <3>1. /\ apply'[x].proposal = apply[x].proposal /\ apply'[x].original = file
          /\ \A y \in Request : y # x => apply'[y] = apply[y]
      BY <1>3, <2>3 DEF TypeOK, Read
    <3> QED
      BY <2>1, <3>1 DEF OnlyApproved, Approved, Busy
  <2> QED
    BY <2>2, <2>3
<1>4. ASSUME NEW x \in Request, Write(x) PROVE OnlyApproved'
  <2>1. UNCHANGED <<status, index, head>> /\ Busy(x) /\ Goto(x, "add")
    BY <1>4 DEF Write, store, git, At, Busy
  <2>2. file' \subseteq Approved
    BY <1>4, <2>1 DEF Write, OnlyApproved
  <2> QED
    BY <2>1, <2>2, GotoMoves DEF OnlyApproved, Approved, Busy
<1>5. ASSUME NEW x \in Request, Add(x) \/ Commit(x) \/ Sha(x) \/ GitFails(x) PROVE OnlyApproved'
  <2>1. UNCHANGED <<status, file>> /\ Busy(x) /\ \E pc \in PC : Goto(x, pc)
    BY <1>5 DEF Add, Commit, Sha, GitFails, store, git, At, Busy, PC
  <2>2. index' \subseteq Approved /\ head' \subseteq Approved
    BY <1>5 DEF Add, Commit, Sha, GitFails, git, OnlyApproved
  <2> QED
    BY <2>1, <2>2, GotoMoves DEF OnlyApproved, Approved, Busy
<1>6. ASSUME NEW x \in Request, Restore(x) PROVE OnlyApproved'
  <2>1. UNCHANGED <<status, index, head>> /\ Busy(x) /\ Goto(x, "reset")
    BY <1>6 DEF Restore, store, git, At, Busy
  <2>2. file' \subseteq Approved
    BY <1>6 DEF Restore, OnlyApproved
  <2> QED
    BY <2>1, <2>2, GotoMoves DEF OnlyApproved, Approved, Busy
<1>7. ASSUME NEW x \in Request, Mark(x) PROVE OnlyApproved'
  <2>1. UNCHANGED <<file, index, head>> /\ Busy(x) /\ Goto(x, "invalidate")
    BY <1>7 DEF Mark, git, At, Busy
  <2>2. Approved' = Approved
    BY <1>7 DEF Mark, Approved, TypeOK
  <2> QED
    BY <2>1, <2>2, GotoMoves DEF OnlyApproved, Busy
<1>8. ASSUME NEW x \in Request, Reset(x) \/ Invalidate(x) PROVE OnlyApproved'
  <2>1. UNCHANGED <<status, file, head>> /\ Done(x)
    BY <1>8 DEF Reset, Invalidate, store, git
  <2>2. index' \subseteq Approved
    BY <1>8 DEF Reset, Invalidate, git, OnlyApproved
  <2> QED
    BY <2>1, <2>2, DoneRests DEF OnlyApproved, Approved, Busy
<1>9. CASE LoadRead \/ LoadStore \/ UNCHANGED vars
  BY <1>9 DEF LoadRead, LoadStore, vars, store, git, OnlyApproved, Approved, Busy
<1>10. CASE Crash
  BY <1>10 DEF Crash, store, git, OnlyApproved, Approved, Busy, Idle
<1> QED
  BY <1>1, <1>2, <1>3, <1>4, <1>5, <1>6, <1>7, <1>8, <1>9, <1>10 DEF Next, Step

(* The dossier holds approved drafts only, however requests overlap, fail   *)
(* and crash (proposal.go:43-44).                                           *)
THEOREM ApprovedOnly == Spec => []OnlyApprovedText
<1>1. TypeOK /\ OnlyApproved => OnlyApprovedText
  BY DEF OnlyApproved, OnlyApprovedText, Approved
<1> QED
  BY TypeInit, TypeNext, ApprovedInit, ApprovedNext, <1>1, PTL DEF Spec
-----------------------------------------------------------------------------
(* What holds while no two operations have overlapped.                      *)
Landed ==
    /\ Applied \subseteq file /\ Applied \subseteq head
    /\ \A x \in Request : Attempt(x)

Rested == (\A x \in Request : ~Busy(x)) => cache \subseteq {file} /\ load \subseteq {file}

Solo == Alone /\ Landed /\ Rested

LEMMA SoloInit == Init => Solo
  BY DEF Init, Solo, Alone, Landed, Rested, Attempt, Applied, Busy, Idle

(* A step of the only request that is busy, and of no load.                 *)
LEMMA SoloStep ==
    ASSUME TypeOK, Solo, NEW x \in Request, Step(x)
    PROVE  Solo'
<1>1. Busy(x) /\ load = {} /\ \A y \in Request : y # x => ~Busy(y)
  BY DEF Step, Read, Write, Add, Commit, Sha, GitFails, Restore, Reset, Mark, Invalidate,
         At, Busy, Solo, Alone
<1>2. load' = {}
  BY <1>1 DEF Step, Read, Write, Add, Commit, Sha, GitFails, Restore, Reset, Mark, Invalidate,
              store, git
<1>3. /\ Attempt(x) /\ Applied \subseteq file /\ Applied \subseteq head
  BY DEF Solo, Landed
<1>4. \A y \in Request : y # x => apply'[y].pc = "idle"
  BY <1>1, GotoMoves, DoneRests
     DEF Step, Read, Write, Add, Commit, Sha, GitFails, Restore, Reset, Mark, Invalidate,
         Busy, TypeOK
<1>5. Alone'
  BY <1>2, <1>4 DEF Alone, Busy
<1>6. ASSUME Applied' \subseteq file', Applied' \subseteq head', Attempt(x)',
             apply'[x].pc = "idle" => cache' \subseteq {file'}
      PROVE  Solo'
  <2>1. \A y \in Request : Attempt(y)'
    BY <1>4, <1>6 DEF Attempt
  <2>2. Rested'
    BY <1>2, <1>6 DEF Rested, Busy
  <2> QED
    BY <1>5, <1>6, <2>1, <2>2 DEF Solo, Landed
<1>7. CASE Read(x)
  <2>1. UNCHANGED <<status, base, file, head, cache>>
    BY <1>7 DEF Read, store, git
  <2>2. Applied' = Applied /\ cache \subseteq {file}
    BY <1>3, <1>7, <2>1 DEF Applied, Attempt, Read, At
  <2>3. CASE Done(x)
    BY <1>3, <1>6, <2>1, <2>2, <2>3, DoneRests DEF Attempt
  <2>4. CASE ~Done(x)
    <3>1. /\ apply'[x].pc = "write" /\ apply'[x].proposal = apply[x].proposal
          /\ apply'[x].original = file /\ file = base[apply[x].proposal]
      BY <1>7, <2>4 DEF Read, TypeOK
    <3> QED
      BY <1>3, <1>6, <2>1, <2>2, <3>1 DEF Attempt
  <2> QED
    BY <2>3, <2>4
<1>8. CASE Write(x)
  <2>1. UNCHANGED <<status, base, head, cache>> /\ Goto(x, "add") /\ apply[x].pc = "write"
    BY <1>8 DEF Write, store, git, At
  <2>2. file' = apply[x].original \cup {apply[x].proposal}
    BY <1>8 DEF Write
  <2>3. Applied' = Applied
    BY <2>1 DEF Applied
  <2> QED
    BY <1>3, <1>6, <2>1, <2>2, <2>3, GotoMoves DEF Attempt
<1>9. CASE Add(x)
  <2>1. /\ UNCHANGED <<status, base, file, head, cache>>
        /\ Goto(x, "commit") /\ apply[x].pc = "add" /\ index' = file
    BY <1>9 DEF Add, store, At
  <2>2. Applied' = Applied
    BY <2>1 DEF Applied
  <2> QED
    BY <1>3, <1>6, <2>1, <2>2, GotoMoves DEF Attempt
<1>10. CASE Commit(x)
  <2>1. /\ UNCHANGED <<status, base, file, cache>>
        /\ Goto(x, "sha") /\ apply[x].pc = "commit" /\ head' = index
    BY <1>10 DEF Commit, store, At
  <2>2. Applied' = Applied
    BY <2>1 DEF Applied
  <2> QED
    BY <1>3, <1>6, <2>1, <2>2, GotoMoves DEF Attempt
<1>11. CASE Sha(x)
  <2>1. /\ UNCHANGED <<status, base, file, head, cache>>
        /\ Goto(x, "mark") /\ apply[x].pc = "sha"
    BY <1>11 DEF Sha, store, git, At
  <2>2. Applied' = Applied
    BY <2>1 DEF Applied
  <2> QED
    BY <1>3, <1>6, <2>1, <2>2, GotoMoves DEF Attempt
<1>12. CASE GitFails(x)
  <2>1. /\ UNCHANGED <<status, base, file, head, cache>>
        /\ Goto(x, "restore") /\ apply[x].pc \in {"add", "commit", "sha"}
    BY <1>12 DEF GitFails, store, git
  <2>2. Applied' = Applied
    BY <2>1 DEF Applied
  <2> QED
    BY <1>3, <1>6, <2>1, <2>2, GotoMoves DEF Attempt
<1>13. CASE Restore(x)
  <2>1. /\ UNCHANGED <<status, base, head, cache>>
        /\ Goto(x, "reset") /\ apply[x].pc = "restore" /\ file' = apply[x].original
    BY <1>13 DEF Restore, store, git, At
  <2>2. Applied' = Applied
    BY <2>1 DEF Applied
  <2> QED
    BY <1>3, <1>6, <2>1, <2>2, GotoMoves DEF Attempt
<1>14. CASE Reset(x)
  <2>1. /\ UNCHANGED <<status, base, file, head, cache>> /\ Done(x) /\ apply[x].pc = "reset"
    BY <1>14 DEF Reset, store, At
  <2>2. Applied' = Applied
    BY <2>1 DEF Applied
  <2> QED
    BY <1>3, <1>6, <2>1, <2>2, DoneRests DEF Attempt
<1>15. CASE Mark(x)
  <2>1. /\ UNCHANGED <<base, file, head, cache>>
        /\ Goto(x, "invalidate") /\ apply[x].pc = "mark"
    BY <1>15 DEF Mark, git, At
  <2>2. Applied' \subseteq Applied \cup {apply[x].proposal}
    BY <1>15 DEF Mark, Applied, TypeOK
  <2> QED
    BY <1>3, <1>6, <2>1, <2>2, GotoMoves DEF Attempt
<1>16. CASE Invalidate(x)
  <2>1. UNCHANGED <<status, base, file, head>> /\ Done(x) /\ cache' = {}
    BY <1>16 DEF Invalidate, store, git
  <2>2. Applied' = Applied
    BY <2>1 DEF Applied
  <2> QED
    BY <1>3, <1>6, <2>1, <2>2, DoneRests DEF Attempt
<1> QED
  BY <1>7, <1>8, <1>9, <1>10, <1>11, <1>12, <1>13, <1>14, <1>15, <1>16 DEF Step

LEMMA UndisturbedNext ==
    TypeOK /\ OnlyApproved /\ (~overlapped => Solo) /\ [Next]_vars => (~overlapped => Solo)'
<1> SUFFICES ASSUME TypeOK, OnlyApproved, ~overlapped => Solo, [Next]_vars, ~overlapped'
             PROVE  Solo'
  OBVIOUS
<1>1. ~overlapped /\ Solo
  BY DEF Next, Step, Propose, Decide, Begin, Read, Write, Add, Commit, Sha, GitFails, Restore,
         Reset, Mark, Invalidate, LoadRead, LoadStore, Crash, Note, vars, TypeOK
<1>2. ASSUME NEW p \in Proposal, Propose(p) \/ Decide(p) PROVE Solo'
  <2>1. UNCHANGED <<file, index, head, cache, load, apply>>
    BY <1>2 DEF Propose, Decide
  <2>2. Applied' = Applied
    BY <1>2 DEF Propose, Decide, Applied, TypeOK
  <2>3. \A q \in Proposal : status[q] \in {"approved", "applied"} => base'[q] = base[q]
    BY <1>2 DEF Propose, Decide, TypeOK
  <2>4. ASSUME NEW x \in Request PROVE Attempt(x)'
    <3>1. Busy(x) => base'[apply[x].proposal] = base[apply[x].proposal]
      BY <2>3 DEF OnlyApproved, Approved
    <3> QED
      BY <1>1, <2>1, <2>2, <3>1 DEF Solo, Landed, Attempt, Busy
  <2> QED
    BY <1>1, <2>1, <2>2, <2>4 DEF Solo, Alone, Landed, Rested, Busy
<1>3. ASSUME NEW x \in Request, NEW p \in Proposal, Begin(x, p) PROVE Solo'
  <2>1. ~Loading /\ \A y \in Request : ~Busy(y)
    BY <1>3 DEF Begin, Note
  <2>2. /\ apply'[x].pc = "read"
        /\ \A y \in Request : y # x => apply'[y] = apply[y]
    BY <1>3 DEF Begin, TypeOK
  <2>3. UNCHANGED <<status, base, file, index, head, cache, load>>
    BY <1>3 DEF Begin, store, git
  <2>4. Applied' = Applied
    BY <2>3 DEF Applied
  <2> QED
    BY <1>1, <2>1, <2>2, <2>3, <2>4 DEF Solo, Alone, Landed, Rested, Attempt, Busy, Loading
<1>4. ASSUME NEW x \in Request, Step(x) PROVE Solo'
  BY <1>1, <1>4, SoloStep
<1>5. CASE LoadRead
  <2>1. \A y \in Request : ~Busy(y)
    BY <1>5 DEF LoadRead, Note
  <2>2. UNCHANGED <<status, base, file, index, head, cache, apply>> /\ load' = {file}
    BY <1>5 DEF LoadRead, store, git
  <2> QED
    BY <1>1, <2>1, <2>2 DEF Solo, Alone, Landed, Rested, Attempt, Busy, Applied
<1>6. CASE LoadStore
  <2>1. \A y \in Request : ~Busy(y)
    BY <1>1, <1>6 DEF LoadStore, Solo, Alone, Loading
  <2>2. UNCHANGED <<status, base, file, index, head, apply>> /\ load' = {} /\ cache' = load
    BY <1>6 DEF LoadStore, store, git
  <2> QED
    BY <1>1, <2>1, <2>2 DEF Solo, Alone, Landed, Rested, Attempt, Busy, Applied
<1>7. CASE Crash
  <2>1. \A y \in Request : apply'[y].pc = "idle"
    BY <1>7 DEF Crash, Idle
  <2>2. UNCHANGED <<status, base, file, index, head>> /\ load' = {} /\ cache' = {}
    BY <1>7 DEF Crash, store, git
  <2> QED
    BY <1>1, <2>1, <2>2 DEF Solo, Alone, Landed, Rested, Attempt, Busy, Applied
<1>8. CASE UNCHANGED vars
  BY <1>1, <1>8 DEF vars, Solo, Alone, Landed, Rested, Attempt, Busy, Applied
<1> QED
  BY <1>2, <1>3, <1>4, <1>5, <1>6, <1>7, <1>8 DEF Next

IInv == TypeOK /\ OnlyApproved /\ (~overlapped => Solo)

LEMMA Inductive == Spec => []IInv
<1>1. Init => IInv
  BY TypeInit, ApprovedInit, SoloInit DEF IInv
<1>2. IInv /\ [Next]_vars => IInv'
  BY TypeNext, ApprovedNext, UndisturbedNext DEF IInv
<1> QED
  BY <1>1, <1>2, PTL DEF Spec

(* An applied draft stays in the file and in the repository, through the    *)
(* failures, rollbacks and crashes of later applies, as long as no two      *)
(* operations overlap (service.go:126-136).                                 *)
THEOREM Stays == Spec => []AppliedStays
<1>1. IInv => AppliedStays
  BY DEF IInv, Solo, Landed, AppliedStays, Applied
<1> QED
  BY Inductive, <1>1, PTL

(* A rolled back apply leaves the text its proposal was made against        *)
(* (service.go:97-98, 127-129).                                             *)
THEOREM StartsClean == Spec => []RetryStartsClean
<1>1. IInv => RetryStartsClean
  BY DEF IInv, Solo, Landed, Attempt, RetryStartsClean, At
<1> QED
  BY Inductive, <1>1, PTL

(* Between applies the cache holds the file as it is (loader.go:92-98).     *)
THEOREM Fresh == Spec => []CacheIsFresh
<1>1. IInv => CacheIsFresh
  BY DEF IInv, Solo, Rested, CacheIsFresh
<1> QED
  BY Inductive, <1>1, PTL
=============================================================================
