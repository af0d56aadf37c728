--------------------------- MODULE Receipts_proofs ---------------------------
(***************************************************************************)
(* Two facts about deferred receipts, for any receipts, batch and number of *)
(* crashes: outside crashes none is left claimed for nothing, and the file  *)
(* store with its clerk implements Inbox.  The order of the ready list      *)
(* plays no part in either.                                                 *)
(***************************************************************************)
EXTENDS Receipts, TLAPS

(* What both proofs need to know of the types; the sequences stay out.      *)
Shape ==
    /\ entry \in [Receipt -> Entry]
    /\ proposals \in [Receipt -> 0..2]
    /\ crashes \in Nat
    /\ clerk = [pc |-> clerk.pc, receipt |-> clerk.receipt,
                rest |-> clerk.rest, failed |-> clerk.failed]

ClaimedIsThere == \A r \in Receipt : entry[r].claimed => entry[r].there

(* In the file store nothing happens between a claim and its candidate, or  *)
(* in the middle of a release or of a purge.                                *)
FilePlaces ==
    /\ claiming = {} /\ ~Locked
    /\ clerk.pc \notin {"write", "clear", "reopen", "requeue", "store"}

(* A receipt of the file store that nobody forgets with its person: it is   *)
(* claimed when it has its candidate, and while the clerk has it it has     *)
(* none.                                                                    *)
Ordinary(r) ==
    /\ entry[r].gone => ~entry[r].there
    /\ proposals[r] # 0 => proposals[r] = 1 /\ entry[r].claimed
    /\ entry[r].claimed =>
         entry[r].there /\ ~entry[r].withdrawn /\ ~entry[r].gone
    /\ clerk.receipt = r /\ clerk.pc \in {"ask", "release"} =>
         entry[r].claimed /\ proposals[r] = 0

FileIsOrderly ==
    backend = "file" => FilePlaces /\ \A r \in Receipt \ Bound : Ordinary(r)

IInv == Shape /\ ClaimedIsThere /\ NothingIsStuck /\ FileIsOrderly
-----------------------------------------------------------------------------
LEMMA Blanks ==
    /\ Blank \in Entry /\ Gone \in Entry
    /\ ~Blank.there /\ ~Blank.claimed /\ ~Blank.withdrawn /\ ~Blank.gone
    /\ ~Gone.there /\ ~Gone.claimed /\ ~Gone.withdrawn /\ Gone.gone
    BY DEF Blank, Gone, Entry

LEMMA InitIInv == Init => IInv
    <1> SUFFICES ASSUME Init PROVE IInv
      OBVIOUS
    <1>1. Shape
      BY Blanks DEF Init, Shape, Asleep
    <1>2. \A r \in Receipt : entry[r] = Blank /\ proposals[r] = 0
      BY DEF Init
    <1>3. clerk.pc = "asleep" /\ clerk.receipt = NoReceipt /\ claiming = {}
      BY DEF Init, Asleep
    <1>4. ClaimedIsThere /\ NothingIsStuck
      BY <1>2, Blanks DEF ClaimedIsThere, NothingIsStuck
    <1>5. FileIsOrderly
      BY <1>2, <1>3, Blanks DEF Init, Purge, FileIsOrderly, FilePlaces, Locked, Ordinary
    <1> QED
      BY <1>1, <1>4, <1>5 DEF IInv

(* Where From leaves the clerk.                                             *)
LEMMA FromIs ==
    ASSUME NEW rest
    PROVE  /\ From(rest).pc \in {"asleep", "reserve"}
           /\ From(rest) = [pc |-> From(rest).pc, receipt |-> From(rest).receipt,
                            rest |-> From(rest).rest,
                            failed |-> From(rest).failed]
    BY DEF From, Asleep

(* The entry a step sets, and the ones it leaves.                           *)
LEMMA SetIs ==
    ASSUME Shape, NEW r, NEW e, r \in Receipt => e \in Entry, Set(r, e)
    PROVE  /\ entry' \in [Receipt -> Entry]
           /\ \A q \in Receipt : entry'[q] = IF q = r THEN e ELSE entry[q]
    BY DEF Shape, Set

LEMMA ClaimedIs ==
    ASSUME Shape, NEW r \in Receipt
    PROVE  /\ Claimed(r) \in Entry
           /\ Claimed(r).there /\ Claimed(r).claimed
           /\ Claimed(r).withdrawn = entry[r].withdrawn
           /\ Claimed(r).gone = entry[r].gone
    BY DEF Shape, Claimed, Entry

LEMMA ProposeIs ==
    ASSUME Shape, NEW r, Propose(r)
    PROVE  /\ proposals' \in [Receipt -> 0..2]
           /\ \A q \in Receipt : proposals'[q] =
                IF q = r THEN IF proposals[q] = 0 THEN 1 ELSE 2
                ELSE proposals[q]
    <1> DEFINE n == IF proposals[r] = 0 THEN 1 ELSE 2
    <1>1. n \in 0..2
      OBVIOUS
    <1>2. proposals' = [proposals EXCEPT ![r] = n]
      BY DEF Propose
    <1> HIDE DEF n
    <1>3. /\ proposals' \in [Receipt -> 0..2]
          /\ \A q \in Receipt :
               proposals'[q] = IF q = r THEN n ELSE proposals[q]
      BY <1>1, <1>2 DEF Shape
    <1> QED
      BY <1>3 DEF n

(* The place the clerk goes to.                                             *)
LEMMA GotoIs ==
    ASSUME Shape, NEW pc, Goto(pc)
    PROVE  /\ clerk'.pc = pc /\ clerk'.receipt = clerk.receipt
           /\ clerk' = [pc |-> clerk'.pc, receipt |-> clerk'.receipt,
                        rest |-> clerk'.rest, failed |-> clerk'.failed]
    BY DEF Shape, Goto

LEMMA ContinueIs ==
    ASSUME Continue
    PROVE  /\ clerk'.pc \in {"asleep", "reserve"}
           /\ clerk' = [pc |-> clerk'.pc, receipt |-> clerk'.receipt,
                        rest |-> clerk'.rest, failed |-> clerk'.failed]
    BY FromIs DEF Continue

LEMMA OnwardsIs ==
    ASSUME Shape, Onwards
    PROVE  /\ clerk'.pc \in {"asleep", "reserve", "fallback"}
           /\ clerk' = [pc |-> clerk'.pc, receipt |-> clerk'.receipt,
                        rest |-> clerk'.rest, failed |-> clerk'.failed]
    BY GotoIs, ContinueIs DEF Onwards

(* A step of Inbox: no fate moves, or one does, from open.                  *)
FateStep == [Inb!InboxNext]_[r \in Receipt |-> Shown(r)]

LEMMA NoFateMoves ==
    ASSUME \A q \in Receipt : Shown(q)' = Shown(q)
    PROVE  FateStep
    BY DEF FateStep

LEMMA OneFateMoves ==
    ASSUME NEW r \in Receipt,
           \A q \in Receipt \ {r} : Shown(q)' = Shown(q),
           \/ Shown(r)' = Shown(r)
           \/ Shown(r) = "open" /\ Shown(r)' \in {"taken", "dropped"}
    PROVE  FateStep
    <1>1. CASE Shown(r)' = Shown(r)
      BY <1>1, NoFateMoves
    <1>2. CASE Shown(r) = "open" /\ Shown(r)' \in {"taken", "dropped"}
      <2>1. Inb!End(r, Shown(r)')
        BY <1>2 DEF Inb!End
      <2> QED
        BY <1>2, <2>1 DEF FateStep, Inb!InboxNext
    <1> QED
      BY <1>1, <1>2
-----------------------------------------------------------------------------
(* The owner's steps.                                                       *)
LEMMA DeferStep ==
    ASSUME IInv, NEW r \in Receipt, Defer(r)
    PROVE  IInv' /\ FateStep
    <1> DEFINE e == [Blank EXCEPT !.there = TRUE]
    <1>1. e \in Entry /\ e.there /\ ~e.claimed /\ ~e.withdrawn /\ ~e.gone
      BY DEF Blank, Entry
    <1> HIDE DEF e
    <1>2. Set(r, e) /\ entry[r] = Blank
      BY DEF Defer, e
    <1>3. UNCHANGED <<backend, proposals, claiming, clerk, purge, crashes>>
      BY DEF Defer
    <1>4. /\ entry' \in [Receipt -> Entry]
          /\ \A q \in Receipt : entry'[q] = IF q = r THEN e ELSE entry[q]
      BY <1>1, <1>2, SetIs DEF IInv
    <1>5. Shape'
      BY <1>3, <1>4 DEF IInv, Shape
    <1>6. ClaimedIsThere'
      BY <1>1, <1>4 DEF IInv, ClaimedIsThere
    <1>7. NothingIsStuck'
      BY <1>1, <1>3, <1>4 DEF IInv, NothingIsStuck
    <1>8. FileIsOrderly'
      BY <1>1, <1>2, <1>3, <1>4, Blanks
         DEF IInv, FileIsOrderly, FilePlaces, Locked, Ordinary
    <1>9. FateStep
      <2>1. \A q \in Receipt : Shown(q)' = Shown(q)
        BY <1>1, <1>2, <1>3, <1>4, Blanks DEF Shown, FateOf, Dropped
      <2> QED
        BY <2>1, NoFateMoves
    <1> QED
      BY <1>5, <1>6, <1>7, <1>8, <1>9 DEF IInv

LEMMA WithdrawStep ==
    ASSUME IInv, NEW r \in Receipt, Withdraw(r)
    PROVE  IInv' /\ FateStep
    <1> DEFINE e == [entry[r] EXCEPT !.withdrawn = TRUE]
    <1>1. /\ e \in Entry /\ e.there = entry[r].there
          /\ e.claimed = entry[r].claimed /\ e.withdrawn
          /\ e.gone = entry[r].gone
      BY DEF IInv, Shape, Entry
    <1> HIDE DEF e
    <1>2. Set(r, e) /\ entry[r].there /\ ~entry[r].claimed
      BY DEF Withdraw, e
    <1>3. UNCHANGED <<backend, proposals, claiming, clerk, purge, crashes>>
      BY DEF Withdraw
    <1>4. /\ entry' \in [Receipt -> Entry]
          /\ \A q \in Receipt : entry'[q] = IF q = r THEN e ELSE entry[q]
      BY <1>1, <1>2, SetIs DEF IInv
    <1>5. Shape'
      BY <1>3, <1>4 DEF IInv, Shape
    <1>6. ClaimedIsThere'
      BY <1>1, <1>4 DEF IInv, ClaimedIsThere
    <1>7. NothingIsStuck'
      BY <1>1, <1>2, <1>3, <1>4 DEF IInv, NothingIsStuck
    <1>8. FileIsOrderly'
      BY <1>1, <1>2, <1>3, <1>4
         DEF IInv, FileIsOrderly, FilePlaces, Locked, Ordinary
    <1>9. FateStep
      <2>1. \A q \in Receipt \ {r} : Shown(q)' = Shown(q)
        BY <1>3, <1>4 DEF Shown, FateOf, Dropped
      <2>2. Shown(r) \in {"open", "dropped"}
        BY <1>2 DEF IInv, FileIsOrderly, Ordinary, Shown, FateOf
      <2>3. Shown(r)' = "dropped" \/ Shown(r)' = Shown(r)
        BY <1>1, <1>2, <1>3, <1>4
           DEF IInv, FileIsOrderly, Ordinary, Shown, FateOf, Dropped
      <2> QED
        BY <2>1, <2>2, <2>3, OneFateMoves
    <1> QED
      BY <1>5, <1>6, <1>7, <1>8, <1>9 DEF IInv

LEMMA ForgetStep ==
    ASSUME IInv, NEW r \in Receipt, Forget(r)
    PROVE  IInv' /\ FateStep
    <1>2. Set(r, Gone) /\ entry[r].there /\ ~entry[r].claimed
      BY DEF Forget
    <1>3. UNCHANGED <<backend, proposals, claiming, clerk, purge, crashes>>
      BY DEF Forget
    <1>4. /\ entry' \in [Receipt -> Entry]
          /\ \A q \in Receipt : entry'[q] = IF q = r THEN Gone ELSE entry[q]
      BY <1>2, Blanks, SetIs DEF IInv
    <1>5. Shape'
      BY <1>3, <1>4 DEF IInv, Shape
    <1>6. ClaimedIsThere'
      BY <1>4, Blanks DEF IInv, ClaimedIsThere
    <1>7. NothingIsStuck'
      BY <1>3, <1>4, Blanks DEF IInv, NothingIsStuck
    <1>8. FileIsOrderly'
      BY <1>2, <1>3, <1>4, Blanks
         DEF IInv, FileIsOrderly, FilePlaces, Locked, Ordinary
    <1>9. FateStep
      <2>1. \A q \in Receipt \ {r} : Shown(q)' = Shown(q)
        BY <1>3, <1>4 DEF Shown, FateOf, Dropped
      <2>2. Shown(r) \in {"open", "dropped"}
        BY <1>2 DEF IInv, FileIsOrderly, Ordinary, Shown, FateOf
      <2>3. Shown(r)' = "dropped" \/ Shown(r)' = Shown(r)
        BY <1>2, <1>3, <1>4, Blanks
           DEF IInv, FileIsOrderly, Ordinary, Shown, FateOf, Dropped
      <2> QED
        BY <2>1, <2>2, <2>3, OneFateMoves
    <1> QED
      BY <1>5, <1>6, <1>7, <1>8, <1>9 DEF IInv

(* Whatever deletes receipts that may be forgotten with their person.       *)
LEMMA Deleted ==
    ASSUME IInv, UNCHANGED <<backend, proposals, claiming, clerk, crashes>>,
           entry' \in [Receipt -> Entry],
           \A q \in Receipt : \/ entry'[q] = entry[q]
                              \/ entry'[q] = Gone /\ (backend = "file" => q \in Bound),
           backend = "file" => ~Locked'
    PROVE  IInv' /\ FateStep
    <1>1. Shape' /\ ClaimedIsThere'
      BY Blanks DEF IInv, Shape, ClaimedIsThere
    <1>2. NothingIsStuck'
      BY Blanks DEF IInv, NothingIsStuck
    <1>3. FileIsOrderly'
      BY DEF IInv, FileIsOrderly, FilePlaces, Ordinary
    <1>4. \A q \in Receipt : Shown(q)' = Shown(q)
      BY DEF Shown, FateOf, Dropped
    <1> QED
      BY <1>1, <1>2, <1>3, <1>4, NoFateMoves DEF IInv

LEMMA HardForgetStep ==
    ASSUME IInv, HardForget
    PROVE  IInv' /\ FateStep
    <1>1. UNCHANGED <<backend, proposals, claiming, clerk, crashes>>
      BY DEF HardForget
    <1>2. CASE backend = "file"
      <2>1. /\ entry' \in [Receipt -> Entry]
            /\ \A q \in Receipt : entry'[q] = IF q \in Bound /\ entry[q].there
                                              THEN Gone ELSE entry[q]
        BY <1>2, Blanks DEF IInv, Shape, HardForget
      <2>2. ~Locked'
        BY <1>2 DEF HardForget, Purge, Locked
      <2> QED
        BY <1>1, <2>1, <2>2, Deleted
    <1>3. CASE backend # "file"
      BY <1>1, <1>3, Deleted DEF HardForget, IInv, Shape
    <1> QED
      BY <1>2, <1>3

LEMMA PurgeStep ==
    ASSUME IInv, Purging
    PROVE  IInv' /\ FateStep
    <1>1. UNCHANGED <<backend, proposals, claiming, clerk, crashes>>
      BY DEF Purging, PurgeLook, PurgeDelete, PurgeRemove
    <1>2. backend # "file"
      BY DEF IInv, FileIsOrderly, FilePlaces, Locked, Purging, PurgeLook,
             PurgeDelete, PurgeRemove
    <1>3. CASE UNCHANGED entry
      BY <1>1, <1>2, <1>3, Deleted DEF IInv, Shape
    <1>4. CASE Set(purge.receipt, Gone)
      <2>1. /\ entry' \in [Receipt -> Entry]
            /\ \A q \in Receipt :
                 entry'[q] = IF q = purge.receipt THEN Gone ELSE entry[q]
        BY <1>4, Blanks, SetIs DEF IInv
      <2> QED
        BY <1>1, <1>2, <2>1, Deleted
    <1> QED
      BY <1>3, <1>4 DEF Purging, PurgeLook, PurgeDelete, PurgeRemove

LEMMA ClaimStep ==
    ASSUME IInv, NEW r \in Receipt, Claim(r)
    PROVE  IInv' /\ FateStep
    <1>1. /\ Open(r) /\ Set(r, Claimed(r))
          /\ UNCHANGED <<backend, clerk, purge, crashes>>
      BY DEF Claim
    <1>2. /\ entry' \in [Receipt -> Entry]
          /\ \A q \in Receipt :
               entry'[q] = IF q = r THEN Claimed(r) ELSE entry[q]
      BY <1>1, ClaimedIs, SetIs DEF IInv
    <1>3. ClaimedIsThere'
      BY <1>2, ClaimedIs DEF IInv, ClaimedIsThere
    <1>4. CASE backend = "file"
      <2>1. Propose(r) /\ claiming' = claiming
        BY <1>4 DEF Claim
      <2>2. /\ proposals' \in [Receipt -> 0..2]
            /\ \A q \in Receipt : proposals'[q] =
                 IF q = r THEN IF proposals[q] = 0 THEN 1 ELSE 2
                 ELSE proposals[q]
        BY <2>1, ProposeIs DEF IInv
      <2>3. Shape'
        BY <1>1, <1>2, <2>2 DEF IInv, Shape
      <2>4. NothingIsStuck'
        BY <1>1, <1>2, <2>1, <2>2 DEF IInv, Shape, NothingIsStuck
      <2>5. FileIsOrderly'
        BY <1>1, <1>2, <2>1, <2>2, ClaimedIs
           DEF IInv, FileIsOrderly, FilePlaces, Locked, Ordinary, Open
      <2>6. \A q \in Receipt \ {r} : Shown(q)' = Shown(q)
        BY <1>1, <1>2, <2>2 DEF Shown, FateOf, Dropped
      <2>7. \/ Shown(r)' = Shown(r)
            \/ Shown(r) = "open" /\ Shown(r)' \in {"taken", "dropped"}
        BY <1>1, <1>2, <1>4, <2>2, ClaimedIs
           DEF IInv, FileIsOrderly, Ordinary, Shown, FateOf, Dropped, Open
      <2> QED
        BY <1>3, <2>3, <2>4, <2>5, <2>6, <2>7, OneFateMoves DEF IInv
    <1>5. CASE backend # "file"
      <2>1. claiming' = claiming \cup {r} /\ proposals' = proposals
        BY <1>5 DEF Claim
      <2>2. Shape'
        BY <1>1, <1>2, <2>1 DEF IInv, Shape
      <2>3. NothingIsStuck'
        BY <1>1, <1>2, <2>1 DEF IInv, NothingIsStuck
      <2>4. FileIsOrderly' /\ FateStep
        BY <1>1, <1>5, NoFateMoves DEF FileIsOrderly, Shown
      <2> QED
        BY <1>3, <2>2, <2>3, <2>4 DEF IInv
    <1> QED
      BY <1>4, <1>5

LEMMA ClaimStoredStep ==
    ASSUME IInv, NEW r \in Receipt, ClaimStored(r)
    PROVE  IInv' /\ FateStep
    <1>1. /\ r \in claiming /\ claiming' = claiming \ {r}
          /\ UNCHANGED <<backend, entry, clerk, purge, crashes>>
      BY DEF ClaimStored
    <1>2. backend # "file"
      BY <1>1 DEF IInv, FileIsOrderly, FilePlaces, Locked
    <1>3. /\ proposals' \in [Receipt -> 0..2]
          /\ \A q \in Receipt : proposals'[q] =
               IF q = r /\ entry[q].there
               THEN IF proposals[q] = 0 THEN 1 ELSE 2 ELSE proposals[q]
      <2>1. CASE entry[r].there
        BY <2>1, ProposeIs DEF ClaimStored, IInv
      <2>2. CASE ~entry[r].there
        BY <2>2 DEF ClaimStored, IInv, Shape
      <2> QED
        BY <2>1, <2>2
    <1>4. Shape' /\ ClaimedIsThere'
      BY <1>1, <1>3 DEF IInv, Shape, ClaimedIsThere
    <1>5. NothingIsStuck'
      BY <1>1, <1>3 DEF IInv, Shape, ClaimedIsThere, NothingIsStuck
    <1>6. FileIsOrderly' /\ FateStep
      BY <1>1, <1>2, NoFateMoves DEF FileIsOrderly, Shown
    <1> QED
      BY <1>4, <1>5, <1>6 DEF IInv
-----------------------------------------------------------------------------
(* The clerk's steps.  Many leave the stores alone and lead away from a     *)
(* receipt, or to a place where nothing need be claimed.                    *)
LEMMA ClerkMoves ==
    ASSUME IInv, UNCHANGED <<backend, entry, proposals>>, crashes' \in Nat,
           clerk' = [pc |-> clerk'.pc, receipt |-> clerk'.receipt,
                     rest |-> clerk'.rest, failed |-> clerk'.failed],
           NothingIsStuck',
           backend = "file" => FilePlaces',
           clerk'.pc \in {"ask", "release"} =>
              clerk.pc \in {"ask", "release"} /\ clerk'.receipt = clerk.receipt
    PROVE  IInv' /\ FateStep
    <1>1. Shape' /\ ClaimedIsThere'
      BY DEF IInv, Shape, ClaimedIsThere
    <1>2. FileIsOrderly'
      BY DEF IInv, FileIsOrderly, Ordinary
    <1>3. FateStep
      BY NoFateMoves DEF Shown, FateOf, Dropped
    <1> QED
      BY <1>1, <1>2, <1>3 DEF IInv

LEMMA WakeStep ==
    ASSUME IInv, Wake
    PROVE  IInv' /\ FateStep
    <1>1. /\ clerk.pc = "asleep" /\ clerk' = From(Ready)
          /\ UNCHANGED <<backend, entry, proposals, claiming, purge, crashes>>
      BY DEF Wake, At
    <1>2. /\ clerk'.pc \in {"asleep", "reserve"}
          /\ clerk' = [pc |-> clerk'.pc, receipt |-> clerk'.receipt,
                       rest |-> clerk'.rest, failed |-> clerk'.failed]
      BY <1>1, FromIs
    <1>3. NothingIsStuck'
      BY <1>1 DEF IInv, NothingIsStuck
    <1>4. backend = "file" => FilePlaces'
      BY <1>1, <1>2 DEF IInv, FileIsOrderly, FilePlaces, Locked
    <1> QED
      BY <1>1, <1>2, <1>3, <1>4, ClerkMoves DEF IInv, Shape

LEMMA NotProposedStep ==
    ASSUME IInv, NotProposed
    PROVE  IInv' /\ FateStep
    <1>1. /\ clerk.pc = "ask"
          /\ UNCHANGED <<backend, entry, proposals, claiming, purge, crashes>>
      BY DEF NotProposed, At
    <1>2. /\ clerk'.pc = "release" /\ clerk'.receipt = clerk.receipt
          /\ clerk' = [pc |-> clerk'.pc, receipt |-> clerk'.receipt,
                       rest |-> clerk'.rest, failed |-> clerk'.failed]
      BY DEF NotProposed, IInv, Shape
    <1>3. NothingIsStuck'
      BY <1>1, <1>2 DEF IInv, NothingIsStuck
    <1>4. backend = "file" => FilePlaces'
      BY <1>1, <1>2 DEF IInv, FileIsOrderly, FilePlaces, Locked
    <1> QED
      BY <1>1, <1>2, <1>3, <1>4, ClerkMoves DEF IInv, Shape

LEMMA RequeueStep ==
    ASSUME IInv, Requeue
    PROVE  IInv' /\ FateStep
    <1>1. /\ clerk.pc = "requeue" /\ Onwards
          /\ UNCHANGED <<backend, entry, proposals, claiming, purge, crashes>>
      BY DEF Requeue, At
    <1>2. /\ clerk'.pc \in {"asleep", "reserve", "fallback"}
          /\ clerk' = [pc |-> clerk'.pc, receipt |-> clerk'.receipt,
                       rest |-> clerk'.rest, failed |-> clerk'.failed]
      BY <1>1, OnwardsIs DEF IInv
    <1>3. NothingIsStuck'
      BY <1>1 DEF IInv, NothingIsStuck
    <1>4. backend = "file" => FilePlaces'
      BY <1>1, <1>2 DEF IInv, FileIsOrderly, FilePlaces, Locked
    <1> QED
      BY <1>1, <1>2, <1>3, <1>4, ClerkMoves DEF IInv, Shape

LEMMA CrashStep ==
    ASSUME IInv, Crash
    PROVE  IInv' /\ FateStep
    <1>1. /\ clerk' = Asleep /\ claiming' = {} /\ crashes' = crashes + 1
          /\ UNCHANGED <<backend, entry, proposals>>
      BY DEF Crash
    <1>2. NothingIsStuck' /\ crashes' \in Nat
      BY <1>1 DEF IInv, Shape, NothingIsStuck
    <1>3. backend = "file" => FilePlaces'
      <2> SUFFICES ASSUME backend = "file" PROVE FilePlaces'
        BY <1>1
      <2>1. purge' = purge /\ ~Locked
        BY <1>1 DEF IInv, FileIsOrderly, FilePlaces, Crash
      <2> QED
        BY <1>1, <2>1 DEF FilePlaces, Locked, Asleep
    <1> QED
      BY <1>1, <1>2, <1>3, ClerkMoves DEF Asleep

(* The two steps that take a receipt: by the file store, and by the write   *)
(* of the Redis store.                                                      *)
LEMMA TakenByClerk ==
    ASSUME IInv, Set(clerk.receipt, Claimed(clerk.receipt)), Goto("ask"),
           UNCHANGED <<backend, proposals, claiming, purge, crashes>>,
           backend = "file" => Open(clerk.receipt)
    PROVE  IInv' /\ FateStep
    <1> DEFINE r == clerk.receipt
    <1>1. /\ entry' \in [Receipt -> Entry]
          /\ \A q \in Receipt :
               entry'[q] = IF q = r THEN Claimed(r) ELSE entry[q]
      BY ClaimedIs, SetIs DEF IInv
    <1>2. /\ clerk'.pc = "ask" /\ clerk'.receipt = r
          /\ clerk' = [pc |-> clerk'.pc, receipt |-> clerk'.receipt,
                       rest |-> clerk'.rest, failed |-> clerk'.failed]
      BY GotoIs DEF IInv
    <1>3. Shape' /\ ClaimedIsThere'
      BY <1>1, <1>2, ClaimedIs DEF IInv, Shape, ClaimedIsThere
    <1>4. NothingIsStuck'
      <2> SUFFICES ASSUME crashes = 0, NEW q \in Receipt, entry'[q].claimed,
                          q # r
                   PROVE  proposals[q] > 0 \/ q \in claiming
        BY <1>2 DEF NothingIsStuck
      <2>1. entry[q].claimed
        BY <1>1
      <2>2. \/ proposals[q] > 0 \/ q \in claiming
        BY <2>1 DEF IInv, NothingIsStuck
      <2> QED
        BY <2>2
    <1>5. FileIsOrderly'
      BY <1>1, <1>2, ClaimedIs
         DEF IInv, FileIsOrderly, FilePlaces, Locked, Ordinary, Open
    <1>6. FateStep
      <2>1. \A q \in Receipt : Dropped(q)' = Dropped(q)
        BY <1>1, ClaimedIs DEF IInv, Dropped
      <2>2. \A q \in Receipt : Shown(q)' = Shown(q)
        BY <2>1 DEF Shown, FateOf
      <2> QED
        BY <2>2, NoFateMoves
    <1> QED
      BY <1>3, <1>4, <1>5, <1>6 DEF IInv

LEMMA ReserveStep ==
    ASSUME IInv, Reserve
    PROVE  IInv' /\ FateStep
    <1>1. /\ clerk.pc = "reserve"
          /\ UNCHANGED <<backend, proposals, claiming, purge, crashes>>
      BY DEF Reserve, At
    <1>2. CASE entry' = entry /\ Continue
      <2>1. NothingIsStuck'
        BY <1>1, <1>2 DEF IInv, NothingIsStuck
      <2>2. backend = "file" => FilePlaces'
        BY <1>1, <1>2, ContinueIs DEF IInv, FileIsOrderly, FilePlaces, Locked
      <2> QED
        BY <1>1, <1>2, <2>1, <2>2, ContinueIs, ClerkMoves DEF IInv, Shape
    <1>3. CASE entry' = entry /\ Goto("write") /\ backend # "file"
      <2>1. NothingIsStuck'
        BY <1>1, <1>3 DEF IInv, NothingIsStuck
      <2> QED
        BY <1>1, <1>3, <2>1, GotoIs, ClerkMoves DEF IInv, Shape
    <1>4. CASE /\ Set(clerk.receipt, Claimed(clerk.receipt)) /\ Goto("ask")
               /\ Open(clerk.receipt)
      BY <1>1, <1>4, TakenByClerk
    <1> QED
      BY <1>2, <1>3, <1>4 DEF Reserve

LEMMA ReserveWriteStep ==
    ASSUME IInv, ReserveWrite
    PROVE  IInv' /\ FateStep
    <1>1. backend # "file"
      BY DEF IInv, FileIsOrderly, FilePlaces, Locked, ReserveWrite, At
    <1> QED
      BY <1>1, TakenByClerk DEF ReserveWrite

LEMMA ProposedStep ==
    ASSUME IInv, Proposed
    PROVE  IInv' /\ FateStep
    <1>0. PICK r : r = clerk.receipt
      OBVIOUS
    <1>1. /\ clerk.pc = "ask" /\ Continue
          /\ UNCHANGED <<backend, entry, claiming, purge, crashes>>
      BY DEF Proposed, At
    <1>2. /\ proposals' \in [Receipt -> 0..2]
          /\ \A q \in Receipt : proposals'[q] =
               IF q = r THEN IF proposals[q] = 0 THEN 1 ELSE 2
               ELSE proposals[q]
      BY <1>0, ProposeIs DEF IInv, Proposed
    <1>3. Shape' /\ ClaimedIsThere'
      BY <1>0, <1>1, <1>2, ContinueIs DEF IInv, Shape, ClaimedIsThere
    <1>4. NothingIsStuck'
      BY <1>0, <1>1, <1>2 DEF IInv, Shape, NothingIsStuck
    <1>5. FileIsOrderly'
      BY <1>0, <1>1, <1>2, ContinueIs DEF IInv, FileIsOrderly, FilePlaces, Locked, Ordinary
    <1>6. FateStep
      <2>1. \A q \in Receipt \ {r} : Shown(q)' = Shown(q)
        BY <1>0, <1>1, <1>2 DEF Shown, FateOf, Dropped
      <2>2. ASSUME r \in Receipt, backend = "file", r \notin Bound
            PROVE  Shown(r) = "open" /\ Shown(r)' = "taken"
        BY <1>0, <1>1, <1>2, <2>2
           DEF IInv, FileIsOrderly, Ordinary, Shown, FateOf, Dropped
      <2>3. ASSUME ~(r \in Receipt /\ backend = "file" /\ r \notin Bound)
            PROVE  \A q \in Receipt : Shown(q)' = Shown(q)
        BY <1>1, <2>1, <2>3 DEF Shown
      <2> QED
        BY <2>1, <2>2, <2>3, OneFateMoves, NoFateMoves
    <1> QED
      BY <1>3, <1>4, <1>5, <1>6 DEF IInv

(* What the end of a release does to the stores.                            *)
LEMMA GivenBack ==
    ASSUME IInv, NEW e, Set(clerk.receipt, e),
           clerk.pc \in {"release", "clear", "reopen"},
           clerk.receipt \in Receipt =>
              /\ e \in Entry /\ e.there /\ ~e.claimed
              /\ e.withdrawn = entry[clerk.receipt].withdrawn
              /\ e.gone = entry[clerk.receipt].gone,
           backend = "file" => entry[clerk.receipt].there,
           clerk'.pc \in {"asleep", "reserve", "fallback", "requeue"},
           clerk'.pc = "requeue" => backend # "file",
           clerk' = [pc |-> clerk'.pc, receipt |-> clerk'.receipt,
                     rest |-> clerk'.rest, failed |-> clerk'.failed],
           UNCHANGED <<backend, proposals, claiming, purge, crashes>>
    PROVE  IInv' /\ FateStep
    <1> DEFINE r == clerk.receipt
    <1>1. /\ entry' \in [Receipt -> Entry]
          /\ \A q \in Receipt : entry'[q] = IF q = r THEN e ELSE entry[q]
      BY SetIs DEF IInv
    <1>2. Shape' /\ ClaimedIsThere'
      BY <1>1 DEF IInv, Shape, ClaimedIsThere
    <1>3. NothingIsStuck'
      BY <1>1 DEF IInv, NothingIsStuck
    <1>4. FileIsOrderly'
      BY <1>1 DEF IInv, FileIsOrderly, FilePlaces, Locked, Ordinary
    <1>5. FateStep
      <2>1. \A q \in Receipt : Dropped(q)' = Dropped(q)
        BY <1>1 DEF Dropped
      <2>2. \A q \in Receipt : Shown(q)' = Shown(q)
        BY <2>1 DEF Shown, FateOf
      <2> QED
        BY <2>2, NoFateMoves
    <1> QED
      BY <1>2, <1>3, <1>4, <1>5 DEF IInv

LEMMA ReleaseStep ==
    ASSUME IInv, Release
    PROVE  IInv' /\ FateStep
    <1> DEFINE r == clerk.receipt
               e == [entry[r] EXCEPT !.claimed = FALSE]
    <1>1. /\ clerk.pc = "release"
          /\ UNCHANGED <<backend, proposals, claiming, purge, crashes>>
      BY DEF Release, At
    <1>2. CASE Onwards /\ UNCHANGED entry /\ ~entry[r].there
      <2>1. NothingIsStuck'
        BY <1>1, <1>2 DEF IInv, ClaimedIsThere, NothingIsStuck
      <2>2. backend = "file" => FilePlaces'
        BY <1>1, <1>2, OnwardsIs DEF IInv, FileIsOrderly, FilePlaces, Locked
      <2> QED
        BY <1>1, <1>2, <2>1, <2>2, OnwardsIs, ClerkMoves DEF IInv, Shape
    <1>3. CASE Set(r, e) /\ Onwards /\ entry[r].there
      <2>1. r \in Receipt =>
              /\ e \in Entry /\ e.there /\ ~e.claimed
              /\ e.withdrawn = entry[r].withdrawn /\ e.gone = entry[r].gone
        BY <1>3 DEF IInv, Shape, Entry
      <2> HIDE DEF e
      <2>2. Shape
        BY DEF IInv
      <2> QED
        BY <1>1, <1>3, <2>1, <2>2, OnwardsIs, GivenBack
    <1>4. CASE /\ \/ Goto("clear")
                  \/ Goto("reopen")
               /\ UNCHANGED entry /\ backend # "file"
      <2>1. /\ clerk'.pc \in {"clear", "reopen"} /\ clerk'.receipt = r
            /\ clerk' = [pc |-> clerk'.pc, receipt |-> clerk'.receipt,
                         rest |-> clerk'.rest, failed |-> clerk'.failed]
        BY <1>4, GotoIs DEF IInv
      <2>2. NothingIsStuck'
        BY <1>1, <1>4, <2>1 DEF IInv, NothingIsStuck
      <2> QED
        BY <1>1, <1>4, <2>1, <2>2, ClerkMoves DEF IInv, Shape
    <1> QED
      BY <1>2, <1>3, <1>4 DEF Release

LEMMA ReleaseWriteStep ==
    ASSUME IInv, ReleaseWrite
    PROVE  IInv' /\ FateStep
    <1> DEFINE r == clerk.receipt
               e == [entry[r] EXCEPT !.there = TRUE, !.claimed = FALSE]
    <1>1. /\ clerk.pc \in {"clear", "reopen"} /\ Set(r, e)
          /\ Goto("requeue") \/ Onwards
          /\ UNCHANGED <<backend, proposals, claiming, purge, crashes>>
      BY DEF ReleaseWrite, At
    <1>2. backend # "file"
      BY <1>1 DEF IInv, FileIsOrderly, FilePlaces
    <1>3. r \in Receipt =>
            /\ e \in Entry /\ e.there /\ ~e.claimed
            /\ e.withdrawn = entry[r].withdrawn /\ e.gone = entry[r].gone
      BY DEF IInv, Shape, Entry
    <1> HIDE DEF e
    <1>4. /\ clerk'.pc \in {"asleep", "reserve", "fallback", "requeue"}
          /\ clerk' = [pc |-> clerk'.pc, receipt |-> clerk'.receipt,
                       rest |-> clerk'.rest, failed |-> clerk'.failed]
      <2>1. CASE Goto("requeue")
        BY <2>1, GotoIs DEF IInv
      <2>2. CASE Onwards
        <3>1. Shape
          BY DEF IInv
        <3> QED
          BY <2>2, <3>1, OnwardsIs
      <2> QED
        BY <1>1, <2>1, <2>2
    <1> QED
      BY <1>1, <1>2, <1>3, <1>4, GivenBack

LEMMA FallbackStep ==
    ASSUME IInv, Fallback
    PROVE  IInv' /\ FateStep
    <1>0. PICK r : r = clerk.receipt
      OBVIOUS
    <1>1. /\ clerk.pc = "fallback" /\ UNCHANGED <<backend, claiming, purge, crashes>>
      BY DEF Fallback, At
    <1>2. CASE ~Open(r)
      <2>1. Continue /\ UNCHANGED <<entry, proposals>>
        BY <1>0, <1>2 DEF Fallback
      <2>2. NothingIsStuck'
        BY <1>1, <2>1 DEF IInv, NothingIsStuck
      <2>3. backend = "file" => FilePlaces'
        BY <1>1, <2>1, ContinueIs DEF IInv, FileIsOrderly, FilePlaces, Locked
      <2> QED
        BY <1>1, <2>1, <2>2, <2>3, ContinueIs, ClerkMoves DEF IInv, Shape
    <1>3. CASE Open(r)
      <2>1. Set(r, Claimed(r))
        BY <1>0, <1>3 DEF Fallback
      <2>2. /\ entry' \in [Receipt -> Entry]
            /\ \A q \in Receipt :
                 entry'[q] = IF q = r THEN Claimed(r) ELSE entry[q]
        BY <2>1, ClaimedIs, SetIs DEF IInv
      <2>3. ClaimedIsThere'
        BY <2>2, ClaimedIs DEF IInv, ClaimedIsThere
      <2>4. CASE backend = "file"
        <3>1. Propose(r) /\ Continue
          BY <1>0, <1>3, <2>4 DEF Fallback
        <3>2. /\ proposals' \in [Receipt -> 0..2]
              /\ \A q \in Receipt : proposals'[q] =
                   IF q = r THEN IF proposals[q] = 0 THEN 1 ELSE 2
                   ELSE proposals[q]
          BY <3>1, ProposeIs DEF IInv
        <3>3. Shape'
          BY <1>1, <2>2, <3>1, <3>2, ContinueIs DEF IInv, Shape
        <3>4. NothingIsStuck'
          BY <1>1, <2>2, <3>2 DEF IInv, Shape, NothingIsStuck
        <3>5. FileIsOrderly'
          BY <1>1, <1>3, <2>2, <3>1, <3>2, ClaimedIs, ContinueIs
             DEF IInv, FileIsOrderly, FilePlaces, Locked, Ordinary, Open
        <3>6. \A q \in Receipt \ {r} : Shown(q)' = Shown(q)
          BY <1>1, <2>2, <3>2 DEF Shown, FateOf, Dropped
        <3>7. ASSUME r \in Receipt
              PROVE  \/ Shown(r)' = Shown(r)
                     \/ Shown(r) = "open" /\ Shown(r)' \in {"taken", "dropped"}
          BY <1>1, <1>3, <2>2, <2>4, <3>2, <3>7, ClaimedIs
             DEF IInv, FileIsOrderly, Ordinary, Shown, FateOf, Dropped, Open
        <3>8. FateStep
          BY <3>6, <3>7, OneFateMoves, NoFateMoves
        <3> QED
          BY <2>3, <3>3, <3>4, <3>5, <3>8 DEF IInv
      <2>5. CASE backend # "file"
        <3>1. Goto("store") /\ proposals' = proposals
          BY <1>0, <1>3, <2>5 DEF Fallback
        <3>2. Shape'
          BY <1>1, <2>2, <3>1, GotoIs DEF IInv, Shape
        <3>3. NothingIsStuck'
          BY <1>0, <1>1, <2>2, <3>1, GotoIs DEF IInv, NothingIsStuck
        <3>4. FileIsOrderly' /\ FateStep
          BY <1>1, <2>5, NoFateMoves DEF FileIsOrderly, Shown
        <3> QED
          BY <2>3, <3>2, <3>3, <3>4 DEF IInv
      <2> QED
        BY <2>4, <2>5
    <1> QED
      BY <1>2, <1>3

LEMMA FallbackStoredStep ==
    ASSUME IInv, FallbackStored
    PROVE  IInv' /\ FateStep
    <1>0. PICK r : r = clerk.receipt
      OBVIOUS
    <1>1. /\ clerk.pc = "store" /\ Continue
          /\ UNCHANGED <<backend, entry, claiming, purge, crashes>>
      BY DEF FallbackStored, At
    <1>2. backend # "file"
      BY <1>1 DEF IInv, FileIsOrderly, FilePlaces, Locked
    <1>3. /\ proposals' \in [Receipt -> 0..2]
          /\ \A q \in Receipt : proposals'[q] =
               IF q = r /\ entry[q].there
               THEN IF proposals[q] = 0 THEN 1 ELSE 2 ELSE proposals[q]
      <2>1. CASE entry[r].there
        BY <1>0, <2>1, ProposeIs DEF FallbackStored, IInv
      <2>2. CASE ~entry[r].there
        BY <1>0, <2>2 DEF FallbackStored, IInv, Shape
      <2> QED
        BY <2>1, <2>2
    <1>4. Shape' /\ ClaimedIsThere'
      BY <1>1, <1>3, ContinueIs DEF IInv, Shape, ClaimedIsThere
    <1>5. NothingIsStuck'
      BY <1>0, <1>1, <1>3 DEF IInv, Shape, ClaimedIsThere, NothingIsStuck
    <1>6. FileIsOrderly' /\ FateStep
      BY <1>1, <1>2, NoFateMoves DEF FileIsOrderly, Shown
    <1> QED
      BY <1>4, <1>5, <1>6 DEF IInv
-----------------------------------------------------------------------------
LEMMA Step == IInv /\ [Next]_vars => IInv' /\ FateStep
    <1> SUFFICES ASSUME IInv, [Next]_vars PROVE IInv' /\ FateStep
      OBVIOUS
    <1>1. ASSUME NEW r \in Receipt, Defer(r) \/ Owner(r)
          PROVE  IInv' /\ FateStep
      BY <1>1, DeferStep, WithdrawStep, ForgetStep, ClaimStep, ClaimStoredStep
         DEF Owner
    <1>2. CASE Clerk
      BY <1>2, WakeStep, ReserveStep, ReserveWriteStep, ProposedStep,
         NotProposedStep, ReleaseStep, ReleaseWriteStep, RequeueStep, FallbackStep,
         FallbackStoredStep DEF Clerk
    <1>3. CASE UNCHANGED vars
      <2>1. IInv'
        BY <1>3 DEF vars, IInv, Shape, ClaimedIsThere, NothingIsStuck,
                    FileIsOrderly, FilePlaces, Locked, Ordinary
      <2>2. \A q \in Receipt : Shown(q)' = Shown(q)
        BY <1>3 DEF vars, Shown, FateOf, Dropped
      <2> QED
        BY <2>1, <2>2, NoFateMoves
    <1> QED
      BY <1>1, <1>2, <1>3, HardForgetStep, PurgeStep, CrashStep DEF Next

(* Outside crashes no receipt is left claimed for nothing, whatever the     *)
(* store, the batch and the order of the ready list: what the clerk         *)
(* reserves it proposes or gives back (people_memory_auth.go:140-173).      *)
THEOREM NothingStuck == Spec => []NothingIsStuck
    <1>1. IInv => NothingIsStuck
      BY DEF IInv
    <1> QED
      BY <1>1, InitIInv, Step, PTL DEF Spec

(* The file store and the clerk implement Inbox: a receipt ends once, as    *)
(* one candidate or withdrawn or forgotten, through any interleaving of the *)
(* owner with the clerk and any crashes.                                    *)
THEOREM Implements == Spec => ImplementsInbox
    <1>1. Init => Inb!InboxInit
      <2> SUFFICES ASSUME Init, NEW r \in Receipt PROVE Shown(r) = "open"
        BY DEF Inb!InboxInit
      <2> QED
        BY Blanks DEF Init, Shown, FateOf, Dropped
    <1> QED
      BY <1>1, InitIInv, Step, PTL
         DEF Spec, ImplementsInbox, Inb!InboxSpec, FateStep
=============================================================================
