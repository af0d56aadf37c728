------------------------------- MODULE Receipts -------------------------------
(***************************************************************************)
(* Deferred receipts, the daily clerk that promotes them, and the owner who *)
(* claims, withdraws or forgets them meanwhile                              *)
(* (src/internal/settings/people_memory_recall.go, _auth.go, _redis.go).    *)
(*                                                                         *)
(* The file store does every operation under one mutex.  The Redis store    *)
(* runs claim, withdraw and forget as Lua scripts, but reserves and gives   *)
(* back a receipt with a read and a write, claims before it writes the      *)
(* candidate, and purges the receipts of a forgotten person one command at  *)
(* a time.  HSET makes a hash that is gone anew: a ghost, which has lost    *)
(* its id and its person and which the clerk cannot reserve.                *)
(* A crash ends the clerk and the requests; what the stores hold survives,  *)
(* and every save is taken to succeed.  Left out: what a receipt says, and  *)
(* other operators (the clerk serves them one after the other).             *)
(***************************************************************************)
EXTENDS Naturals, Sequences

CONSTANTS Receipt,      \* ids; each is given out once
          Bound,        \* the receipts about a person who may be forgotten
          NoReceipt,
          Backends,     \* the stores to check
          Batch,        \* limit of the ready list and of the clerk's batch
          MaxCrashes    \* bound

ASSUME ReceiptAssumption ==
    /\ NoReceipt \notin Receipt /\ Bound \subseteq Receipt
    /\ Backends \subseteq {"file", "redis"}
    /\ Batch \in Nat \ {0} /\ MaxCrashes \in Nat

VARIABLES backend,    \* which store; never changes
          entry,      \* the receipt under each id
          queue,      \* ids in the order in which the ready list shows them
          proposals,  \* how many candidates came of each receipt; 2: several
          claiming,   \* the owner's claims between script and candidate
          clerk,      \* its place, its receipt, the rest of its batch
          purge,      \* what forgetting the person of Bound is at
          crashes

vars == <<backend, entry, queue, proposals, claiming, clerk, purge, crashes>>

(* there: the store holds it; claimed: its claimed_at is not 0; gone: it was *)
(* forgotten once.                                                          *)
Entry == [there : BOOLEAN, claimed : BOOLEAN, withdrawn : BOOLEAN,
          gone : BOOLEAN]
Blank == [there |-> FALSE, claimed |-> FALSE, withdrawn |-> FALSE,
          gone |-> FALSE]
Gone == [Blank EXCEPT !.gone = TRUE]

PC == {"asleep", "reserve", "write", "ask", "release", "clear", "reopen",
       "requeue", "fallback", "store"}

TypeOK ==
    /\ backend \in {"file", "redis"}
    /\ entry \in [Receipt -> Entry]
    /\ queue \in Seq(Receipt)
    /\ proposals \in [Receipt -> 0..2]
    /\ claiming \subseteq Receipt
    /\ clerk \in [pc : PC, receipt : Receipt \cup {NoReceipt},
                  rest : Seq(Receipt), failed : BOOLEAN]
    /\ purge \in [pc : {"never", "scan", "delete", "remove", "over"},
                  receipt : Bound \cup {NoReceipt}, left : SUBSET Bound]
    /\ purge.receipt = NoReceipt <=> purge.pc \notin {"delete", "remove"}
    /\ crashes \in 0..MaxCrashes
    /\ clerk.pc = "asleep" <=> clerk.receipt = NoReceipt

Asleep == [pc |-> "asleep", receipt |-> NoReceipt, rest |-> <<>>,
           failed |-> FALSE]

Purge(pc, r, left) == [pc |-> pc, receipt |-> r, left |-> left]

Init ==
    /\ backend \in Backends
    /\ entry = [r \in Receipt |-> Blank]
    /\ queue = <<>>
    /\ proposals = [r \in Receipt |-> 0]
    /\ claiming = {}
    /\ clerk = Asleep
    /\ purge = Purge("never", NoReceipt, {})
    /\ crashes = 0

(* Neither claimed nor withdrawn: what all the operations ask for.          *)
Open(r) == entry[r].there /\ ~entry[r].claimed /\ ~entry[r].withdrawn

(* A hash that HSET made: it has no id, so nobody finds it by the one that   *)
(* it is listed with.                                                       *)
Ghost(r) == entry[r].there /\ entry[r].gone

(* ListReadyDeferred: the open ones in order, at most a batch.              *)
Ready ==
    LET open == SelectSeq(queue, Open)
    IN  SubSeq(open, 1, IF Len(open) < Batch THEN Len(open) ELSE Batch)

(* The ready set of Redis; the file store keeps the order of creation and   *)
(* looks at the receipts.                                                   *)
Without(r) == SelectSeq(queue, LAMBDA q : q # r)
Dequeued(r) == IF backend = "redis" THEN Without(r) ELSE queue

Set(r, e) == entry' = [entry EXCEPT ![r] = e]
Claimed(r) == [entry[r] EXCEPT !.there = TRUE, !.claimed = TRUE]
Propose(r) == proposals' = [proposals EXCEPT ![r] = IF @ = 0 THEN 1 ELSE 2]
-----------------------------------------------------------------------------
(* A dog defers; the owner withdraws, forgets, or claims.                   *)
Defer(r) ==
    /\ entry[r] = Blank
    /\ Set(r, [Blank EXCEPT !.there = TRUE])
    /\ queue' = Append(queue, r)
    /\ UNCHANGED <<backend, proposals, claiming, clerk, purge, crashes>>

Withdraw(r) ==
    /\ entry[r].there /\ ~entry[r].claimed
    /\ Set(r, [entry[r] EXCEPT !.withdrawn = TRUE])
    /\ queue' = Dequeued(r)
    /\ UNCHANGED <<backend, proposals, claiming, clerk, purge, crashes>>

Forget(r) ==
    /\ entry[r].there /\ ~entry[r].claimed
    /\ Set(r, Gone)
    /\ queue' = Without(r)
    /\ UNCHANGED <<backend, proposals, claiming, clerk, purge, crashes>>

(* hardForget deletes the receipts of the person from the document, claimed *)
(* or not.  The Redis store looks for them, with its mutex held: whoever    *)
(* writes a candidate waits ...                                             *)
Locked == purge.pc \in {"scan", "delete", "remove"}

HardForget ==
    /\ purge.pc = "never"
    /\ IF backend = "file"
       THEN /\ entry' = [r \in Receipt |-> IF r \in Bound /\ entry[r].there
                                          THEN Gone ELSE entry[r]]
            /\ queue' = SelectSeq(queue, LAMBDA q : q \notin Bound)
            /\ purge' = Purge("over", NoReceipt, {})
       ELSE purge' = Purge("scan", NoReceipt, Bound) /\ UNCHANGED <<entry, queue>>
    /\ UNCHANGED <<backend, proposals, claiming, clerk, crashes>>

(* ... it reads each one, in any order, ...                                 *)
PurgeLook ==
    /\ purge.pc = "scan"
    /\ IF purge.left = {} THEN purge' = Purge("over", NoReceipt, {})
       ELSE \E r \in purge.left :
              purge' = IF entry[r].there /\ ~Ghost(r)
                       THEN Purge("delete", r, purge.left \ {r})
                       ELSE Purge("scan", NoReceipt, purge.left \ {r})
    /\ UNCHANGED <<backend, entry, queue, proposals, claiming, clerk, crashes>>

(* ... deletes it, whatever it is by then, and removes it from the list.    *)
PurgeDelete ==
    /\ purge.pc = "delete"
    /\ Set(purge.receipt, Gone)
    /\ purge' = Purge("remove", purge.receipt, purge.left)
    /\ UNCHANGED <<backend, queue, proposals, claiming, clerk, crashes>>

PurgeRemove ==
    /\ purge.pc = "remove"
    /\ queue' = Without(purge.receipt)
    /\ purge' = Purge("scan", NoReceipt, purge.left)
    /\ UNCHANGED <<backend, entry, proposals, claiming, clerk, crashes>>

(* ClaimDeferredReceipt: the file store makes the candidate in the same     *)
(* step, the Redis store when it has the mutex and the receipt is still     *)
(* there.  At most one claim of a receipt at a time.                        *)
Claim(r) ==
    /\ Open(r) /\ r \notin claiming
    /\ Set(r, Claimed(r))
    /\ queue' = Dequeued(r)
    /\ IF backend = "file"
       THEN Propose(r) /\ UNCHANGED claiming
       ELSE claiming' = claiming \cup {r} /\ UNCHANGED proposals
    /\ UNCHANGED <<backend, clerk, purge, crashes>>

ClaimStored(r) ==
    /\ r \in claiming /\ ~Locked
    /\ claiming' = claiming \ {r}
    /\ IF entry[r].there THEN Propose(r) ELSE UNCHANGED proposals
    /\ UNCHANGED <<backend, entry, queue, clerk, purge, crashes>>
-----------------------------------------------------------------------------
(* RunPeopleMemoryClerkOnce.                                                *)
At(pc) == clerk.pc = pc
Goto(pc) == clerk' = [clerk EXCEPT !.pc = pc]
From(rest) ==
    IF rest = <<>> THEN Asleep
    ELSE [pc |-> "reserve", receipt |-> Head(rest), rest |-> Tail(rest),
          failed |-> FALSE]
Continue == clerk' = From(clerk.rest)

(* Half past four: the ready list is read.                                  *)
Wake ==
    /\ At("asleep") /\ Ready # <<>>
    /\ clerk' = From(Ready)
    /\ UNCHANGED <<backend, entry, queue, proposals, claiming, purge, crashes>>

(* A bug to look for: the clerk trusts the list it read before.             *)
ReserveListed ==
    /\ At("reserve")
    /\ Set(clerk.receipt, Claimed(clerk.receipt))
    /\ Goto("ask")
    /\ UNCHANGED <<backend, queue, proposals, claiming, purge, crashes>>

(* ReserveDeferredReceipt of the file store; the Redis store only reads,    *)
(* and finds no ghost: the list showed it without an id.                    *)
Reserve ==
    /\ At("reserve")
    /\ IF ~Open(clerk.receipt) \/ Ghost(clerk.receipt) THEN Continue /\ UNCHANGED entry
       ELSE IF backend = "file"
       THEN Goto("ask") /\ Set(clerk.receipt, Claimed(clerk.receipt))
       ELSE Goto("write") /\ UNCHANGED entry
    /\ UNCHANGED <<backend, queue, proposals, claiming, purge, crashes>>

(* Redis: HSET and ZREM, whatever has become of the receipt; HSET makes the *)
(* hash anew if it is gone.                                                 *)
ReserveWrite ==
    /\ At("write")
    /\ Set(clerk.receipt, Claimed(clerk.receipt))
    /\ queue' = Dequeued(clerk.receipt)
    /\ Goto("ask")
    /\ UNCHANGED <<backend, proposals, claiming, purge, crashes>>

(* The dog returns a proposal that propose takes ...                        *)
Proposed ==
    /\ At("ask") /\ ~Locked
    /\ Propose(clerk.receipt)
    /\ Continue
    /\ UNCHANGED <<backend, entry, queue, claiming, purge, crashes>>

(* A bug to look for: a receipt the dog fails on is not given back.         *)
NotProposedKept ==
    /\ At("ask")
    /\ \E failed \in BOOLEAN :
         clerk' = IF failed THEN [clerk EXCEPT !.pc = "fallback"]
                  ELSE [clerk EXCEPT !.pc = "release"]
    /\ UNCHANGED <<backend, entry, queue, proposals, claiming, purge, crashes>>

(* ... or defers, or says nothing usable, or fails.                         *)
NotProposed ==
    /\ At("ask")
    /\ \E failed \in BOOLEAN :
         clerk' = [clerk EXCEPT !.pc = "release", !.failed = failed]
    /\ UNCHANGED <<backend, entry, queue, proposals, claiming, purge, crashes>>

(* ReleaseDeferredReceipt; what becomes of its error is not looked at.      *)
Onwards == IF clerk.failed THEN Goto("fallback") ELSE Continue

Release ==
    /\ At("release")
    /\ IF ~entry[clerk.receipt].there THEN Onwards /\ UNCHANGED entry
       ELSE IF backend = "file"
       THEN /\ Set(clerk.receipt, [entry[clerk.receipt] EXCEPT !.claimed = FALSE])
            /\ Onwards
       ELSE /\ Goto(IF entry[clerk.receipt].withdrawn THEN "clear" ELSE "reopen")
            /\ UNCHANGED entry
    /\ UNCHANGED <<backend, queue, proposals, claiming, purge, crashes>>

(* Redis: HSET, and ZADD if it had not been withdrawn when it was read.     *)
ReleaseWrite ==
    /\ clerk.pc \in {"clear", "reopen"}
    /\ Set(clerk.receipt, [entry[clerk.receipt] EXCEPT !.there = TRUE,
                                                      !.claimed = FALSE])
    /\ IF At("reopen") THEN Goto("requeue") ELSE Onwards
    /\ UNCHANGED <<backend, queue, proposals, claiming, purge, crashes>>

(* A bug to look for: it goes back to the head of the ready set.            *)
RequeueFirst ==
    /\ At("requeue")
    /\ queue' = <<clerk.receipt>> \o Without(clerk.receipt)
    /\ Onwards
    /\ UNCHANGED <<backend, entry, proposals, claiming, purge, crashes>>

(* Redis: ZADD with the time of now.                                        *)
Requeue ==
    /\ At("requeue")
    /\ queue' = Append(Without(clerk.receipt), clerk.receipt)
    /\ Onwards
    /\ UNCHANGED <<backend, entry, proposals, claiming, purge, crashes>>

(* The dog failed: an empty candidate instead, if the receipt is still open.*)
Fallback ==
    /\ At("fallback")
    /\ LET r == clerk.receipt IN
       IF ~Open(r) THEN Continue /\ UNCHANGED <<entry, queue, proposals>>
       ELSE /\ Set(r, Claimed(r))
            /\ queue' = Dequeued(r)
            /\ IF backend = "file"
               THEN Propose(r) /\ Continue
               ELSE Goto("store") /\ UNCHANGED proposals
    /\ UNCHANGED <<backend, claiming, purge, crashes>>

FallbackStored ==
    /\ At("store") /\ ~Locked
    /\ IF entry[clerk.receipt].there
       THEN Propose(clerk.receipt) ELSE UNCHANGED proposals
    /\ Continue
    /\ UNCHANGED <<backend, entry, queue, claiming, purge, crashes>>

(* The person of a purge that was not saved is there again.                 *)
Crash ==
    /\ crashes < MaxCrashes
    /\ clerk' = Asleep /\ claiming' = {}
    /\ purge' = IF Locked THEN Purge("never", NoReceipt, {}) ELSE purge
    /\ crashes' = crashes + 1
    /\ UNCHANGED <<backend, entry, queue, proposals>>

Clerk ==
    \/ Wake \/ Reserve \/ ReserveWrite \/ Proposed \/ NotProposed
    \/ Release \/ ReleaseWrite \/ Requeue \/ Fallback \/ FallbackStored

Purging == PurgeLook \/ PurgeDelete \/ PurgeRemove

Owner(r) == Withdraw(r) \/ Forget(r) \/ Claim(r) \/ ClaimStored(r)

Next ==
    \/ \E r \in Receipt : Defer(r) \/ Owner(r)
    \/ HardForget
    \/ Purging
    \/ Clerk
    \/ Crash

Spec == Init /\ [][Next]_vars

(* The clerk's timer fires every day, its calls return and the dog it asks  *)
(* ends; a purge that has begun ends.  Nothing is assumed of the owner, or  *)
(* of what the dog says.                                                    *)
FairSpec == Spec /\ WF_vars(Clerk) /\ WF_vars(Purging)
-----------------------------------------------------------------------------
(* What became of a receipt.  "twice" and "both" are no fates of Inbox.     *)
Dropped(r) == entry[r].withdrawn \/ entry[r].gone
FateOf(r) ==
    CASE proposals[r] = 0 -> IF Dropped(r) THEN "dropped" ELSE "open"
      [] proposals[r] = 1 -> IF Dropped(r) THEN "both" ELSE "taken"
      [] OTHER            -> "twice"

(* The file store and the clerk implement Inbox for the receipts nobody     *)
(* forgets with their person: through reservations, releases, fallbacks and *)
(* crashes a receipt becomes one candidate, or was withdrawn and none.      *)
Shown(r) ==
    IF backend = "file" /\ r \notin Bound THEN FateOf(r) ELSE "open"
Inb == INSTANCE Inbox WITH fate <- [r \in Receipt |-> Shown(r)]
ImplementsInbox == Inb!InboxSpec

(* Unless a crash hits it, no receipt is left claimed for nothing: one that *)
(* can no longer be claimed, withdrawn or forgotten became a candidate, or  *)
(* somebody is at it (people_memory_auth.go:140-173).                       *)
NothingIsStuck ==
    crashes = 0 =>
        \A r \in Receipt :
            entry[r].claimed =>
                \/ proposals[r] > 0
                \/ r \in claiming
                \/ /\ clerk.receipt = r
                   /\ clerk.pc \in {"ask", "release", "clear", "reopen", "store"}

(* With the ready set of Redis no receipt in it waits for ever behind       *)
(* others that the dog defers every day (people_memory_redis.go:329-343),   *)
(* unless a ghost takes a place in the ready list: it is shown and skipped  *)
(* every day (people_memory_redis.go:181-191, auth.go:133).                 *)
Listed(r) == \E i \in DOMAIN queue : queue[i] = r
EveryReceiptIsOffered ==
    \A r \in Receipt :
        (backend = "redis" /\ Open(r) /\ Listed(r))
            ~> (~Open(r) \/ \E q \in Receipt : Ghost(q))

(* "Each tick promotes ready (unclaimed, non-withdrawn) deferred receipts"  *)
(* (people_memory_auth.go:86-88): the same of either store.                 *)
(* It does not hold: README, "Disagreements".                               *)
EveryTickPromotes == \A r \in Receipt : Open(r) ~> ~Open(r)

(* A receipt is reserved "so it is not double-processed"                    *)
(* (people_memory_recall.go:234-236): it becomes one candidate.             *)
(* It does not hold: README, "Disagreements".                               *)
NotDoubleProcessed == \A r \in Receipt : proposals[r] <= 1
=============================================================================
