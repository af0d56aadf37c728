--------------------------- MODULE Carrier_proofs ---------------------------
(***************************************************************************)
(* A warm process is lent to one turn at a time, for any turns, keys,       *)
(* processes and capacity.  What makes it inductive is the count of leases: *)
(* that of a live process is the number of turns that have it, so a process *)
(* found idle is nobody's.  A dead process can still be held, but it is not *)
(* lent again, and it is no fresh one before it was released.               *)
(***************************************************************************)
EXTENDS Carrier, FiniteSetTheorems, TLAPS

Busy == {"run", "running", "ended"}

(* A call that is past Acquire has a process.                               *)
HasProcess == \A t \in Turn : turn[t].pc \in Busy => turn[t].process \in Process

IInv == TypeOK /\ HasProcess /\ LeasesAreHolders /\ OneTurnPerProcess
-----------------------------------------------------------------------------
(* The records are what their constructors say.                             *)
LEMMA AtType ==
  ASSUME NEW pc \in PC, NEW k \in Key, NEW tier \in Tier,
         NEW p \in Process \cup {NoProcess}, NEW class \in Class
  PROVE  /\ At(pc, k, tier, p, class) \in Call
         /\ At(pc, k, tier, p, class).pc = pc
         /\ At(pc, k, tier, p, class).process = p
  BY DEF At, Call

LEMMA KeyType == AnyKey \in Key
  BY PoolAssumption DEF AnyKey

LEMMA IdleType ==
  /\ IdleCall \in Call /\ IdleCall.pc = "idle" /\ IdleCall.process = NoProcess
  BY KeyType, AtType DEF IdleCall, PC, Tier, Class

LEMMA FailedType ==
  ASSUME NEW tier \in Tier, NEW class \in Class
  PROVE  /\ FailedAt(tier, class) \in Call
         /\ FailedAt(tier, class).pc = "failed"
  BY KeyType, AtType DEF FailedAt, PC

LEMMA HealthType ==
  ASSUME NEW e \in Entry, NEW class \in Class
  PROVE  AsRead(e) \in Entry /\ Failed(e, class) \in Entry /\ Aged(e) \in Entry
  <1> USE CooldownAssumption
  <1>1. AsRead(e) \in Entry
    BY DEF AsRead, Online, Entry
  <1>2. Struck(e) \in 0..Strikes
    BY DEF Struck, Entry
  <1>3. Failed(e, class) \in Entry
    BY <1>2 DEF Failed, Entry
  <1>4. Aged(e) \in Entry
    <2>1. e = [left |-> e.left, strikes |-> e.strikes]
      BY DEF Entry
    <2>2. Aged(e) = [left |-> IF e.left = 0 THEN 0 ELSE e.left - 1,
                     strikes |-> e.strikes]
      BY <2>1 DEF Aged
    <2> QED
      BY <2>2 DEF Entry
  <1> QED
    BY <1>1, <1>3, <1>4

(* The three ways a step can change who holds what.                         *)
Same ==
    /\ mode' = mode
    /\ \A p \in Process : \A u \in Turn : Holds(u, p)' <=> Holds(u, p)
Lends(t, p) ==
    /\ mode' = mode
    /\ Single => Holders(p) = {}
    /\ \A u \in Turn, q \in Process :
          Holds(u, q)' <=> (Holds(u, q) \/ (u = t /\ q = p))
Returns(t, p) ==
    /\ mode' = mode
    /\ Holds(t, p)
    /\ \A u \in Turn, q \in Process : Holds(u, q)' <=> (Holds(u, q) /\ u # t)
Moves == Same \/ \E t \in Turn, p \in Process : Lends(t, p) \/ Returns(t, p)

LEMMA InitInv == Init => IInv
  <1> SUFFICES ASSUME Init PROVE IInv
    OBVIOUS
  <1>1. TypeOK
    <2>1. PoolTypeOK
      BY ModesAssumption DEF Init, PoolInit, PoolTypeOK, WarmProcess, Blank
    <2>2. Online \in Entry
      BY CooldownAssumption DEF Online, Entry
    <2>3. CarrierTypeOK
      BY <2>2, IdleType DEF Init, CarrierTypeOK
    <2> QED
      BY <2>1, <2>3 DEF TypeOK
  <1>2. \A t \in Turn, p \in Process : ~Holds(t, p)
    BY IdleType DEF Init, Holds
  <1>3. LeasesAreHolders
    BY DEF Init, PoolInit, Blank, LeasesAreHolders
  <1>4. OneTurnPerProcess
    BY <1>2 DEF OneTurnPerProcess
  <1>5. HasProcess
    BY IdleType DEF Init, HasProcess, Busy
  <1> QED
    BY <1>1, <1>3, <1>4, <1>5 DEF IInv
-----------------------------------------------------------------------------
(* How a step of one call changes who holds what.                           *)
LEMMA Others ==
  ASSUME TypeOK, NEW t \in Turn, NEW rec, Goto(t, rec)
  PROVE  /\ turn'[t] = rec
         /\ \A u \in Turn \ {t} : turn'[u] = turn[u]
         /\ rec \in Call => turn' \in [Turn -> Call]
  BY DEF TypeOK, CarrierTypeOK, Goto

(* A step that keeps what t holds.                                          *)
LEMMA Keeps ==
  ASSUME TypeOK, NEW t \in Turn, NEW rec, Goto(t, rec),
         \A p \in Process :
            Holds(t, p) <=> (rec.process = p /\ rec.pc \in {"run", "running", "ended"})
  PROVE  \A p \in Process :
            /\ \A u \in Turn : Holds(u, p)' <=> Holds(u, p)
            /\ Holders(p)' = Holders(p)
  <1>1. \A p \in Process, u \in Turn : Holds(u, p)' <=> Holds(u, p)
    BY Others DEF Holds
  <1> QED
    BY <1>1 DEF Holders

(* A step by which t gets process p.                                        *)
LEMMA Takes ==
  ASSUME TypeOK, NEW t \in Turn, NEW p \in Process, turn[t].pc = "acquire",
         Acquired(t, p)
  PROVE  /\ ~Holds(t, p)
         /\ \A u \in Turn, q \in Process :
               Holds(u, q)' <=> (Holds(u, q) \/ (u = t /\ q = p))
         /\ Holders(p)' = Holders(p) \cup {t}
         /\ \A q \in Process \ {p} : Holders(q)' = Holders(q)
         /\ turn' \in [Turn -> Call]
         /\ HasProcess => HasProcess'
  <1> DEFINE rec == At("run", turn[t].key, "bg_daemon", p, "unknown")
  <1>1. rec \in Call /\ rec.pc = "run" /\ rec.process = p
    <2>1. turn[t].key \in Key
      BY DEF TypeOK, CarrierTypeOK, Call
    <2>2. "run" \in PC /\ "bg_daemon" \in Tier /\ "unknown" \in Class
      BY DEF PC, Tier, Class
    <2> QED
      BY <2>1, <2>2, AtType
  <1> HIDE DEF rec
  <1>2. Goto(t, rec)
    BY DEF Acquired, rec
  <1>3. \A u \in Turn, q \in Process :
          Holds(u, q)' <=> (Holds(u, q) \/ (u = t /\ q = p))
    BY <1>1, <1>2, Others DEF Holds
  <1>4. ~Holds(t, p)
    BY DEF Holds
  <1>5. HasProcess => HasProcess'
    BY <1>1, <1>2, Others DEF HasProcess
  <1> QED
    BY <1>1, <1>2, <1>3, <1>4, <1>5, Others DEF Holders

(* A step by which t lets go of the process it holds.                       *)
LEMMA Drops ==
  ASSUME TypeOK, NEW t \in Turn, NEW p \in Process, Holds(t, p), NEW rec \in Call,
         Goto(t, rec), rec.pc \in {"idle", "failed"}
  PROVE  /\ \A u \in Turn, q \in Process :
               Holds(u, q)' <=> (Holds(u, q) /\ u # t)
         /\ t \in Holders(p)
         /\ Holders(p)' = Holders(p) \ {t}
         /\ \A q \in Process \ {p} : Holders(q)' = Holders(q)
         /\ turn' \in [Turn -> Call]
         /\ HasProcess => HasProcess'
  <1>1. \A u \in Turn, q \in Process :
          Holds(u, q)' <=> (Holds(u, q) /\ u # t)
    BY Others DEF Holds
  <1>2. \A q \in Process \ {p} : ~Holds(t, q)
    BY DEF Holds
  <1>3. HasProcess => HasProcess'
    BY Others DEF HasProcess, Busy
  <1> QED
    BY <1>1, <1>2, <1>3, Others DEF Holders

LEMMA HoldersFinite == \A p : IsFiniteSet(Holders(p))
  BY TurnAssumption, FS_Subset DEF Holders
-----------------------------------------------------------------------------
(* The pool's critical sections keep the pool well typed.                   *)
LEMMA RecordType ==
  ASSUME NEW up \in BOOLEAN, NEW alive \in BOOLEAN, NEW leases \in Nat
  PROVE  [up |-> up, alive |-> alive, leases |-> leases] \in WarmProcess
  BY DEF WarmProcess

LEMMA FieldType ==
  ASSUME PoolTypeOK, NEW p \in Process
  PROVE  /\ proc[p] \in WarmProcess
         /\ proc[p].up \in BOOLEAN /\ proc[p].alive \in BOOLEAN
         /\ proc[p].leases \in Nat
  BY DEF PoolTypeOK, WarmProcess

LEMMA KilledType ==
  ASSUME PoolTypeOK, NEW P
  PROVE  /\ Killed(P) \in [Process -> WarmProcess]
         /\ \A p \in Process : Killed(P)[p] = proc[p] \/ ~Killed(P)[p].alive
         /\ \A p \in Process : p \notin P => Killed(P)[p] = proc[p]
  <1>1. Blank \in WarmProcess /\ ~Blank.alive
    BY DEF Blank, WarmProcess
  <1> QED
    BY <1>1, FieldType DEF Killed

LEMMA WithoutType ==
  ASSUME PoolTypeOK, NEW K
  PROVE  Without(entries, K) \in [Key -> Process \cup {NoProcess}]
  BY DEF PoolTypeOK, Without

LEMMA WarmType ==
  ASSUME PoolTypeOK, NEW k \in Key, NEW p \in Process, NEW cwd \in BOOLEAN,
         AcquireWarm(k, p, cwd)
  PROVE  /\ PoolTypeOK' /\ mode' = mode
         /\ p = entries[k] /\ proc[p].alive
         /\ \A q \in Process \ {p} : proc'[q] = proc[q]
         /\ proc'[p].alive => proc'[p].leases = LeasesAfter(k, cwd)
         /\ ~mode.multiplexing /\ ~mode.maxLease => proc[p].leases = 0
         /\ ~mode.maxLease => LeasesAfter(k, cwd) = proc[p].leases + 1
  <1>1. p = entries[k] /\ UNCHANGED <<entries, mode>>
    BY DEF AcquireWarm
  <1>2. proc[p].alive
    BY <1>1 DEF AcquireWarm, WarmHit, StaleHit, Usable
  <1>3. LeasesAfter(k, cwd) \in Nat
    BY <1>1, FieldType DEF LeasesAfter
  <1>4. PICK rec \in WarmProcess :
          /\ proc' = [proc EXCEPT ![p] = rec]
          /\ rec.alive => rec.leases = LeasesAfter(k, cwd)
    <2> DEFINE lent == [up |-> proc[p].up, alive |-> TRUE,
                        leases |-> LeasesAfter(k, cwd)]
               late == [up |-> FALSE, alive |-> FALSE, leases |-> 1]
    <2>1. lent \in WarmProcess /\ lent.leases = LeasesAfter(k, cwd)
      BY <1>3, FieldType, RecordType
    <2>2. late \in WarmProcess /\ ~late.alive
      BY RecordType
    <2>3. proc' = [proc EXCEPT ![p] = lent] \/ proc' = [proc EXCEPT ![p] = late]
      BY DEF AcquireWarm
    <2> HIDE DEF lent, late
    <2> QED
      BY <2>1, <2>2, <2>3
  <1>5. PoolTypeOK'
    BY <1>1, <1>4 DEF PoolTypeOK
  <1>6. ~mode.multiplexing /\ ~mode.maxLease => proc[p].leases = 0
    BY <1>1 DEF AcquireWarm, WarmHit, StaleHit, Idle
  <1>7. ~mode.maxLease => LeasesAfter(k, cwd) = proc[p].leases + 1
    BY <1>1 DEF LeasesAfter, StaleHit
  <1> QED
    BY <1>1, <1>2, <1>4, <1>5, <1>6, <1>7 DEF PoolTypeOK

LEMMA ColdType ==
  ASSUME PoolTypeOK, NEW k \in Key, NEW p \in Process, NEW cwd \in BOOLEAN,
         AcquireCold(k, p, cwd)
  PROVE  /\ PoolTypeOK' /\ mode' = mode
         /\ proc'[p].alive /\ proc'[p].leases = 1
         /\ \A q \in Process \ {p} : proc'[q] = proc[q] \/ ~proc'[q].alive
  <1>1. PICK out : /\ entries' = [Without(entries, out) EXCEPT ![k] = p]
                   /\ proc' = [Killed({entries[j] : j \in out}) EXCEPT ![p] =
                                 [up |-> TRUE, alive |-> TRUE, leases |-> 1]]
    BY DEF AcquireCold
  <1> DEFINE dead == Killed({entries[j] : j \in out})
  <1>2. /\ dead \in [Process -> WarmProcess]
        /\ \A q \in Process : dead[q] = proc[q] \/ ~dead[q].alive
    BY KilledType
  <1> DEFINE new == [up |-> TRUE, alive |-> TRUE, leases |-> 1]
  <1>3. proc' = [dead EXCEPT ![p] = new] /\ mode' = mode
    BY <1>1 DEF AcquireCold
  <1>4. new \in WarmProcess /\ new.alive /\ new.leases = 1
    BY RecordType
  <1> HIDE DEF dead, new
  <1>5. entries' \in [Key -> Process \cup {NoProcess}]
    BY <1>1, WithoutType
  <1>6. proc' \in [Process -> WarmProcess]
    BY <1>2, <1>3, <1>4
  <1>7. PoolTypeOK'
    BY <1>3, <1>5, <1>6 DEF PoolTypeOK
  <1> QED
    BY <1>2, <1>3, <1>4, <1>7

LEMMA FailType ==
  ASSUME PoolTypeOK, NEW k \in Key, NEW cwd \in BOOLEAN, AcquireFails(k, cwd)
  PROVE  /\ PoolTypeOK' /\ mode' = mode
         /\ \A q \in Process : proc'[q] = proc[q] \/ ~proc'[q].alive
  BY KilledType, WithoutType DEF AcquireFails, PoolTypeOK

LEMMA ReleaseType ==
  ASSUME PoolTypeOK, NEW k \in Key, NEW p \in Process, Release(k, p)
  PROVE  /\ PoolTypeOK' /\ mode' = mode
         /\ \A q \in Process \ {p} : proc'[q] = proc[q]
         /\ proc'[p].alive =>
               /\ proc[p].alive
               /\ proc[p].leases > 0 => proc'[p].leases = proc[p].leases - 1
  <1>1. mode' = mode
    BY DEF Release
  <1>2. CASE Dead(p)
    BY <1>1, <1>2, WithoutType DEF Release, PoolTypeOK, Dead
  <1>3. CASE ~Dead(p)
    <2> DEFINE n == IF Idle(p) THEN 0 ELSE proc[p].leases - 1
               rec == [up |-> proc[p].up, alive |-> TRUE, leases |-> n]
    <2>1. n \in Nat /\ (proc[p].leases > 0 => n = proc[p].leases - 1)
      BY FieldType DEF Idle
    <2> HIDE DEF n
    <2>2. rec \in WarmProcess /\ rec.leases = n
      BY <2>1, FieldType, RecordType
    <2>3. proc' = [proc EXCEPT ![p] = rec] /\ entries' = entries
      BY <1>3 DEF Release, n
    <2> HIDE DEF rec
    <2> QED
      BY <1>1, <1>3, <2>1, <2>2, <2>3 DEF PoolTypeOK, Dead
  <1> QED
    BY <1>2, <1>3

(* What the pool and its processes do by themselves only ever kills.        *)
LEMMA ExitType ==
  ASSUME PoolTypeOK, NEW p \in Process, Exit(p) \/ WaitAndMark(p)
  PROVE  /\ PoolTypeOK' /\ mode' = mode
         /\ \A q \in Process : ~proc'[q].alive
              \/ (proc'[q].leases = proc[q].leases /\ proc[q].alive)
  <1>1. PICK rec \in WarmProcess :
          /\ proc' = [proc EXCEPT ![p] = rec] /\ UNCHANGED <<entries, mode>>
          /\ ~rec.alive \/ (rec.leases = proc[p].leases /\ proc[p].alive)
    <2>1. CASE Exit(p)
      <3> DEFINE rec == [up |-> FALSE, alive |-> proc[p].alive,
                         leases |-> proc[p].leases]
      <3>1. /\ rec \in WarmProcess
            /\ rec.alive = proc[p].alive /\ rec.leases = proc[p].leases
        BY FieldType, RecordType
      <3>2. proc' = [proc EXCEPT ![p] = rec] /\ UNCHANGED <<entries, mode>>
        BY <2>1 DEF Exit
      <3> HIDE DEF rec
      <3> QED
        BY <3>1, <3>2
    <2>2. CASE WaitAndMark(p)
      <3>1. Blank \in WarmProcess /\ ~Blank.alive
        BY DEF Blank, WarmProcess
      <3> QED
        BY <2>2, <3>1 DEF WaitAndMark
    <2> QED
      BY <2>1, <2>2
  <1> QED
    BY <1>1 DEF PoolTypeOK

LEMMA BackgroundType ==
  ASSUME PoolTypeOK,
         ReapDead \/ EvictExpired \/ (\E p \in Process : Exit(p) \/ WaitAndMark(p))
  PROVE  /\ PoolTypeOK' /\ mode' = mode
         /\ \A q \in Process : ~proc'[q].alive
              \/ (proc'[q].leases = proc[q].leases /\ proc[q].alive)
  <1>1. CASE ReapDead
    BY <1>1, WithoutType DEF ReapDead, PoolTypeOK
  <1>2. CASE EvictExpired
    BY <1>2, KilledType, WithoutType DEF EvictExpired, PoolTypeOK
  <1>3. CASE \E p \in Process : Exit(p) \/ WaitAndMark(p)
    BY <1>3, ExitType
  <1> QED
    BY <1>1, <1>2, <1>3
-----------------------------------------------------------------------------
(* Steps that lend nothing and take nothing back.                           *)
LEMMA StillInv ==
  ASSUME IInv, ~crashed, TypeOK', HasProcess', mode' = mode,
         \A p \in Process : \A u \in Turn : Holds(u, p)' <=> Holds(u, p),
         \A p \in Process : ~proc'[p].alive
            \/ (proc'[p].leases = proc[p].leases /\ proc[p].alive)
  PROVE  IInv' /\ Moves
  <1>1. \A p \in Process : Holders(p)' = Holders(p)
    BY DEF Holders
  <1>2. LeasesAreHolders'
    BY <1>1 DEF IInv, LeasesAreHolders
  <1>3. OneTurnPerProcess'
    BY DEF IInv, OneTurnPerProcess, Single
  <1>4. Moves
    BY DEF Moves, Same
  <1> QED
    BY <1>2, <1>3, <1>4 DEF IInv

(* Steps of a call that leave the pool alone.                               *)
LEMMA CallInv ==
  ASSUME IInv, ~crashed, NEW t \in Turn, NEW rec \in Call, Goto(t, rec),
         UNCHANGED poolVars, health' \in [Tier -> Entry], crashed' = crashed,
         \A p \in Process :
            Holds(t, p) <=> (rec.process = p /\ rec.pc \in {"run", "running", "ended"}),
         rec.pc \in Busy => rec.process \in Process
  PROVE  IInv' /\ Moves
  <1>1. TypeOK
    BY DEF IInv
  <1>2. \A p \in Process : \A u \in Turn : Holds(u, p)' <=> Holds(u, p)
    BY <1>1, Keeps
  <1>3. TypeOK'
    BY <1>1, Others DEF TypeOK, CarrierTypeOK, PoolTypeOK, poolVars
  <1>4. \A p \in Process : proc'[p].leases = proc[p].leases
                           /\ proc'[p].alive = proc[p].alive
    BY DEF poolVars
  <1>5. HasProcess'
    BY <1>1, Others DEF IInv, HasProcess
  <1> QED
    BY <1>2, <1>3, <1>4, <1>5, StillInv DEF poolVars

LEMMA LookType ==
  ASSUME TypeOK, NEW tier \in Tier, Look(tier)
  PROVE  health' \in [Tier -> Entry]
  <1>1. AsRead(health[tier]) \in Entry
    BY HealthType DEF TypeOK, CarrierTypeOK, Class
  <1> QED
    BY <1>1 DEF Look, TypeOK, CarrierTypeOK

LEMMA RecordedType ==
  ASSUME TypeOK, NEW tier \in Tier, NEW class \in Class, Record(tier, class)
  PROVE  health' \in [Tier -> Entry]
  BY HealthType DEF Record, TypeOK, CarrierTypeOK

LEMMA TurnType ==
  ASSUME TypeOK, NEW t \in Turn
  PROVE  /\ turn[t] \in Call /\ turn[t].pc \in PC /\ turn[t].key \in Key
         /\ turn[t].tier \in Tier /\ turn[t].class \in Class
         /\ turn[t].process \in Process \cup {NoProcess}
  BY DEF TypeOK, CarrierTypeOK, Call

LEMMA StartInv ==
  ASSUME IInv, ~crashed, NEW t \in Turn, NEW k \in Key, Start(t, k)
  PROVE  IInv' /\ Moves
  <1>1. TypeOK
    BY DEF IInv
  <1>2. \A p \in Process : ~Holds(t, p)
    BY DEF Start, Holds
  <1>3. health' \in [Tier -> Entry]
    BY <1>1, LookType DEF Start, Tier
  <1>4. PICK rec \in Call : Goto(t, rec) /\ rec.pc \in {"acquire", "failed"}
    BY AtType, FailedType DEF Start, Tier, PC, Class
  <1> QED
    BY <1>2, <1>3, <1>4, CallInv DEF Busy, Start

LEMMA RetryInv ==
  ASSUME IInv, ~crashed, NEW t \in Turn, Retry(t)
  PROVE  IInv' /\ Moves
  <1>1. TypeOK
    BY DEF IInv
  <1>2. \A p \in Process : ~Holds(t, p)
    BY DEF Retry, Holds
  <1>3. health' \in [Tier -> Entry]
    BY <1>1, LookType DEF Retry, Tier
  <1>4. PICK rec \in Call : Goto(t, rec) /\ rec.pc \in {"streaming", "failed"}
    BY AtType, FailedType, KeyType, ClassesAssumption DEF Retry, Tier, PC, Class
  <1> QED
    BY <1>2, <1>3, <1>4, CallInv DEF Busy, Retry

LEMMA RunTurnInv ==
  ASSUME IInv, ~crashed, NEW t \in Turn, RunTurn(t) \/ EndTurn(t)
  PROVE  IInv' /\ Moves
  <1>1. TypeOK
    BY DEF IInv
  <1>2. PICK pc \in {"running", "ended"} :
          Goto(t, At(pc, turn[t].key, "bg_daemon", turn[t].process, "unknown"))
    BY DEF RunTurn, EndTurn
  <1> DEFINE rec == At(pc, turn[t].key, "bg_daemon", turn[t].process, "unknown")
  <1>3. rec \in Call /\ rec.pc = pc /\ rec.process = turn[t].process
    BY <1>1, TurnType, AtType DEF PC, Tier, Class
  <1>4. Goto(t, rec)
    BY <1>2
  <1> HIDE DEF rec
  <1>5. turn[t].pc \in {"run", "running"}
    BY DEF RunTurn, EndTurn
  <1>6. /\ UNCHANGED poolVars /\ crashed' = crashed
        /\ health' \in [Tier -> Entry]
    BY <1>1 DEF RunTurn, EndTurn, TypeOK, CarrierTypeOK
  <1>7. rec.process \in Process
    BY <1>3, <1>5 DEF IInv, HasProcess, Busy
  <1> QED
    BY <1>3, <1>4, <1>5, <1>6, <1>7, CallInv DEF Holds

LEMMA EndStreamInv ==
  ASSUME IInv, ~crashed, NEW t \in Turn, EndStream(t)
  PROVE  IInv' /\ Moves
  <1>1. health' \in [Tier -> Entry]
    BY DEF IInv, EndStream, TypeOK, CarrierTypeOK
  <1>2. \A p \in Process : ~Holds(t, p)
    BY DEF EndStream, Holds
  <1> QED
    BY <1>1, <1>2, IdleType, CallInv DEF Busy, EndStream

LEMMA FallbackInv ==
  ASSUME IInv, ~crashed, NEW t \in Turn, Fallback(t) \/ GiveUp(t)
  PROVE  IInv' /\ Moves
  <1>1. TypeOK
    BY DEF IInv
  <1>2. \A p \in Process : ~Holds(t, p)
    BY DEF Fallback, GiveUp, Holds
  <1>3. health' \in [Tier -> Entry]
    <2>1. CASE GiveUp(t)
      BY <1>1, <2>1, TurnType, RecordedType DEF GiveUp
    <2>2. CASE Fallback(t)
      <3>1. /\ Failed(health["bg_daemon"], turn[t].class) \in Entry
            /\ AsRead(health["print_sdk"]) \in Entry
        BY <1>1, TurnType, HealthType DEF TypeOK, CarrierTypeOK, Tier
      <3> QED
        BY <1>1, <2>2, <3>1 DEF Fallback, TypeOK, CarrierTypeOK
    <2> QED
      BY <2>1, <2>2
  <1>4. PICK rec \in Call : Goto(t, rec) /\ rec.pc \in {"tier", "idle"}
    BY AtType, IdleType, KeyType DEF Fallback, GiveUp, Tier, PC, Class
  <1> QED
    BY <1>2, <1>3, <1>4, CallInv DEF Busy, Fallback, GiveUp

LEMMA YieldInv ==
  ASSUME IInv, ~crashed, UNCHANGED <<poolVars, turn, crashed>>,
         health' \in [Tier -> Entry]
  PROVE  IInv' /\ Moves
  <1>1. TypeOK'
    BY DEF IInv, TypeOK, CarrierTypeOK, PoolTypeOK, poolVars
  <1>2. \A p \in Process : \A u \in Turn : Holds(u, p)' <=> Holds(u, p)
    BY DEF Holds
  <1>3. \A p \in Process : proc'[p].leases = proc[p].leases
                           /\ proc'[p].alive = proc[p].alive
    BY DEF poolVars
  <1>4. HasProcess'
    BY DEF IInv, HasProcess
  <1> QED
    BY <1>1, <1>2, <1>3, <1>4, StillInv DEF poolVars

LEMMA BackgroundInv ==
  ASSUME IInv, ~crashed, Background \/ (\E p \in Process : Notice(p))
  PROVE  IInv' /\ Moves
  <1>1. UNCHANGED <<turn, health, crashed>>
    BY DEF Background, Notice
  <1>2. ReapDead \/ EvictExpired \/ (\E p \in Process : Exit(p) \/ WaitAndMark(p))
    BY DEF Background, Notice
  <1>3. /\ PoolTypeOK' /\ mode' = mode
        /\ \A q \in Process : ~proc'[q].alive
             \/ (proc'[q].leases = proc[q].leases /\ proc[q].alive)
    BY <1>2, BackgroundType DEF IInv, TypeOK
  <1>4. TypeOK'
    BY <1>1, <1>3 DEF IInv, TypeOK, CarrierTypeOK
  <1>5. \A p \in Process : \A u \in Turn : Holds(u, p)' <=> Holds(u, p)
    BY <1>1 DEF Holds
  <1>6. HasProcess'
    BY <1>1 DEF IInv, HasProcess
  <1> QED
    BY <1>3, <1>4, <1>5, <1>6, StillInv
-----------------------------------------------------------------------------
(* The steps that lend a process or give it back.                           *)
LEMMA TakeWarmInv ==
  ASSUME IInv, ~crashed, NEW t \in Turn, TakeWarm(t)
  PROVE  IInv' /\ Moves
  <1>1. TypeOK
    BY DEF IInv
  <1>2. PICK p \in Process, cwd \in BOOLEAN :
          AcquireWarm(turn[t].key, p, cwd) /\ Acquired(t, p)
    BY DEF TakeWarm
  <1>3. /\ PoolTypeOK' /\ mode' = mode
        /\ proc[p].alive
        /\ \A q \in Process \ {p} : proc'[q] = proc[q]
        /\ ~mode.maxLease /\ proc'[p].alive => proc'[p].leases = proc[p].leases + 1
        /\ ~mode.multiplexing /\ ~mode.maxLease => proc[p].leases = 0
    BY <1>1, <1>2, TurnType, WarmType DEF TypeOK
  <1>4. /\ ~Holds(t, p)
        /\ \A u \in Turn, q \in Process :
              Holds(u, q)' <=> (Holds(u, q) \/ (u = t /\ q = p))
        /\ Holders(p)' = Holders(p) \cup {t}
        /\ \A q \in Process \ {p} : Holders(q)' = Holders(q)
        /\ turn' \in [Turn -> Call] /\ HasProcess'
    BY <1>1, <1>2, Takes DEF IInv, TakeWarm
  <1>5. TypeOK'
    BY <1>1, <1>3, <1>4 DEF TypeOK, CarrierTypeOK, TakeWarm
  <1>6. Cardinality(Holders(p)') = Cardinality(Holders(p)) + 1
    <2>1. t \notin Holders(p) /\ IsFiniteSet(Holders(p))
      BY <1>4, HoldersFinite DEF Holders
    <2>2. Cardinality(Holders(p) \cup {t}) = Cardinality(Holders(p)) + 1
      BY <2>1, FS_AddElement
    <2> QED
      BY <1>4, <2>2
  <1>7. LeasesAreHolders'
    BY <1>3, <1>4, <1>6 DEF IInv, LeasesAreHolders, TakeWarm
  <1>8. Single => Holders(p) = {}
    <2>1. Single => Cardinality(Holders(p)) = 0
      BY <1>3 DEF IInv, LeasesAreHolders, Single
    <2> QED
      BY <2>1, HoldersFinite, FS_EmptySet
  <1>9. OneTurnPerProcess'
    BY <1>3, <1>4, <1>8 DEF IInv, OneTurnPerProcess, Single, Holders
  <1>10. Moves
    BY <1>3, <1>4, <1>8 DEF Moves, Lends
  <1> QED
    BY <1>4, <1>5, <1>7, <1>9, <1>10 DEF IInv

LEMMA TakeColdInv ==
  ASSUME IInv, ~crashed, NEW t \in Turn, TakeCold(t)
  PROVE  IInv' /\ Moves
  <1>1. TypeOK
    BY DEF IInv
  <1>2. PICK p \in Process, cwd \in BOOLEAN :
          Fresh(p) /\ AcquireCold(turn[t].key, p, cwd) /\ Acquired(t, p)
    BY DEF TakeCold
  <1>3. /\ PoolTypeOK' /\ mode' = mode
        /\ proc'[p].alive /\ proc'[p].leases = 1
        /\ \A q \in Process \ {p} : proc'[q] = proc[q] \/ ~proc'[q].alive
    BY <1>1, <1>2, TurnType, ColdType DEF TypeOK
  <1>4. /\ \A u \in Turn, q \in Process :
              Holds(u, q)' <=> (Holds(u, q) \/ (u = t /\ q = p))
        /\ Holders(p)' = Holders(p) \cup {t}
        /\ \A q \in Process \ {p} : Holders(q)' = Holders(q)
        /\ turn' \in [Turn -> Call] /\ HasProcess'
    BY <1>1, <1>2, Takes DEF IInv, TakeCold
  <1>5. TypeOK'
    BY <1>1, <1>3, <1>4 DEF TypeOK, CarrierTypeOK, TakeCold
  <1>6. Holders(p) = {}
    BY <1>2 DEF Fresh
  <1>7. Cardinality(Holders(p)') = 1
    <2>1. Holders(p)' = {t}
      BY <1>4, <1>6
    <2>2. Cardinality({t}) = 1
      BY FS_Singleton
    <2> QED
      BY <2>1, <2>2
  <1>8. LeasesAreHolders'
    BY <1>3, <1>4, <1>7 DEF IInv, LeasesAreHolders, TakeCold
  <1>9. OneTurnPerProcess'
    BY <1>3, <1>4, <1>6 DEF IInv, OneTurnPerProcess, Single, Holders
  <1>10. Moves
    BY <1>3, <1>4, <1>6 DEF Moves, Lends
  <1> QED
    BY <1>4, <1>5, <1>8, <1>9, <1>10 DEF IInv

LEMMA TakeNoneInv ==
  ASSUME IInv, ~crashed, NEW t \in Turn, TakeNone(t)
  PROVE  IInv' /\ Moves
  <1>1. TypeOK
    BY DEF IInv
  <1>2. PICK cwd \in BOOLEAN : AcquireFails(turn[t].key, cwd)
    BY DEF TakeNone
  <1>3. /\ PoolTypeOK' /\ mode' = mode
        /\ \A q \in Process : proc'[q] = proc[q] \/ ~proc'[q].alive
    BY <1>1, <1>2, TurnType, FailType DEF TypeOK
  <1> DEFINE rec == FailedAt("bg_daemon", "unknown")
  <1>4. rec \in Call /\ rec.pc = "failed"
    BY FailedType DEF Tier, Class
  <1>5. Goto(t, rec)
    BY DEF TakeNone
  <1> HIDE DEF rec
  <1>6. \A p \in Process : ~Holds(t, p)
    BY DEF TakeNone, Holds
  <1>7. \A p \in Process : \A u \in Turn : Holds(u, p)' <=> Holds(u, p)
    BY <1>1, <1>4, <1>5, <1>6, Keeps
  <1>8. TypeOK'
    BY <1>1, <1>3, <1>4, <1>5, Others DEF TypeOK, CarrierTypeOK, TakeNone
  <1>9. HasProcess'
    BY <1>1, <1>4, <1>5, Others DEF IInv, HasProcess, Busy
  <1> QED
    BY <1>3, <1>7, <1>8, <1>9, StillInv

(* Release: as long as no lease is taken by force, the caller has one.      *)
LEMMA GiveBackInv ==
  ASSUME IInv, ~crashed, crashed' = crashed, NEW t \in Turn, NEW p \in Process,
         Holds(t, p), NEW rec \in Call, rec.pc \in {"idle", "failed"},
         Goto(t, rec), Release(turn[t].key, p), health' = health
  PROVE  IInv' /\ Moves
  <1>1. TypeOK
    BY DEF IInv
  <1>2. /\ PoolTypeOK' /\ mode' = mode
        /\ \A q \in Process \ {p} : proc'[q] = proc[q]
        /\ proc'[p].alive =>
              /\ proc[p].alive
              /\ proc[p].leases > 0 => proc'[p].leases = proc[p].leases - 1
    BY <1>1, TurnType, ReleaseType DEF TypeOK
  <1>3. /\ \A u \in Turn, q \in Process :
              Holds(u, q)' <=> (Holds(u, q) /\ u # t)
        /\ t \in Holders(p)
        /\ Holders(p)' = Holders(p) \ {t}
        /\ \A q \in Process \ {p} : Holders(q)' = Holders(q)
        /\ turn' \in [Turn -> Call] /\ HasProcess'
    BY <1>1, Drops DEF IInv
  <1>4. TypeOK'
    BY <1>1, <1>2, <1>3 DEF TypeOK, CarrierTypeOK
  <1>5. /\ Cardinality(Holders(p)) \in Nat
        /\ Cardinality(Holders(p)) > 0
        /\ Cardinality(Holders(p)') = Cardinality(Holders(p)) - 1
    <2>1. Cardinality(Holders(p)) \in Nat
      BY HoldersFinite, FS_CardinalityType
    <2>2. Cardinality(Holders(p)) # 0
      BY <1>3, HoldersFinite, FS_EmptySet
    <2>3. Cardinality(Holders(p)') = Cardinality(Holders(p)) - 1
      BY <1>3, HoldersFinite, FS_RemoveElement
    <2> QED
      BY <2>1, <2>2, <2>3
  <1>6. LeasesAreHolders'
    BY <1>2, <1>3, <1>5 DEF IInv, LeasesAreHolders
  <1>7. OneTurnPerProcess'
    BY <1>2, <1>3 DEF IInv, OneTurnPerProcess, Single
  <1>8. Moves
    BY <1>2, <1>3 DEF Moves, Returns
  <1> QED
    BY <1>3, <1>4, <1>6, <1>7, <1>8 DEF IInv

LEMMA RunFailsInv ==
  ASSUME IInv, ~crashed, NEW t \in Turn, RunFails(t)
  PROVE  IInv' /\ Moves
  <1>1. FailedAt("bg_daemon", "unknown") \in Call
        /\ FailedAt("bg_daemon", "unknown").pc = "failed"
    BY FailedType DEF Tier, Class
  <1>2. turn[t].process \in Process /\ Holds(t, turn[t].process)
    BY DEF RunFails, IInv, HasProcess, Busy, Holds
  <1> QED
    BY <1>1, <1>2, GiveBackInv DEF RunFails

(* releaseOnExit of a transport without a pool ends the server.             *)
LEMMA ReleaseOnExitInv ==
  ASSUME IInv, ~crashed, NEW t \in Turn, ReleaseOnExit(t)
  PROVE  IInv' /\ Moves
  <1>1. turn[t].process \in Process /\ Holds(t, turn[t].process)
    BY DEF ReleaseOnExit, IInv, HasProcess, Busy, Holds
  <1>2. CASE ~mode.multi
    BY <1>1, <1>2, IdleType, GiveBackInv DEF ReleaseOnExit
  <1>3. CASE mode.multi
    <2>1. crashed' /\ UNCHANGED <<poolVars, health>> /\ Goto(t, IdleCall)
      BY <1>3 DEF ReleaseOnExit
    <2>2. TypeOK
      BY DEF IInv
    <2>3. \A u \in Turn, q \in Process : Holds(u, q)' <=> (Holds(u, q) /\ u # t)
      BY <1>1, <2>1, <2>2, IdleType, Drops
    <2>4. HasProcess'
      BY <1>1, <2>1, <2>2, IdleType, Drops DEF IInv
    <2>5. TypeOK'
      BY <2>1, <2>2, IdleType, Others
         DEF TypeOK, CarrierTypeOK, PoolTypeOK, poolVars
    <2>6. LeasesAreHolders'
      BY <2>1 DEF LeasesAreHolders
    <2>7. OneTurnPerProcess'
      BY <2>1, <2>3 DEF IInv, OneTurnPerProcess, Single, poolVars
    <2>8. Moves
      BY <1>1, <2>1, <2>3 DEF Moves, Returns, poolVars
    <2> QED
      BY <2>4, <2>5, <2>6, <2>7, <2>8 DEF IInv
  <1> QED
    BY <1>2, <1>3

LEMMA TickInv ==
  ASSUME IInv, ~crashed, Tick
  PROVE  IInv' /\ Moves
  <1>1. \A tier \in Tier : Aged(health[tier]) \in Entry
    BY HealthType DEF IInv, TypeOK, CarrierTypeOK, Class
  <1> QED
    BY <1>1, YieldInv DEF Tick

LEMMA YieldErrorInv ==
  ASSUME IInv, ~crashed, NEW t \in Turn, NEW class \in Classes,
         YieldError(t, class)
  PROVE  IInv' /\ Moves
  <1>1. TypeOK /\ turn[t].tier \in Tier /\ class \in Class
    BY ClassesAssumption, TurnType DEF IInv
  <1>2. health' \in [Tier -> Entry]
    BY <1>1, RecordedType DEF YieldError
  <1> QED
    BY <1>2, YieldInv DEF YieldError

LEMMA StepInv ==
  ASSUME IInv, ~crashed, NEW t \in Turn, Step(t)
  PROVE  IInv' /\ Moves
  BY RetryInv, TakeWarmInv, TakeColdInv, TakeNoneInv, RunTurnInv, RunFailsInv,
     ReleaseOnExitInv, EndStreamInv, FallbackInv DEF Step

LEMMA NextInv == IInv /\ [Next]_vars => IInv' /\ Moves
  <1> SUFFICES ASSUME IInv, [Next]_vars PROVE IInv' /\ Moves
    OBVIOUS
  <1>1. CASE UNCHANGED vars
    BY <1>1 DEF vars, poolVars, IInv, TypeOK, PoolTypeOK, CarrierTypeOK, HasProcess,
       LeasesAreHolders, Holders, Holds, OneTurnPerProcess, Single, Moves, Same
  <1>2. CASE Next
    BY <1>2, StartInv, StepInv, YieldErrorInv, TickInv, BackgroundInv
       DEF Next, Live
  <1> QED
    BY <1>1, <1>2
-----------------------------------------------------------------------------
(* The state of every call, process and tier stays within its type: in      *)
(* particular the lease counts stay natural numbers under every order of    *)
(* releases, retirements and crashes.                                       *)
THEOREM TypeCorrect == Spec => []TypeOK
  <1>1. IInv => TypeOK
    BY DEF IInv
  <1> QED
    BY <1>1, InitInv, NextInv, PTL DEF Spec

(* For any turns, keys, processes and capacity, a live process of a pool    *)
(* without forced release counts exactly the turns that have it.            *)
THEOREM LeasesCounted == Spec => []LeasesAreHolders
  <1>1. IInv => LeasesAreHolders
    BY DEF IInv
  <1> QED
    BY <1>1, InitInv, NextInv, PTL DEF Spec

(* ... and a single-flight process serves one turn at a time.               *)
THEOREM OneTurn == Spec => []OneTurnPerProcess
  <1>1. IInv => OneTurnPerProcess
    BY DEF IInv
  <1> QED
    BY <1>1, InitInv, NextInv, PTL DEF Spec
-----------------------------------------------------------------------------
(* Who owns what, under the refinement mapping.                             *)
OwnerMatches ==
    /\ Owner = [p \in Process |-> Owner[p]]
    /\ \A p \in Process :
          /\ ~Single \/ Holders(p) = {} => Owner[p] = Nobody
          /\ \A t \in Turn : Single /\ Holds(t, p) => Owner[p] = t

LEMMA OwnerIs == IInv => OwnerMatches
  <1> SUFFICES ASSUME IInv PROVE OwnerMatches
    OBVIOUS
  <1>1. ASSUME NEW p \in Process
        PROVE  ~Single \/ Holders(p) = {} => Owner[p] = Nobody
    BY DEF Owner
  <1>2. ASSUME NEW p \in Process, NEW t \in Turn, Single, Holds(t, p)
        PROVE  Owner[p] = t
    <2>1. Holders(p) # {}
      BY <1>2 DEF Holders
    <2>2. Owner[p] = CHOOSE u \in Turn : Holds(u, p)
      BY <1>2, <2>1 DEF Owner
    <2>3. (CHOOSE u \in Turn : Holds(u, p)) \in Turn
          /\ Holds(CHOOSE u \in Turn : Holds(u, p), p)
      BY <1>2
    <2> QED
      BY <1>2, <2>2, <2>3 DEF IInv, OneTurnPerProcess
  <1>3. Owner = [p \in Process |-> Owner[p]]
    BY DEF Owner
  <1> QED
    BY <1>1, <1>2, <1>3 DEF OwnerMatches

LEMMA OwnerIsNext == IInv' => OwnerMatches'
  BY OwnerIs, PTL

LEMMA OwnerStep == IInv /\ IInv' /\ Moves => L!LeaseNext \/ UNCHANGED Owner
  <1> SUFFICES ASSUME IInv, IInv', Moves PROVE L!LeaseNext \/ UNCHANGED Owner
    OBVIOUS
  <1>1. OwnerMatches /\ OwnerMatches'
    BY OwnerIs, OwnerIsNext
  <1>2. Single' = Single
    BY DEF Moves, Same, Lends, Returns, Single
  <1>3. CASE Same
    <2>1. \A p \in Process : Holders(p)' = Holders(p)
      BY <1>3 DEF Same, Holders
    <2>2. \A p \in Process : Owner'[p] = Owner[p]
      BY <1>1, <1>2, <2>1 DEF OwnerMatches, Holders
    <2> QED
      BY <1>1, <2>2 DEF OwnerMatches
  <1>4. ASSUME NEW t \in Turn, NEW p \in Process, Lends(t, p)
        PROVE  L!LeaseNext \/ UNCHANGED Owner
    <2>1. \A q \in Process \ {p} : Holders(q)' = Holders(q)
      BY <1>4 DEF Lends, Holders
    <2>2. \A q \in Process \ {p} : Owner'[q] = Owner[q]
      BY <1>1, <1>2, <2>1 DEF OwnerMatches, Holders
    <2>3. CASE Single
      <3>1. Owner[p] = Nobody /\ Owner'[p] = t
        BY <1>1, <1>2, <1>4, <2>3 DEF OwnerMatches, Lends
      <3>2. Owner' = [Owner EXCEPT ![p] = t]
        BY <1>1, <2>2, <3>1 DEF OwnerMatches
      <3> QED
        BY <3>1, <3>2 DEF L!LeaseNext, L!Grant
    <2>4. CASE ~Single
      <3>1. Owner'[p] = Owner[p]
        BY <1>1, <1>2, <2>4 DEF OwnerMatches
      <3> QED
        BY <1>1, <2>2, <3>1 DEF OwnerMatches
    <2> QED
      BY <2>3, <2>4
  <1>5. ASSUME NEW t \in Turn, NEW p \in Process, Returns(t, p)
        PROVE  L!LeaseNext \/ UNCHANGED Owner
    <2>1. \A q \in Process \ {p} : Holders(q)' = Holders(q)
      BY <1>5 DEF Returns, Holders, Holds
    <2>2. \A q \in Process \ {p} : Owner'[q] = Owner[q]
      BY <1>1, <1>2, <2>1 DEF OwnerMatches, Holders
    <2>3. CASE Single
      <3>1. Holders(p)' = {}
        BY <1>5, <2>3 DEF IInv, OneTurnPerProcess, Returns, Holders
      <3>2. Owner[p] = t /\ Owner'[p] = Nobody
        BY <1>1, <1>2, <1>5, <2>3, <3>1 DEF OwnerMatches, Returns
      <3>3. Owner' = [Owner EXCEPT ![p] = Nobody]
        BY <1>1, <2>2, <3>2 DEF OwnerMatches
      <3> QED
        BY <3>2, <3>3, TurnAssumption DEF L!LeaseNext, L!GiveBack
    <2>4. CASE ~Single
      <3>1. Owner'[p] = Owner[p]
        BY <1>1, <1>2, <2>4 DEF OwnerMatches
      <3> QED
        BY <1>1, <2>2, <3>1 DEF OwnerMatches
    <2> QED
      BY <2>3, <2>4
  <1> QED
    BY <1>3, <1>4, <1>5 DEF Moves

(* The pool under its transport, with every path by which a process dies,   *)
(* is dropped from the table or is released late, implements Lease: what    *)
(* the pool lends in single-flight mode is one owner per process.           *)
THEOREM Implements == Spec => ImplementsLease
  <1>1. Init => L!LeaseInit
    <2>1. Init => \A p \in Process : Holders(p) = {}
      BY IdleType DEF Init, Holders, Holds
    <2> QED
      BY <2>1 DEF L!LeaseInit, Owner
  <1>2. IInv /\ [Next]_vars => IInv' /\ (L!LeaseNext \/ UNCHANGED Owner)
    BY NextInv, OwnerStep
  <1>3. IInv /\ [Next]_vars => IInv' /\ [L!LeaseNext]_Owner
    BY <1>2
  <1> QED
    BY <1>1, <1>3, InitInv, PTL DEF Spec, ImplementsLease, L!LeaseSpec
=============================================================================
