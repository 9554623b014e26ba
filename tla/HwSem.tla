------------------------------- MODULE HwSem -------------------------------
(***************************************************************************)
(* One hardware semaphore shared by the Cortex-A35 side, two cores that    *)
(* run one image, and the Cortex-M4, as drv_hwsem.c uses it on both, with  *)
(* the completion (completion.c) on which a thread waits for the unlock    *)
(* interrupt.                                                              *)
(*                                                                         *)
(* Calls that return an error without changing anything are not steps: an  *)
(* init of a mutex that has an owner, a take or release by a thread that   *)
(* is not the owner, a release whose key does not match.                   *)
(***************************************************************************)
EXTENDS Integers, FiniteSets

CONSTANTS
    A35, M4,     \* the threads of either side
    Affinity,    \* the cores the scheduler may run each thread on, one for
                 \* a thread with RT_THREAD_CTRL_BIND_CPU
    HoldMod,     \* range of hold, a uint8_t
    MaxDepth,    \* bound: how often a thread takes what it holds
    None

Threads == A35 \cup M4
Sides == {"A35", "M4"}
Side(t) == IF t \in A35 THEN "A35" ELSE "M4"
Cores(s) == IF s = "A35" THEN {0, 1} ELSE {0}
Keys == {"A35"} \X Cores("A35") \cup {"M4"} \X Cores("M4")

ASSUME HwSemAssumption ==
    /\ A35 \cap M4 = {}
    /\ Affinity \in [Threads -> SUBSET {0, 1}]
    /\ \A t \in Threads : Affinity[t] # {} /\ Affinity[t] \subseteq Cores(Side(t))
    /\ None \notin Threads \cup Keys
    /\ HoldMod \in Nat /\ MaxDepth \in 1 .. HoldMod - 1

VARIABLES
    sem,           \* key in SEM[id], None when unlocked
    inten, intsts, \* each side's INTEN_CORE and INTSTS_CORE bit
    isr,           \* where each side's nu_hwsem_isr is, "stopped" when the M4 is
                   \* held in reset
    owner, hold,   \* of each side's struct nu_mutex_priv
    comp, waiter,  \* its completion: flag and suspended_list
    pc,            \* where each thread is
    key, wait,     \* u8PrivKey and timeout of its nu_mutex_take
    depth,         \* (history) its takes that are not released
    broken         \* (history) two threads have become the owner at once, or
                   \* an owner has left while it holds the semaphore

device == <<sem, inten, intsts>>
priv == <<owner, hold, comp, waiter>>
thread == <<pc, key, wait, depth>>
vars == <<device, isr, priv, thread, broken>>

Init ==
    /\ sem = None
    /\ inten = [s \in Sides |-> FALSE] /\ intsts = [s \in Sides |-> FALSE]
    /\ isr = [s \in Sides |-> "off"]
    /\ owner = [s \in Sides |-> None] /\ hold = [s \in Sides |-> 0]
    /\ comp = [s \in Sides |-> FALSE] /\ waiter = [s \in Sides |-> None]
    /\ pc = [t \in Threads |-> "out"]
    /\ key = [t \in Threads |-> None]
    /\ wait = [t \in Threads |-> "none"]
    /\ depth = [t \in Threads |-> 0]
    /\ broken = FALSE

-----------------------------------------------------------------------------
(* Key of the side with the number of the core c that runs the thread *)
Key(t, c) == <<Side(t), c>>

(* A write of SEM[id] locks the semaphore when it is free and unlocks it   *)
(* when it is locked with that key; an unlock raises the interrupt flag of *)
(* both sides, enabled or not.                                             *)
WriteSem(k) ==
    /\ sem' = IF sem = None THEN k ELSE IF sem = k THEN None ELSE sem
    /\ intsts' = IF sem = k THEN [s \in Sides |-> TRUE] ELSE intsts

(* On the single core of the M4 a thread does not run during the interrupt, *)
(* and nothing runs while the core is in reset                              *)
At(t, place) ==
    /\ pc[t] = place
    /\ Side(t) = "M4" => isr["M4"] = "off"

Goto(t, place) == pc' = [pc EXCEPT ![t] = place]

-----------------------------------------------------------------------------
(* nu_mutex_init: "if (!priv->owner)" *)
InitCheck(t) ==
    /\ At(t, "out")
    /\ owner[Side(t)] = None
    /\ Goto(t, "init")
    /\ UNCHANGED <<device, isr, priv, key, wait, depth, broken>>

InitOwner(t) ==
    /\ At(t, "init")
    /\ broken' = (owner[Side(t)] # None)
    /\ owner' = [owner EXCEPT ![Side(t)] = t]
    /\ Goto(t, "ready")
    /\ UNCHANGED <<device, isr, hold, comp, waiter, key, wait, depth>>

(* nu_mutex_deinit, which does not look whether the mutex is still held *)
Deinit(t) ==
    /\ At(t, "ready")
    /\ broken' = (depth[t] > 0)
    /\ owner' = [owner EXCEPT ![Side(t)] = None]
    /\ Goto(t, "out")
    /\ UNCHANGED <<device, isr, hold, comp, waiter, key, wait, depth>>

-----------------------------------------------------------------------------
(* nu_mutex_take *)

(* Mutation: the key lacks the number of the core. *)
TakeKeyNoCpu(t, w, c) ==
    /\ At(t, "ready") /\ owner[Side(t)] = t
    /\ depth[t] < MaxDepth
    /\ key' = [key EXCEPT ![t] = <<Side(t), 0>>]
    /\ wait' = [wait EXCEPT ![t] = w]
    /\ comp' = [comp EXCEPT ![Side(t)] = FALSE]
    /\ waiter' = [waiter EXCEPT ![Side(t)] = None]
    /\ Goto(t, "locked")
    /\ UNCHANGED <<device, isr, owner, hold, depth, broken>>

(* The key, the owner check and rt_completion_init *)
Take(t, w, c) ==
    /\ At(t, "ready") /\ owner[Side(t)] = t
    /\ depth[t] < MaxDepth
    /\ key' = [key EXCEPT ![t] = Key(t, c)]
    /\ wait' = [wait EXCEPT ![t] = w]
    /\ comp' = [comp EXCEPT ![Side(t)] = FALSE]
    /\ waiter' = [waiter EXCEPT ![Side(t)] = None]
    /\ Goto(t, "locked")
    /\ UNCHANGED <<device, isr, owner, hold, depth, broken>>

(* The call is over *)
Return(t) ==
    /\ Goto(t, "ready")
    /\ key' = [key EXCEPT ![t] = None]
    /\ wait' = [wait EXCEPT ![t] = "none"]

IsLocked(t) ==
    /\ At(t, "locked")
    /\ Goto(t, IF sem = None THEN "lock" ELSE "key")
    /\ UNCHANGED <<device, isr, priv, key, wait, depth, broken>>

(* "owner is me": held once more; or else wait *)
GetKey(t) ==
    /\ At(t, "key")
    /\ IF sem = key[t]
       THEN /\ hold' = [hold EXCEPT ![Side(t)] = (@ + 1) % HoldMod]
            /\ depth' = [depth EXCEPT ![t] = @ + 1]
            /\ Return(t)
       ELSE /\ Goto(t, "enable")
            /\ UNCHANGED <<hold, depth, key, wait>>
    /\ UNCHANGED <<device, isr, owner, comp, waiter, broken>>

(* Mutation: an older interrupt is cleared first. *)
EnableIntClears(t) ==
    /\ At(t, "enable")
    /\ inten' = [inten EXCEPT ![Side(t)] = TRUE]
    /\ intsts' = [intsts EXCEPT ![Side(t)] = FALSE]
    /\ Goto(t, "wait")
    /\ UNCHANGED <<sem, isr, priv, key, wait, depth, broken>>

EnableInt(t) ==
    /\ At(t, "enable")
    /\ inten' = [inten EXCEPT ![Side(t)] = TRUE]
    /\ Goto(t, "wait")
    /\ UNCHANGED <<sem, intsts, isr, priv, key, wait, depth, broken>>

(* rt_completion_wait: the flag is set and cleared again, or there is no   *)
(* time to wait, or the thread is suspended                                *)
CompletionWait(t) ==
    /\ At(t, "wait")
    /\ \/ /\ comp[Side(t)]
          /\ comp' = [comp EXCEPT ![Side(t)] = FALSE]
          /\ Goto(t, "locked")
          /\ UNCHANGED <<waiter, key, wait>>
       \/ /\ ~comp[Side(t)] /\ wait[t] = "zero"
          /\ Return(t)
          /\ UNCHANGED <<comp, waiter>>
       \/ /\ ~comp[Side(t)] /\ wait[t] = "wait"
          /\ waiter' = [waiter EXCEPT ![Side(t)] = t]
          /\ Goto(t, "suspended")
          /\ UNCHANGED <<comp, key, wait>>
    /\ UNCHANGED <<device, isr, owner, hold, depth, broken>>

(* _thread_timeout.  It need not happen: RT_WAITING_FOREVER is the case    *)
(* that it never does.                                                     *)
Timeout(t) ==
    /\ pc[t] = "suspended"
    /\ isr[Side(t)] # "stopped"
    /\ waiter' = [waiter EXCEPT ![Side(t)] = None]
    /\ Goto(t, "timedout")
    /\ UNCHANGED <<device, isr, owner, hold, comp, key, wait, depth, broken>>

(* Running again the thread clears the flag, even if it has timed out *)
Woken(t) ==
    /\ \/ At(t, "woken") /\ Goto(t, "locked") /\ UNCHANGED <<key, wait>>
       \/ At(t, "timedout") /\ Return(t)
    /\ comp' = [comp EXCEPT ![Side(t)] = FALSE]
    /\ UNCHANGED <<device, isr, owner, hold, waiter, depth, broken>>

Lock(t) ==
    /\ At(t, "lock")
    /\ WriteSem(key[t])
    /\ Goto(t, "verify")
    /\ UNCHANGED <<inten, isr, priv, key, wait, depth, broken>>

(* Mutation: the thread does not look whether it got the semaphore. *)
VerifyBlind(t) ==
    /\ At(t, "verify")
    /\ hold' = [hold EXCEPT ![Side(t)] = 1]
    /\ depth' = [depth EXCEPT ![t] = @ + 1]
    /\ Goto(t, "disable")
    /\ UNCHANGED <<device, isr, owner, comp, waiter, key, wait, broken>>

(* Is the key in the register mine? *)
Verify(t) ==
    /\ At(t, "verify")
    /\ IF sem = key[t]
       THEN /\ hold' = [hold EXCEPT ![Side(t)] = 1]
            /\ depth' = [depth EXCEPT ![t] = @ + 1]
            /\ Goto(t, "disable")
       ELSE Goto(t, "locked") /\ UNCHANGED <<hold, depth>>
    /\ UNCHANGED <<device, isr, owner, comp, waiter, key, wait, broken>>

DisableInt(t) ==
    /\ At(t, "disable")
    /\ inten' = [inten EXCEPT ![Side(t)] = FALSE]
    /\ Return(t)
    /\ UNCHANGED <<sem, intsts, isr, priv, depth, broken>>

(* Mutation: hold is counted down before the key is looked at. *)
ReleaseUnchecked(t, c) ==
    /\ At(t, "ready") /\ owner[Side(t)] = t
    /\ hold' = [hold EXCEPT ![Side(t)] = (@ - 1) % HoldMod]
    /\ depth' = [depth EXCEPT ![t] = IF @ = 0 THEN 0 ELSE @ - 1]
    /\ IF sem = Key(t, c) /\ hold'[Side(t)] = 0 THEN WriteSem(Key(t, c))
       ELSE UNCHANGED <<sem, intsts>>
    /\ UNCHANGED <<inten, isr, owner, comp, waiter, pc, key, wait, broken>>

(* nu_mutex_release, running on the core with whose number it was taken *)
Release(t, c) ==
    /\ At(t, "ready") /\ owner[Side(t)] = t
    /\ sem = Key(t, c)
    /\ hold' = [hold EXCEPT ![Side(t)] = (@ - 1) % HoldMod]
    /\ depth' = [depth EXCEPT ![t] = @ - 1]
    /\ IF hold'[Side(t)] = 0 THEN WriteSem(Key(t, c)) ELSE UNCHANGED <<sem, intsts>>
    /\ UNCHANGED <<inten, isr, owner, comp, waiter, pc, key, wait, broken>>

-----------------------------------------------------------------------------
(* nu_hwsem_isr *)
Isr(s) ==
    /\ isr[s] = "off"
    /\ inten[s] /\ intsts[s]
    /\ intsts' = [intsts EXCEPT ![s] = FALSE]
    /\ isr' = [isr EXCEPT ![s] = "done"]
    /\ UNCHANGED <<sem, inten, priv, thread, broken>>

(* rt_completion_done reads the flag before it takes the lock *)
CompletionRead(s) ==
    /\ isr[s] = "done"
    /\ isr' = [isr EXCEPT ![s] = IF comp[s] THEN "off" ELSE "resume"]
    /\ UNCHANGED <<device, priv, thread, broken>>

CompletionDone(s) ==
    /\ isr[s] = "resume"
    /\ comp' = [comp EXCEPT ![s] = TRUE]
    /\ waiter' = [waiter EXCEPT ![s] = None]
    /\ pc' = [t \in Threads |-> IF t = waiter[s] THEN "woken" ELSE pc[t]]
    /\ isr' = [isr EXCEPT ![s] = "off"]
    /\ UNCHANGED <<device, owner, hold, key, wait, depth, broken>>

(* nu_rtp_stop: the M4 is held in reset, perhaps for good; the register    *)
(* keeps what the M4 wrote                                                 *)
Stop ==
    /\ isr["M4"] # "stopped"
    /\ isr' = [isr EXCEPT !["M4"] = "stopped"]
    /\ UNCHANGED <<device, priv, thread, broken>>

(* What the image of the M4 keeps in memory is gone *)
Rebooted ==
    /\ inten' = [inten EXCEPT !["M4"] = FALSE]
    /\ isr' = [isr EXCEPT !["M4"] = "off"]
    /\ owner' = [owner EXCEPT !["M4"] = None]
    /\ hold' = [hold EXCEPT !["M4"] = 0]
    /\ comp' = [comp EXCEPT !["M4"] = FALSE]
    /\ waiter' = [waiter EXCEPT !["M4"] = None]
    /\ pc' = [t \in Threads |-> IF t \in M4 THEN "out" ELSE pc[t]]
    /\ key' = [t \in Threads |-> IF t \in M4 THEN None ELSE key[t]]
    /\ wait' = [t \in Threads |-> IF t \in M4 THEN "none" ELSE wait[t]]
    /\ depth' = [t \in Threads |-> IF t \in M4 THEN 0 ELSE depth[t]]
    /\ UNCHANGED broken

(* Mutation: the semaphore stays locked. *)
RestartKeepsLock == Rebooted /\ UNCHANGED <<sem, intsts>>

(* nu_rtp_start, or the M4 starts again by itself, while the A35 runs: its *)
(* rt_hw_hwsem_init unlocks what the M4 had locked.                        *)
Restart ==
    /\ Rebooted
    /\ IF sem = <<"M4", 0>> THEN WriteSem(<<"M4", 0>>) ELSE UNCHANGED <<sem, intsts>>

TakeStep(t) ==
    \/ IsLocked(t) \/ GetKey(t) \/ EnableInt(t) \/ CompletionWait(t)
    \/ Woken(t) \/ Lock(t) \/ Verify(t) \/ DisableInt(t)

Interrupt(s) == Isr(s) \/ CompletionRead(s) \/ CompletionDone(s)

(* Once the mutex is broken anything may happen *)
Next ==
    /\ ~broken
    /\ \/ \E t \in Threads :
             \/ InitCheck(t) \/ InitOwner(t) \/ Deinit(t)
             \/ \E w \in {"zero", "wait"}, c \in Affinity[t] : Take(t, w, c)
             \/ TakeStep(t) \/ Timeout(t)
             \/ \E c \in Affinity[t] : Release(t, c)
       \/ \E s \in Sides : Interrupt(s)
       \/ Stop \/ Restart

Spec == Init /\ [][Next]_vars

(* A thread in nu_mutex_take runs and an enabled interrupt is served *)
FairSpec ==
    /\ Spec
    /\ \A t \in Threads : WF_vars(~broken /\ TakeStep(t))
    /\ \A s \in Sides : WF_vars(~broken /\ Interrupt(s))

-----------------------------------------------------------------------------
InTake == {"locked", "key", "enable", "wait", "suspended", "woken", "timedout",
           "lock", "verify", "disable"}

TypeOK ==
    /\ sem \in Keys \cup {None}
    /\ inten \in [Sides -> BOOLEAN] /\ intsts \in [Sides -> BOOLEAN]
    /\ isr \in [Sides -> {"off", "done", "resume", "stopped"}]
    /\ owner \in [Sides -> Threads \cup {None}]
    /\ hold \in [Sides -> 0 .. MaxDepth]
    /\ comp \in [Sides -> BOOLEAN] /\ waiter \in [Sides -> Threads \cup {None}]
    /\ pc \in [Threads -> InTake \cup {"out", "init", "ready"}]
    /\ key \in [Threads -> Keys \cup {None}]
    /\ wait \in [Threads -> {"none", "zero", "wait"}]
    /\ depth \in [Threads -> 0 .. MaxDepth]
    /\ broken \in BOOLEAN

(* A thread whose nu_mutex_take succeeded is alone: it is its side's       *)
(* owner, the semaphore is locked for its side, and hold counts exactly    *)
(* its takes, so that the last release and no earlier one unlocks.  This   *)
(* survives a change of core, a stop and a restart of the M4.              *)
Exclusive ==
    \A t \in Threads : depth[t] > 0 /\ ~broken =>
        /\ sem # None /\ sem[1] = Side(t)
        /\ owner[Side(t)] = t
        /\ hold[Side(t)] = depth[t]

(* A thread that is bound to its core can always release what it holds;    *)
(* nu_mutex_release compares the key with the number of the core it runs   *)
(* on.                                                                     *)
BoundCanRelease ==
    \A t \in Threads : Cardinality(Affinity[t]) = 1 /\ depth[t] > 0 /\ ~broken =>
        \A c \in Affinity[t] : sem = Key(t, c)

(* A locked semaphore has a thread that will release it: neither a restart *)
(* of the M4 nor a lost race for the register leaves it locked for nobody. *)
(* (While the M4 is stopped its thread does not run; only a start helps.)  *)
NoOrphan ==
    sem # None =>
        \E t \in Threads : Side(t) = sem[1] /\ (depth[t] > 0 \/ pc[t] = "verify")

(* No unlock is lost: a thread is not for ever in nu_mutex_take while its  *)
(* processor runs and the semaphore is free, although it looks at the      *)
(* register, enables the interrupt and waits in three steps, the           *)
(* completion is signalled outside the lock, and a wake-up may be for an   *)
(* older unlock.                                                           *)
FreeIsTaken ==
    []~broken => \A t \in Threads :
        []<>(pc[t] \notin InTake \/ sem # None \/ isr[Side(t)] = "stopped")
=============================================================================
